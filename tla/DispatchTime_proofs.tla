-------------------------- MODULE DispatchTime_proofs --------------------------
(***************************************************************************)
(* Proofs about Dispatch.  Time: a message with a DueTime is not sent      *)
(* before it, and a message deleted before it, once its request is         *)
(* handled, is never sent; both need MinRetry > 0, since with 0 a re-send  *)
(* picks up every message that waits for its time.  Duplicates: a user     *)
(* gets no more copies of a message than faults and re-sends explain.      *)
(***************************************************************************)
EXTENDS Dispatch_proofs, FiniteSetTheorems

\* No channel of the row has been tried.
Fresh(r) == \A c \in Channels : r.part[c].retry = 0

\* A consumer that neither sends nor publishes for m.
QuietState(state, m) ==
  state # Idle /\ state.cmd.msg = m => state.cmd.type \notin Channels /\ state.step # "publish"

\* Nobody has begun to send m.
Quiet(m) ==
  /\ \A c \in Channels : accepted[m][c] = 0 /\ ready[SendCommand(c, m)] = 0
  /\ \A w \in Workers : QuietState(worker[w], m)
  /\ \A j \in JobIds : job[j] # NoJob /\ job[j].msg = m => job[j].phase = "scheduled"

FreshCopies(m) ==
  /\ row[m] # NoRow => Fresh(row[m])
  /\ \A w \in Workers :
       worker[w] # Idle /\ MessageOf(w) = m /\ worker[w].snap # NoRow => Fresh(worker[w].snap)

EarlyInv == \A m \in Due \ past : Quiet(m) /\ FreshCopies(m)

RequestSteps == {"isExist", "add", "schedule", "save", "publish", "catch"}
DeleteSteps == {"delete", "dropJob"}

\* Which command a consumer may have at which step.
InPlace(state) ==
  state # Idle =>
    /\ state.step \in RequestSteps => state.cmd = RequestOf(state.cmd.msg)
    /\ state.step = "send" => state.cmd.type \in Channels
    /\ state.step \in DeleteSteps => state.cmd.msg \in Due

StepsInv == \A w \in Workers : InPlace(worker[w])

\* What is left of a message deleted in time: nothing that could bring it back.
Gone(m) ==
  /\ row[m] = NoRow /\ ready[RequestOf(m)] = 0
  /\ \A c \in Channels : accepted[m][c] = 0
  /\ \A w \in Workers : worker[w] # Idle /\ MessageOf(w) = m
                          => worker[w].cmd # RequestOf(m) /\ worker[w].step # "send"

LateInv == \A m \in Msg : withdrawn[m] = "late" => Gone(m)

-----------------------------------------------------------------------------
(* Steps and commands                                                      *)

\* The commands of different kinds differ.
LEMMA Kinds ==
  /\ \A m \in Msg : RequestOf(m) \in Command /\ RequestOf(m) \in Requests
  /\ \A c \in Channels, m \in Msg : SendCommand(c, m) \in Command
  /\ \A cmd \in Command : cmd \in Requests <=> cmd.type = "SendMessage"
  /\ \A cmd \in Requests : cmd = RequestOf(cmd.msg)
  /\ \A cmd \in Command : cmd.type \in Channels => cmd = SendCommand(cmd.type, cmd.msg)
  /\ "SendMessage" \notin Channels /\ "SmsDelivery" \notin Channels
  /\ \A cmd \in Deletes : cmd.type \notin Channels /\ cmd.type # "SendMessage"
<1>1. /\ "SendMessage" \notin Channels /\ "SmsDelivery" \notin Channels
      /\ \A cmd \in Deletes : cmd.type \notin Channels /\ cmd.type # "SendMessage"
  BY DispatchAssumption DEF ChannelNames, Deletes
<1>2. \A cmd \in Requests : cmd = RequestOf(cmd.msg)
  BY DEF Requests, RequestOf
<1>3. \A cmd \in Command : cmd \in Requests <=> cmd.type = "SendMessage"
  BY <1>1 DEF Command, Requests, Sends, Deletes, Reports
<1>4. \A cmd \in Sends : cmd = SendCommand(cmd.type, cmd.msg)
  BY DEF Sends, SendCommand
<1>5. \A cmd \in Command : cmd.type \in Channels => cmd \in Sends
  BY <1>1 DEF Command, Requests, Sends, Deletes, Reports
<1>6. \A m \in Msg : RequestOf(m) \in Command /\ RequestOf(m) \in Requests
  BY DEF Command, Requests, RequestOf
<1>7. \A c \in Channels, m \in Msg : SendCommand(c, m) \in Command
  BY DEF Command, Sends, SendCommand
<1> QED BY <1>1, <1>2, <1>3, <1>4, <1>5, <1>6, <1>7

\* The other consumers go on as they are.
LEMMA OneInPlace ==
  ASSUME TypeInv, StepsInv, NEW w \in Workers, NEW state, Become(w, state), InPlace(state)
  PROVE  StepsInv'
<1>1. /\ worker'[w] = state
      /\ \A v \in Workers \ {w} : worker'[v] = worker[v]
  BY DEF Become, TypeInv, TypeOK
<1> QED BY <1>1 DEF StepsInv, InPlace

LEMMA BeginInPlace ==
  ASSUME NEW cmd \in Command, NEW attempt, NEW held
  PROVE  InPlace(Begin(cmd, attempt, held))
<1>1. /\ Begin(cmd, attempt, held).cmd = cmd
      /\ Begin(cmd, attempt, held).step = IF cmd \in Requests THEN "isExist" ELSE "load"
  BY DEF Begin, FirstStep
<1> QED BY <1>1, Kinds DEF InPlace, RequestSteps, DeleteSteps

\* A consumer that throws begins again, or is done.
LEMMA ThrowBegins ==
  ASSUME TypeInv, NEW w \in Workers, worker[w] # Idle, Throw(w) \/ Ack(w)
  PROVE  \E state : /\ Become(w, state) /\ InPlace(state)
                    /\ state # Idle => /\ state.step \in {"isExist", "load"}
                                       /\ state.cmd = worker[w].cmd
<1>1. worker[w].cmd \in Command
  BY BusyFacts DEF TypeInv
<1>2. InPlace(Idle)
  BY DEF InPlace
<1>3. CASE Become(w, Idle)
  BY <1>2, <1>3
<1>4. CASE Become(w, Begin(worker[w].cmd, worker[w].attempt + 1, worker[w].held))
  <2> DEFINE state == Begin(worker[w].cmd, worker[w].attempt + 1, worker[w].held)
  <2>1. state.step \in {"isExist", "load"} /\ state.cmd = worker[w].cmd
    BY DEF Begin, FirstStep
  <2>2. InPlace(state)
    BY <1>1, BeginInPlace
  <2> HIDE DEF state
  <2> QED BY <1>4, <2>1, <2>2 DEF state
<1> QED BY <1>3, <1>4 DEF Throw, Ack

LEMMA ThrowInPlace ==
  ASSUME TypeInv, StepsInv, NEW w \in Workers, worker[w] # Idle, Throw(w) \/ Ack(w)
  PROVE  StepsInv'
BY ThrowBegins, OneInPlace

\* A consumer that goes on with its command.
LEMMA MoveInPlace ==
  ASSUME TypeInv, StepsInv, NEW w \in Workers, worker[w] # Idle, NEW state, Become(w, state),
         state.cmd = worker[w].cmd,
         state.step \in RequestSteps => worker[w].step \in RequestSteps,
         state.step = "send" => worker[w].cmd.type \in Channels,
         state.step \in DeleteSteps =>
           worker[w].cmd.msg \in Due \/ worker[w].step \in DeleteSteps
  PROVE  StepsInv'
<1>1. InPlace(worker[w])
  BY DEF StepsInv
<1>2. InPlace(state)
  BY <1>1 DEF InPlace
<1> QED BY <1>2, OneInPlace

\* What EXCEPT does to a busy consumer's command and step.
LEMMA Moved ==
  ASSUME NEW state \in Busy
  PROVE  /\ \A step : /\ [state EXCEPT !.step = step].cmd = state.cmd
                      /\ [state EXCEPT !.step = step].step = step
         /\ \A step, snap : /\ [state EXCEPT !.step = step, !.snap = snap].cmd = state.cmd
                            /\ [state EXCEPT !.step = step, !.snap = snap].step = step
         /\ \A step, todo : /\ [state EXCEPT !.step = step, !.todo = todo].cmd = state.cmd
                            /\ [state EXCEPT !.step = step, !.todo = todo].step = step
         /\ \A todo : /\ [state EXCEPT !.todo = todo].cmd = state.cmd
                      /\ [state EXCEPT !.todo = todo].step = state.step
         /\ \A held : /\ [state EXCEPT !.held = held].cmd = state.cmd
                      /\ [state EXCEPT !.held = held].step = state.step
         /\ \A step, failed, c, part :
              LET next == [state EXCEPT !.step = step, !.failed = failed, !.snap.part[c] = part]
              IN  next.cmd = state.cmd /\ next.step = step
BY DEF Busy

\* A step of a consumer: it throws or ends, or goes on with its command.
GoesOn(w, state) ==
  /\ Become(w, state) /\ state.cmd = worker[w].cmd
  /\ state.step \in RequestSteps => worker[w].step \in RequestSteps
  /\ state.step = "publish" =>
       worker[w].step = "publish" \/ (worker[w].step = "save" /\ MessageOf(w) \notin Due)
  /\ state.step = "send" =>
       /\ worker[w].cmd.type \in Channels
       /\ worker[w].step = "send" \/ (worker[w].step = "load" /\ row[MessageOf(w)] # NoRow)
  /\ state.step \in DeleteSteps =>
       worker[w].cmd.msg \in Due \/ worker[w].step \in DeleteSteps

Advances(w) == Throw(w) \/ Ack(w) \/ \E state : GoesOn(w, state)

LEMMA GoToSteps ==
  ASSUME TypeInv, NEW w \in Workers, worker[w] # Idle,
         NEW step \in Steps \ {"publish", "send"},
         step \in RequestSteps => worker[w].step \in RequestSteps,
         step \in DeleteSteps => worker[w].step \in DeleteSteps, GoTo(w, step)
  PROVE  Advances(w)
<1>1. worker[w] \in Busy
  BY BusyFacts DEF TypeInv
<1> DEFINE state == [worker[w] EXCEPT !.step = step]
<1>2. state.cmd = worker[w].cmd /\ state.step = step /\ Become(w, state)
  BY <1>1, Moved DEF GoTo
<1>3. GoesOn(w, state)
  BY <1>2 DEF GoesOn
<1> QED BY <1>3 DEF Advances

\* Every action of a consumer, whatever command it has.
LEMMA RequestAdvances ==
  ASSUME TypeInv, NEW w \in Workers, HandleRequest(w)
  PROVE  worker[w] # Idle /\ Advances(w)
<1>1. worker[w] # Idle
  BY DEF HandleRequest, IsExist, AddRow, ScheduleJob, SavePending, PublishNow,
         CatchDelete, At
<1> SUFFICES Advances(w)
  BY <1>1
<1>2. worker[w] \in Busy
  BY <1>1, BusyFacts DEF TypeInv
<1>3. {"add", "catch"} \subseteq (Steps \ {"publish", "send"}) \ DeleteSteps
  BY DEF Steps, DeleteSteps
<1>4. CASE IsExist(w)
  <2>1. worker[w].step \in RequestSteps
    BY <1>4 DEF IsExist, At, RequestSteps
  <2>2. Throw(w) \/ Ack(w) \/ GoTo(w, "add")
    BY <1>4 DEF IsExist
  <2> QED BY <1>1, <1>3, <2>1, <2>2, GoToSteps DEF Advances
<1>5. CASE AddRow(w)
  <2>1. worker[w].step \in RequestSteps
    BY <1>5 DEF AddRow, At, RequestSteps
  <2>2. ASSUME NEW step \in {"schedule", "save"}, NEW snap,
               Become(w, [worker[w] EXCEPT !.step = step, !.snap = snap])
        PROVE  Advances(w)
    <3> DEFINE state == [worker[w] EXCEPT !.step = step, !.snap = snap]
    <3>1. state.cmd = worker[w].cmd /\ state.step = step
      BY <1>2, Moved
    <3>2. GoesOn(w, state)
      BY <2>1, <2>2, <3>1 DEF GoesOn, DeleteSteps
    <3> QED BY <3>2 DEF Advances
  <2> QED BY <1>5, <2>2 DEF AddRow, Advances
<1>6. CASE ScheduleJob(w)
  <2>1. worker[w].step \in RequestSteps
    BY <1>6 DEF ScheduleJob, At, RequestSteps
  <2>2. ASSUME NEW j \in JobIds,
               Become(w, [worker[w] EXCEPT !.step = "save", !.snap = EnqueuedRow(@, j)])
        PROVE  Advances(w)
    <3> DEFINE state == [worker[w] EXCEPT !.step = "save", !.snap = EnqueuedRow(worker[w].snap, j)]
    <3>1. state.cmd = worker[w].cmd /\ state.step = "save"
      BY <1>2, Moved
    <3>2. Become(w, state)
      BY <2>2
    <3>3. GoesOn(w, state)
      BY <2>1, <3>1, <3>2 DEF GoesOn, DeleteSteps
    <3> QED BY <3>3 DEF Advances
  <2> QED BY <1>1, <1>3, <1>6, <2>1, <2>2, GoToSteps DEF ScheduleJob
<1>7. CASE SavePending(w)
  <2>1. worker[w].step = "save"
    BY <1>7 DEF SavePending, At
  <2>2. ASSUME AfterSave(w) PROVE Advances(w)
    <3> DEFINE state == [worker[w] EXCEPT !.step = "publish", !.todo = Channels]
    <3>1. CASE MessageOf(w) \in Due
      BY <2>2, <3>1 DEF AfterSave, Advances
    <3>2. CASE MessageOf(w) \notin Due
      <4>1. state.cmd = worker[w].cmd /\ state.step = "publish"
        BY <1>2, Moved
      <4>2. Become(w, state)
        BY <2>2, <3>2 DEF AfterSave
      <4>3. GoesOn(w, state)
        BY <2>1, <3>2, <4>1, <4>2 DEF GoesOn, RequestSteps, DeleteSteps
      <4> QED BY <4>3 DEF Advances
    <3> QED BY <3>1, <3>2
  <2>3. CASE GoTo(w, "catch")
    BY <1>1, <1>3, <2>1, <2>3, GoToSteps DEF RequestSteps
  <2> QED BY <1>7, <2>2, <2>3 DEF SavePending
<1>8. ASSUME NEW c \in Channels, PublishNow(w, c) PROVE Advances(w)
  <2>1. worker[w].step = "publish"
    BY <1>8 DEF PublishNow, At
  <2>2. ASSUME NEW rest, Become(w, [worker[w] EXCEPT !.todo = rest]) PROVE Advances(w)
    <3> DEFINE state == [worker[w] EXCEPT !.todo = rest]
    <3>1. state.cmd = worker[w].cmd /\ state.step = "publish"
      BY <1>2, <2>1, Moved
    <3>2. GoesOn(w, state)
      BY <2>1, <2>2, <3>1 DEF GoesOn, DeleteSteps
    <3> QED BY <3>2 DEF Advances
  <2>3. CASE GoTo(w, "catch")
    BY <1>1, <1>3, <2>1, <2>3, GoToSteps DEF RequestSteps
  <2> QED BY <1>8, <2>2, <2>3 DEF PublishNow, Advances
<1>9. CASE CatchDelete(w)
  BY <1>9 DEF CatchDelete, Advances
<1> QED BY <1>1, <1>4, <1>5, <1>6, <1>7, <1>8, <1>9 DEF HandleRequest

LEMMA OtherAdvances ==
  ASSUME TypeInv, NEW w \in Workers, HandleSend(w) \/ HandleReport(w) \/ HandleDelete(w)
  PROVE  worker[w] # Idle /\ Advances(w)
<1>1. worker[w] # Idle
  BY DEF HandleSend, LoadForSend, CallProvider, RecordOutcome, HandleReport, LoadForReport,
         SaveReport, HandleDelete, LoadForDelete, DeleteRow, DropJob, At
<1> SUFFICES Advances(w)
  BY <1>1
<1>2. worker[w] \in Busy
  BY <1>1, BusyFacts DEF TypeInv
<1>3. ASSUME NEW c \in Channels, LoadForSend(w, c) PROVE Advances(w)
  <2> DEFINE state == [worker[w] EXCEPT !.step = "send", !.snap = row[MessageOf(w)]]
  <2>1. worker[w].cmd.type = c /\ worker[w].step = "load"
    BY <1>3 DEF LoadForSend, At
  <2>2. state.cmd = worker[w].cmd /\ state.step = "send"
    BY <1>2, Moved
  <2>3. CASE row[MessageOf(w)] # NoRow /\ Become(w, state)
    <3>1. GoesOn(w, state)
      BY <2>1, <2>2, <2>3 DEF GoesOn, RequestSteps, DeleteSteps
    <3> QED BY <3>1 DEF Advances
  <2>4. Ack(w) \/ (row[MessageOf(w)] # NoRow /\ Become(w, state))
    BY <1>3 DEF LoadForSend, NothingToSend
  <2> QED BY <2>3, <2>4 DEF Advances
<1>4. ASSUME NEW c, NEW allowed, NEW part, NEW failed, Outcome(w, c, allowed, part, failed)
      PROVE Advances(w)
  <2> DEFINE state == [worker[w] EXCEPT !.step = "record", !.failed = failed, !.snap.part[c] = part]
  <2>1. state.cmd = worker[w].cmd /\ state.step = "record"
    BY <1>2, Moved
  <2>2. CASE Become(w, state)
    <3>1. GoesOn(w, state)
      BY <2>1, <2>2 DEF GoesOn, RequestSteps, DeleteSteps
    <3> QED BY <3>1 DEF Advances
  <2> QED BY <1>4, <2>2 DEF Outcome, Advances
<1>5. ASSUME NEW c \in Channels, CallProvider(w, c) PROVE Advances(w)
  BY <1>4, <1>5 DEF CallProvider
<1>6. CASE RecordOutcome(w) \/ SaveReport(w)
  BY <1>6 DEF RecordOutcome, SaveReport, Advances
<1>7. CASE LoadForReport(w)
  <2>1. ASSUME NEW snap, Become(w, [worker[w] EXCEPT !.step = "record", !.snap = snap])
        PROVE  Advances(w)
    <3> DEFINE state == [worker[w] EXCEPT !.step = "record", !.snap = snap]
    <3>1. state.cmd = worker[w].cmd /\ state.step = "record"
      BY <1>2, Moved
    <3>2. GoesOn(w, state)
      BY <2>1, <3>1 DEF GoesOn, RequestSteps, DeleteSteps
    <3> QED BY <3>2 DEF Advances
  <2> QED BY <1>7, <2>1 DEF LoadForReport, Advances
<1>8. CASE LoadForDelete(w)
  <2>1. ASSUME MessageOf(w) \in Due, NEW step \in DeleteSteps,
               Become(w, [worker[w] EXCEPT !.step = step, !.snap = row[MessageOf(w)]])
        PROVE  Advances(w)
    <3> DEFINE state == [worker[w] EXCEPT !.step = step, !.snap = row[MessageOf(w)]]
    <3>1. state.cmd = worker[w].cmd /\ state.step = step
      BY <1>2, Moved
    <3>2. GoesOn(w, state)
      BY <2>1, <3>1 DEF GoesOn, RequestSteps, DeleteSteps, MessageOf
    <3> QED BY <3>2 DEF Advances
  <2> QED BY <1>8, <2>1 DEF LoadForDelete, DeleteSteps, Advances
<1>9. CASE DeleteRow(w) \/ DropJob(w)
  <2>1. DeleteSteps \subseteq Steps \ {"publish", "send"} /\ DeleteSteps \cap RequestSteps = {}
    BY DEF Steps, RequestSteps, DeleteSteps
  <2>2. worker[w].step \in DeleteSteps
    BY <1>9 DEF DeleteRow, DropJob, At, DeleteSteps
  <2>3. Throw(w) \/ Ack(w) \/ GoTo(w, "dropJob") \/ GoTo(w, "delete")
    BY <1>9 DEF DeleteRow, DropJob
  <2>4. "dropJob" \in DeleteSteps /\ "delete" \in DeleteSteps
    BY DEF DeleteSteps
  <2> QED BY <1>1, <2>1, <2>2, <2>3, <2>4, GoToSteps DEF Advances
<1> QED BY <1>1, <1>3, <1>5, <1>6, <1>7, <1>8, <1>9
        DEF HandleSend, HandleReport, HandleDelete

LEMMA ConsumeSteps ==
  ASSUME TypeInv, NEW w \in Workers, Consume(w)
  PROVE  worker[w] # Idle /\ Advances(w)
BY RequestAdvances, OtherAdvances DEF Consume

LEMMA DisconnectSteps ==
  ASSUME TypeInv, NEW w \in Workers, Disconnect(w)
  PROVE  worker[w] # Idle /\
         \E state : Become(w, state) /\ state.cmd = worker[w].cmd /\ state.step = worker[w].step
<1> DEFINE next == [worker[w] EXCEPT !.held = FALSE]
<1>1. worker[w] # Idle /\ Become(w, next)
  BY DEF Disconnect
<1>2. worker[w] \in Busy
  BY <1>1, BusyFacts DEF TypeInv
<1>3. next.cmd = worker[w].cmd /\ next.step = worker[w].step
  BY <1>2, Moved
<1> HIDE DEF next
<1> QED BY <1>1, <1>3

LEMMA NextSteps == TypeInv /\ StepsInv /\ [Next]_vars => StepsInv'
<1> SUFFICES ASSUME TypeInv, StepsInv, [Next]_vars PROVE StepsInv'
  OBVIOUS
<1>1. ASSUME UNCHANGED worker PROVE StepsInv'
  BY <1>1 DEF StepsInv, InPlace
<1>2. CASE Clients
  BY <1>1, <1>2 DEF Clients, SubmitMessage, SubmitDelete, DueTimeComes, ReSendFailedSms,
       ReportDelivery
<1>3. ASSUME NEW w \in Workers, NEW cmd \in Command, Deliver(w, cmd) PROVE StepsInv'
  <2>1. Become(w, Begin(cmd, 0, TRUE))
    BY <1>3 DEF Deliver
  <2> QED BY <2>1, BeginInPlace, OneInPlace
<1>4. ASSUME NEW w \in Workers, ReadFails(w) \/ Crash(w) PROVE StepsInv'
  BY <1>4, ThrowInPlace DEF ReadFails, Crash, At
<1>5. ASSUME NEW w \in Workers, Disconnect(w) PROVE StepsInv'
  <2>1. PICK state : Become(w, state) /\ state.cmd = worker[w].cmd /\ state.step = worker[w].step
    BY <1>5, DisconnectSteps
  <2>2. worker[w] # Idle /\ InPlace(worker[w])
    BY <1>5, DisconnectSteps DEF StepsInv
  <2>3. InPlace(state)
    BY <2>1, <2>2 DEF InPlace
  <2> QED BY <2>1, <2>3, OneInPlace
<1>6. ASSUME NEW w \in Workers, Consume(w) PROVE StepsInv'
  <2>1. worker[w] # Idle /\ Advances(w)
    BY <1>6, ConsumeSteps
  <2>2. ASSUME NEW state, GoesOn(w, state) PROVE StepsInv'
    BY <2>1, <2>2, MoveInPlace DEF GoesOn
  <2> QED BY <2>1, <2>2, ThrowInPlace DEF Advances
<1>7. ASSUME NEW j \in JobIds, RunJob(j) \/ JobFails(j) PROVE StepsInv'
  BY <1>1, <1>7 DEF RunJob, JobFails, StartJob, JobPublish, EndJob
<1>8. CASE UNCHANGED vars
  BY <1>1, <1>8 DEF vars
<1>9. CASE Broker
  BY <1>3, <1>4, <1>5, <1>9 DEF Broker
<1>10. ASSUME NEW m \in Msg, DeleteByTag(m) PROVE StepsInv'
  BY <1>1, <1>10 DEF DeleteByTag
<1> QED BY <1>2, <1>6, <1>7, <1>8, <1>9, <1>10 DEF Next

-----------------------------------------------------------------------------
(* Nothing is begun before its time                                        *)

\* The three parts of Quiet.
NotSent(m) == \A c \in Channels : accepted[m][c] = 0
NotQueued(m) == \A c \in Channels : ready[SendCommand(c, m)] = 0
NobodySends(m) == \A w \in Workers : QuietState(worker[w], m)
JobsWait(m) == \A j \in JobIds : job[j] # NoJob /\ job[j].msg = m => job[j].phase = "scheduled"

LEMMA QuietParts ==
  ASSUME NEW m
  PROVE  /\ Quiet(m) <=> NotSent(m) /\ NotQueued(m) /\ NobodySends(m) /\ JobsWait(m)
         /\ Quiet(m)' <=> NotSent(m)' /\ NotQueued(m)' /\ NobodySends(m)' /\ JobsWait(m)'
BY DEF Quiet, NotSent, NotQueued, NobodySends, JobsWait

LEMMA QuietOne ==
  ASSUME TypeInv, NEW m, NobodySends(m), NEW w \in Workers, NEW state,
         Become(w, state), QuietState(state, m)
  PROVE  NobodySends(m)'
<1>1. worker'[w] = state /\ \A v \in Workers \ {w} : worker'[v] = worker[v]
  BY DEF Become, TypeInv, TypeOK
<1> QED BY <1>1 DEF NobodySends, QuietState

LEMMA QuietAdvance ==
  ASSUME TypeInv, NEW m \in Due, NobodySends(m), NEW w \in Workers, worker[w] # Idle,
         Advances(w)
  PROVE  NobodySends(m)'
<1>1. QuietState(worker[w], m)
  BY DEF NobodySends
<1>2. CASE Throw(w) \/ Ack(w)
  <2>1. PICK state : /\ Become(w, state)
                     /\ state # Idle => /\ state.step \in {"isExist", "load"}
                                        /\ state.cmd = worker[w].cmd
    BY <1>2, ThrowBegins
  <2>2. QuietState(state, m)
    BY <1>1, <2>1 DEF QuietState
  <2> QED BY <2>1, <2>2, QuietOne
<1>3. ASSUME NEW state, GoesOn(w, state) PROVE NobodySends(m)'
  <2>1. QuietState(state, m)
    BY <1>1, <1>3 DEF QuietState, GoesOn, MessageOf
  <2> QED BY <1>3, <2>1, QuietOne DEF GoesOn
<1> QED BY <1>2, <1>3 DEF Advances

\* What is published is not a command to send m.
LEMMA QuietPublish ==
  ASSUME NEW m \in Msg, NotQueued(m), NEW cmds,
         \A c \in Channels : SendCommand(c, m) \notin cmds,
         Publish(cmds)
  PROVE  NotQueued(m)'
<1>1. \A c \in Channels : ready'[SendCommand(c, m)] = ready[SendCommand(c, m)] + 0
  BY Kinds DEF Publish
<1> QED BY <1>1 DEF NotQueued

LEMMA OtherMessage ==
  ASSUME NEW m, NEW n, NEW c, NEW d, m # n
  PROVE  SendCommand(c, m) # SendCommand(d, n)
BY DEF SendCommand

LEMMA QuietRequest ==
  ASSUME TypeInv, NEW m \in Due, Quiet(m), NEW w \in Workers, HandleRequest(w)
  PROVE  Quiet(m)'
<1>0. m \in Msg
  BY DispatchAssumption
<1>1. NobodySends(m)'
  BY RequestAdvances, QuietAdvance, QuietParts
<1>2. NotSent(m)'
  <2>1. UNCHANGED accepted
    BY DEF HandleRequest, IsExist, AddRow, ScheduleJob, SavePending, PublishNow, CatchDelete
  <2> QED BY <2>1, QuietParts DEF NotSent
<1>3. NotQueued(m)'
  <2>1. ASSUME UNCHANGED ready PROVE NotQueued(m)'
    BY <2>1, QuietParts DEF NotQueued
  <2>2. ASSUME NEW c \in Channels, PublishNow(w, c) PROVE NotQueued(m)'
    <3>1. MessageOf(w) # m
      BY <2>2, QuietParts DEF NobodySends, QuietState, PublishNow, At, MessageOf
    <3>2. UNCHANGED ready \/ Publish({SendCommand(c, MessageOf(w))})
      BY <2>2 DEF PublishNow
    <3>3. \A d \in Channels : SendCommand(d, m) \notin {SendCommand(c, MessageOf(w))}
      BY <3>1, OtherMessage
    <3> QED BY <1>0, <2>1, <3>2, <3>3, QuietPublish, QuietParts
  <2>3. CASE IsExist(w) \/ AddRow(w) \/ ScheduleJob(w) \/ SavePending(w) \/ CatchDelete(w)
    BY <2>1, <2>3 DEF IsExist, AddRow, ScheduleJob, SavePending, CatchDelete
  <2> QED BY <2>2, <2>3 DEF HandleRequest
<1>4. JobsWait(m)'
  <2>1. ASSUME UNCHANGED job PROVE JobsWait(m)'
    BY <2>1, QuietParts DEF JobsWait
  <2>2. CASE ScheduleJob(w)
    <3>1. ASSUME NEW j \in JobIds, NEW n,
                 job' = [job EXCEPT ![j] = [msg |-> n, phase |-> "scheduled", live |-> TRUE,
                                            todo |-> Channels]]
          PROVE  JobsWait(m)'
      BY <3>1, QuietParts DEF JobsWait, TypeInv, TypeOK
    <3> QED BY <2>1, <2>2, <3>1 DEF ScheduleJob
  <2>3. CASE UNCHANGED job
    BY <2>1, <2>3
  <2> QED BY <2>2, <2>3 DEF HandleRequest, IsExist, AddRow, SavePending, PublishNow, CatchDelete
<1> QED BY <1>1, <1>2, <1>3, <1>4, QuietParts

LEMMA QuietOther ==
  ASSUME TypeInv, NEW m \in Due, Quiet(m), NEW w \in Workers,
         HandleSend(w) \/ HandleReport(w) \/ HandleDelete(w)
  PROVE  Quiet(m)'
<1>0. m \in Msg
  BY DispatchAssumption
<1>1. NobodySends(m)'
  BY OtherAdvances, QuietAdvance, QuietParts
<1>2. NotQueued(m)'
  <2>1. UNCHANGED ready
    BY DEF HandleSend, LoadForSend, CallProvider, RecordOutcome, HandleReport, LoadForReport,
           SaveReport, HandleDelete, LoadForDelete, DeleteRow, DropJob
  <2> QED BY <2>1, QuietParts DEF NotQueued
<1>3. NotSent(m)'
  <2>1. ASSUME UNCHANGED accepted PROVE NotSent(m)'
    BY <2>1, QuietParts DEF NotSent
  <2>2. ASSUME NEW c \in Channels, CallProvider(w, c) PROVE NotSent(m)'
    <3>1. MessageOf(w) # m
      BY <2>2, QuietParts DEF NobodySends, QuietState, CallProvider, At, MessageOf
    <3>2. UNCHANGED accepted \/ accepted' = [accepted EXCEPT ![MessageOf(w)][c] = @ + 1]
      BY <2>2 DEF CallProvider, MayAccept, ProviderAccepts
    <3>3. accepted'[m] = accepted[m]
      BY <1>0, <3>1, <3>2 DEF TypeInv, TypeOK
    <3> QED BY <3>3, QuietParts DEF NotSent
  <2>3. CASE HandleReport(w) \/ HandleDelete(w) \/ RecordOutcome(w)
    BY <2>1, <2>3 DEF RecordOutcome, HandleReport, LoadForReport, SaveReport,
         HandleDelete, LoadForDelete, DeleteRow, DropJob
  <2>4. ASSUME NEW c \in Channels, LoadForSend(w, c) PROVE NotSent(m)'
    BY <2>1, <2>4 DEF LoadForSend
  <2> QED BY <2>2, <2>3, <2>4 DEF HandleSend
<1>4. JobsWait(m)'
  <2>1. ASSUME UNCHANGED job PROVE JobsWait(m)'
    BY <2>1, QuietParts DEF JobsWait
  <2>2. CASE DropJob(w)
    <3> DEFINE j == worker[w].snap.jobId
    <3>1. worker[w].snap \in Row /\ Known(worker[w].snap, job)
      <4>1. worker[w] # Idle /\ worker[w].step \in HasSnap
        BY <2>2 DEF DropJob, At, HasSnap
      <4> QED BY <4>1 DEF TypeInv, Held
    <3>2. j \in JobIds \cup {NoJob} /\ (j # NoJob => job[j] # NoJob)
      BY <3>1, DispatchAssumption DEF Known, Row
    <3>3. ASSUME j # NoJob, job' = [job EXCEPT ![j].live = FALSE] PROVE JobsWait(m)'
      <4>1. j \in JobIds /\ job[j] \in Job
        BY <3>2, <3>3 DEF TypeInv, TypeOK
      <4>2. job'[j].msg = job[j].msg /\ job'[j].phase = job[j].phase
        BY <3>3, <4>1 DEF Job, TypeInv, TypeOK
      <4>3. \A k \in JobIds \ {j} : job'[k] = job[k]
        BY <3>3 DEF TypeInv, TypeOK
      <4> HIDE DEF j
      <4> QED BY <3>2, <3>3, <4>2, <4>3, QuietParts DEF JobsWait
    <3> QED BY <2>1, <2>2, <3>3 DEF DropJob
  <2>3. CASE UNCHANGED job
    BY <2>1, <2>3
  <2> QED BY <2>2, <2>3 DEF HandleSend, LoadForSend, CallProvider, RecordOutcome,
        HandleReport, LoadForReport, SaveReport, HandleDelete, LoadForDelete, DeleteRow
<1> QED BY <1>1, <1>2, <1>3, <1>4, QuietParts

\* Hangfire runs the jobs whose time has come.
LEMMA QuietJob ==
  ASSUME TypeInv, NEW m \in Due \ past, Quiet(m), NEW j \in JobIds, RunJob(j) \/ JobFails(j)
  PROVE  Quiet(m)'
<1>0. m \in Msg
  BY DispatchAssumption
<1>1. NobodySends(m)' /\ NotSent(m)'
  <2>1. UNCHANGED <<worker, accepted>>
    BY DEF RunJob, JobFails, StartJob, JobPublish, EndJob
  <2> QED BY <2>1, QuietParts DEF NobodySends, NotSent, QuietState
<1>2. job[j] \in Job
  BY DEF RunJob, JobFails, StartJob, JobPublish, EndJob, TypeInv, TypeOK
<1>3. job[j].msg # m
  <2>1. CASE StartJob(j)
    BY <2>1 DEF StartJob
  <2>2. CASE job[j].phase = "running"
    BY <1>2, <2>2, QuietParts, DispatchAssumption DEF JobsWait
  <2> QED BY <2>1, <2>2 DEF RunJob, JobFails, JobPublish, EndJob
<1>4. NotQueued(m)'
  <2>1. ASSUME UNCHANGED ready PROVE NotQueued(m)'
    BY <2>1, QuietParts DEF NotQueued
  <2>2. ASSUME NEW c \in Channels, JobPublish(j, c) PROVE NotQueued(m)'
    <3>1. Publish({SendCommand(c, job[j].msg)})
      BY <2>2 DEF JobPublish
    <3>2. \A d \in Channels : SendCommand(d, m) \notin {SendCommand(c, job[j].msg)}
      BY <1>3, OtherMessage
    <3> QED BY <1>0, <3>1, <3>2, QuietPublish, QuietParts
  <2>3. CASE StartJob(j) \/ EndJob(j) \/ JobFails(j)
    BY <2>1, <2>3 DEF JobFails, StartJob, EndJob
  <2> QED BY <2>2, <2>3 DEF RunJob
<1>5. JobsWait(m)'
  <2>1. /\ \A k \in JobIds \ {j} : job'[k] = job[k]
        /\ job'[j].msg = job[j].msg
    <3>1. job \in [JobIds -> Job \cup {NoJob}]
      BY DEF TypeInv, TypeOK
    <3>2. CASE StartJob(j)
      BY <1>2, <3>1, <3>2 DEF StartJob, Job
    <3>3. ASSUME NEW c \in Channels, JobPublish(j, c)
          PROVE  (\A k \in JobIds \ {j} : job'[k] = job[k]) /\ job'[j].msg = job[j].msg
      BY <1>2, <3>1, <3>3 DEF JobPublish, Job
    <3>4. CASE EndJob(j)
      BY <1>2, <3>1, <3>4 DEF EndJob, Job
    <3>5. CASE JobFails(j)
      BY <1>2, <3>1, <3>5 DEF JobFails, Job
    <3> QED BY <3>2, <3>3, <3>4, <3>5 DEF RunJob
  <2> QED BY <1>3, <2>1, QuietParts DEF JobsWait
<1> QED BY <1>1, <1>4, <1>5, QuietParts

\* A re-send takes messages that were tried before.
LEMMA QuietClients ==
  ASSUME TypeInv, MinRetry > 0, NEW m \in Due \ past, Quiet(m), FreshCopies(m), Clients
  PROVE  Quiet(m)'
<1>0. m \in Msg
  BY DispatchAssumption
<1>1. UNCHANGED <<row, worker, job, accepted>>
  BY DEF Clients, SubmitMessage, SubmitDelete, DueTimeComes, ReSendFailedSms, ReportDelivery
<1>2. NobodySends(m)' /\ NotSent(m)' /\ JobsWait(m)'
  BY <1>1, QuietParts DEF NobodySends, NotSent, JobsWait, QuietState
<1>3. ASSUME NEW cmds, Publish(cmds), \A c \in Channels : SendCommand(c, m) \notin cmds
      PROVE  NotQueued(m)'
  BY <1>0, <1>3, QuietPublish, QuietParts
<1>4. NotQueued(m)'
  <2>1. ASSUME NEW cmd, cmd.type \notin Channels, Publish({cmd}) PROVE NotQueued(m)'
    <3>1. \A c \in Channels : SendCommand(c, m) \notin {cmd}
      BY <2>1 DEF SendCommand
    <3> QED BY <1>3, <2>1, <3>1
  <2>2. ASSUME NEW n \in Msg, SubmitMessage(n) PROVE NotQueued(m)'
    <3>1. RequestOf(n).type \notin Channels
      BY Kinds DEF RequestOf
    <3> QED BY <2>1, <2>2, <3>1 DEF SubmitMessage
  <2>3. ASSUME NEW cmd \in Deletes, SubmitDelete(cmd) PROVE NotQueued(m)'
    <3>1. cmd.type \notin Channels
      BY Kinds
    <3> QED BY <2>1, <2>3, <3>1 DEF SubmitDelete
  <2>4. ASSUME NEW n \in Msg, DueTimeComes(n) PROVE NotQueued(m)'
    BY <2>4, QuietParts DEF DueTimeComes, NotQueued
  <2>5. ASSUME NEW chosen \in SUBSET Msg, ReSendFailedSms(chosen) PROVE NotQueued(m)'
    <3>1. m \notin PendingRetried
      BY <1>0, DispatchAssumption DEF PendingRetried, FreshCopies, Fresh
    <3>2. m \notin chosen /\ Publish({SendCommand("Sms", n) : n \in chosen})
      BY <2>5, <3>1 DEF ReSendFailedSms
    <3>3. \A c \in Channels : SendCommand(c, m) \notin {SendCommand("Sms", n) : n \in chosen}
      BY <3>2, OtherMessage
    <3> QED BY <1>3, <3>2, <3>3
  <2>6. ASSUME NEW n \in Msg, NEW id \in Ids, NEW delivered \in BOOLEAN,
               ReportDelivery(n, id, delivered)
        PROVE  NotQueued(m)'
    <3>1. [type |-> "SmsDelivery", msg |-> n, id |-> id, delivered |-> delivered].type
             \notin Channels
      BY Kinds
    <3> QED BY <2>1, <2>6, <3>1 DEF ReportDelivery
  <2> QED BY <2>2, <2>3, <2>4, <2>5, <2>6 DEF Clients
<1> QED BY <1>2, <1>4, QuietParts

LEMMA QuietBroker ==
  ASSUME TypeInv, NEW m \in Due, Quiet(m), Broker
  PROVE  Quiet(m)'
<1>0. m \in Msg
  BY DispatchAssumption
<1>1. UNCHANGED <<accepted, job>>
  BY DEF Broker, Deliver, ReadFails, Crash, Disconnect
<1>2. NotSent(m)' /\ JobsWait(m)'
  BY <1>1, QuietParts DEF NotSent, JobsWait
<1>3. ASSUME NEW w \in Workers, NEW cmd \in Command, Deliver(w, cmd)
      PROVE  NobodySends(m)' /\ NotQueued(m)'
  <2> DEFINE state == Begin(cmd, 0, TRUE)
  <2>1. cmd.type \in Channels => cmd.msg # m
    BY <1>3, Kinds, QuietParts DEF Deliver, NotQueued
  <2>2. state.cmd = cmd /\ state.step \in {"isExist", "load"}
    BY DEF Begin, FirstStep
  <2>3. QuietState(state, m)
    BY <2>1, <2>2 DEF QuietState
  <2>4. Become(w, state)
    BY <1>3 DEF Deliver
  <2>5. NobodySends(m)'
    BY <2>3, <2>4, QuietOne, QuietParts
  <2>6. NotQueued(m)'
    <3>1. ready' = [ready EXCEPT ![cmd] = @ - 1] /\ ready[cmd] > 0
      BY <1>3 DEF Deliver
    <3>2. \A c \in Channels : ready[SendCommand(c, m)] = 0 /\ SendCommand(c, m) \in Command
      BY <1>0, Kinds, QuietParts DEF NotQueued
    <3>3. \A c \in Channels : SendCommand(c, m) # cmd
      BY <3>1, <3>2
    <3>4. \A c \in Channels : ready'[SendCommand(c, m)] = ready[SendCommand(c, m)]
      BY <3>1, <3>2, <3>3 DEF TypeInv, TypeOK
    <3> QED BY <3>2, <3>4 DEF NotQueued
  <2> QED BY <2>5, <2>6
<1>4. ASSUME NEW w \in Workers, worker[w] # Idle PROVE
        \A c \in Channels : SendCommand(c, m) # worker[w].cmd
  <2>1. QuietState(worker[w], m)
    BY QuietParts DEF NobodySends
  <2> QED BY <1>4, <2>1 DEF QuietState, SendCommand
<1>5. ASSUME NEW w \in Workers, ReadFails(w) \/ Crash(w)
      PROVE  NobodySends(m)' /\ NotQueued(m)'
  <2>1. worker[w] # Idle /\ (Throw(w) \/ Ack(w))
    BY <1>5 DEF ReadFails, Crash, At
  <2>2. NobodySends(m)'
    BY <2>1, QuietAdvance, QuietParts DEF Advances
  <2>3. UNCHANGED ready \/ Publish({worker[w].cmd}) \/ Publish({})
    BY <1>5 DEF ReadFails, Crash
  <2>4. ASSUME UNCHANGED ready PROVE NotQueued(m)'
    BY <2>4, QuietParts DEF NotQueued
  <2>5. ASSUME Publish({worker[w].cmd}) PROVE NotQueued(m)'
    BY <1>0, <1>4, <2>1, <2>5, QuietPublish, QuietParts
  <2>6. ASSUME Publish({}) PROVE NotQueued(m)'
    BY <1>0, <2>6, QuietPublish, QuietParts
  <2> QED BY <2>2, <2>3, <2>4, <2>5, <2>6
<1>6. ASSUME NEW w \in Workers, Disconnect(w) PROVE NobodySends(m)' /\ NotQueued(m)'
  <2>1. PICK state : Become(w, state) /\ state.cmd = worker[w].cmd /\ state.step = worker[w].step
    BY <1>6, DisconnectSteps
  <2>2. worker[w] # Idle /\ QuietState(worker[w], m)
    BY <1>6, QuietParts DEF Disconnect, NobodySends
  <2>3. QuietState(state, m)
    BY <2>1, <2>2 DEF QuietState
  <2>4. NobodySends(m)'
    BY <2>1, <2>3, QuietOne, QuietParts
  <2>5. Publish({worker[w].cmd})
    BY <1>6 DEF Disconnect
  <2> QED BY <1>0, <1>4, <2>2, <2>4, <2>5, QuietPublish, QuietParts
<1> QED BY <1>2, <1>3, <1>5, <1>6, QuietParts DEF Broker

\* Copies stay fresh: only a consumer that has tried to send counts a retry.
LEMMA FreshValues ==
  /\ Fresh(NewRow) /\ Fresh(EnqueuedRow(NewRow, NoJob))
  /\ \A r \in Row, j \in JobIds : Fresh(r) => Fresh(EnqueuedRow(r, j))
  /\ \A r \in Row, delivered \in BOOLEAN : 
        Fresh(r) /\ "Sms" \in Channels => 
          Fresh([r EXCEPT !.part["Sms"] = Report(r.part["Sms"], delivered)])
<1>1. Fresh(NewRow) /\ Fresh(EnqueuedRow(NewRow, NoJob))
  BY DEF Fresh, NewRow, NewPart, EnqueuedRow, Enqueued
<1>2. ASSUME NEW r \in Row, NEW j \in JobIds, Fresh(r) PROVE Fresh(EnqueuedRow(r, j))
  <2>1. \A c \in Channels : EnqueuedRow(r, j).part[c].retry = r.part[c].retry
    BY DEF EnqueuedRow, Enqueued, Row, Part
  <2> QED BY <1>2, <2>1 DEF Fresh
<1>3. ASSUME NEW r \in Row, NEW delivered \in BOOLEAN, Fresh(r), "Sms" \in Channels
      PROVE  Fresh([r EXCEPT !.part["Sms"] = Report(r.part["Sms"], delivered)])
  <2>1. Report(r.part["Sms"], delivered).retry = r.part["Sms"].retry
    BY <1>3 DEF Report, Row, Part
  <2>2. \A c \in Channels : 
          [r EXCEPT !.part["Sms"] = Report(r.part["Sms"], delivered)].part[c] =
             IF c = "Sms" THEN Report(r.part["Sms"], delivered) ELSE r.part[c]
    BY DEF Row
  <2> QED BY <1>3, <2>1, <2>2 DEF Fresh
<1> QED BY <1>1, <1>2, <1>3

LEMMA FreshNext ==
  ASSUME TypeInv, TypeOK', Froms, NEW m \in Msg, Quiet(m), FreshCopies(m)
  PROVE  FreshCopies(m)'
<1>1. row'[m] # NoRow => Fresh(row'[m])
  <2>1. CASE row'[m] \in {row[m], NewRow}
    BY <2>1, FreshValues DEF FreshCopies
  <2>2. CASE \E w \in Workers : /\ worker[w] # Idle /\ MessageOf(w) = m
                                /\ worker[w].snap \in Row /\ row'[m] = worker[w].snap
    BY <2>2, DispatchAssumption DEF FreshCopies
  <2> QED BY <2>1, <2>2 DEF Froms, RowsFrom
<1>2. ASSUME NEW w \in Workers, worker'[w] # Idle, worker'[w].cmd.msg = m,
             worker'[w].snap # NoRow
      PROVE  Fresh(worker'[w].snap)
  <2> DEFINE before == worker[w].snap
             after == worker'[w].snap
  <2>1. SnapFrom(w)
    BY <1>2 DEF Froms, SnapsFrom
  <2>2. worker[w] # Idle /\ worker'[w].cmd = worker[w].cmd /\ MessageOf(w) = m
    BY <1>2, <2>1 DEF SnapFrom, MessageOf
  <2>3. before # NoRow => Fresh(before)
    BY <2>2 DEF FreshCopies
  <2>4. row[m] # NoRow => Fresh(row[m])
    BY DEF FreshCopies
  <2>5. worker[w].cmd.type \notin Channels
    BY <2>2, QuietParts DEF NobodySends, QuietState, MessageOf
  <2>6. CASE after \in {before, row[m], NewRow, EnqueuedRow(NewRow, NoJob)}
    BY <1>2, <2>3, <2>4, <2>6, FreshValues
  <2>7. ASSUME before \in Row, NEW j \in JobIds, after = EnqueuedRow(before, j)
        PROVE  Fresh(after)
    BY <2>3, <2>7, FreshValues, DispatchAssumption
  <2>8. ASSUME row[m] \in Row, "Sms" \in Channels, NEW delivered \in BOOLEAN,
               after = [row[m] EXCEPT !.part["Sms"] = Report(row[m].part["Sms"], delivered)]
        PROVE  Fresh(after)
    BY <2>4, <2>8, FreshValues, DispatchAssumption
  <2> QED BY <1>2, <2>1, <2>2, <2>5, <2>6, <2>7, <2>8 DEF SnapFrom
<1> QED BY <1>1, <1>2 DEF FreshCopies, MessageOf

LEMMA NextEarly ==
  ASSUME MinRetry > 0, TypeInv, EarlyInv, [Next]_vars
  PROVE  EarlyInv'
<1>1. Froms /\ TypeOK'
  BY NextFroms, NextTypeInv DEF TypeInv
<1>2. past \subseteq past'
  <2>1. CASE Clients
    BY <2>1 DEF Clients, SubmitMessage, SubmitDelete, DueTimeComes, ReSendFailedSms, ReportDelivery
  <2>2. CASE Broker
    BY <2>2 DEF Broker, Deliver, ReadFails, Crash, Disconnect
  <2>3. ASSUME NEW w \in Workers, Consume(w) PROVE UNCHANGED past
    BY <2>3 DEF Consume, HandleRequest, IsExist, AddRow, ScheduleJob, SavePending, PublishNow,
         CatchDelete, HandleSend, LoadForSend, CallProvider, RecordOutcome, HandleReport,
         LoadForReport, SaveReport, HandleDelete, LoadForDelete, DeleteRow, DropJob
  <2>4. ASSUME NEW j \in JobIds, RunJob(j) \/ JobFails(j) PROVE UNCHANGED past
    BY <2>4 DEF RunJob, StartJob, JobPublish, EndJob, JobFails
  <2>5. ASSUME NEW m \in Msg, DeleteByTag(m) PROVE UNCHANGED past
    BY <2>5 DEF DeleteByTag
  <2> QED BY <2>1, <2>2, <2>3, <2>4, <2>5 DEF Next, vars
<1>3. ASSUME NEW m \in Due \ past PROVE Quiet(m)' /\ FreshCopies(m)'
  <2>1. m \in Msg /\ m \in Due /\ Quiet(m) /\ FreshCopies(m)
    BY DispatchAssumption DEF EarlyInv
  <2>2. FreshCopies(m)'
    BY <1>1, <2>1, FreshNext
  <2> SUFFICES Quiet(m)'
    BY <2>2
  <2>3. CASE Clients
    BY <2>1, <2>3, QuietClients
  <2>4. CASE Broker
    BY <2>1, <2>4, QuietBroker
  <2>5. ASSUME NEW w \in Workers, Consume(w) PROVE Quiet(m)'
    BY <2>1, <2>5, QuietRequest, QuietOther DEF Consume
  <2>6. ASSUME NEW j \in JobIds, RunJob(j) \/ JobFails(j) PROVE Quiet(m)'
    BY <2>1, <2>6, QuietJob
  <2>7. CASE UNCHANGED vars
    BY <2>1, <2>7 DEF vars, Quiet, QuietState
  <2>8. ASSUME NEW n \in Msg, DeleteByTag(n) PROVE Quiet(m)'
    BY <2>1, <2>8 DEF DeleteByTag, Quiet, QuietState
  <2> QED BY <2>2, <2>3, <2>4, <2>5, <2>6, <2>7, <2>8 DEF Next
<1> QED BY <1>2, <1>3 DEF EarlyInv

LEMMA InitEarly == Init => EarlyInv
<1> SUFFICES ASSUME Init PROVE EarlyInv
  OBVIOUS
<1>1. \A m \in Msg, c \in Channels : accepted[m][c] = 0 /\ ready[SendCommand(c, m)] = 0
  BY Kinds DEF Init
<1>2. \A m \in Msg : row[m] = NoRow
  BY DEF Init
<1>3. (\A w \in Workers : worker[w] = Idle) /\ (\A j \in JobIds : job[j] = NoJob)
  BY DEF Init
<1> QED BY <1>1, <1>2, <1>3, DispatchAssumption DEF EarlyInv, Quiet, QuietState, FreshCopies

\* For every number of messages, channels, consumers, jobs and faults, and whatever
\* copies are written: nothing of a message with a DueTime is sent before it, if a
\* re-send asks for messages that were tried.
THEOREM DispatchNotEarly == ASSUME MinRetry > 0 PROVE Spec => []NoEarlySend
<1>1. Init => EarlyInv
  BY InitEarly
<1>2. TypeInv /\ EarlyInv /\ [Next]_vars => EarlyInv'
  BY NextEarly
<1>3. EarlyInv => NoEarlySend
  BY DEF EarlyInv, Quiet, NoEarlySend
<1> QED BY <1>1, <1>2, <1>3, InitTypeInv, NextTypeInv, PTL DEF Spec

-----------------------------------------------------------------------------
(* A deleted message stays deleted                                         *)

\* A consumer that does nothing for m but read.
Harmless(state, m) ==
  state # Idle /\ state.cmd.msg = m => state.cmd # RequestOf(m) /\ state.step # "send"

NobodyAdds(m) == \A w \in Workers : Harmless(worker[w], m)
NotAsked(m) == ready[RequestOf(m)] = 0
NoneLeft(m) == row[m] = NoRow

LEMMA GoneParts ==
  ASSUME NEW m
  PROVE  /\ Gone(m) <=> NoneLeft(m) /\ NotAsked(m) /\ NotSent(m) /\ NobodyAdds(m)
         /\ Gone(m)' <=> NoneLeft(m)' /\ NotAsked(m)' /\ NotSent(m)' /\ NobodyAdds(m)'
BY DEF Gone, NoneLeft, NotAsked, NotSent, NobodyAdds, Harmless, MessageOf

LEMMA HarmlessOne ==
  ASSUME TypeInv, NEW m, NobodyAdds(m), NEW w \in Workers, NEW state,
         Become(w, state), Harmless(state, m)
  PROVE  NobodyAdds(m)'
<1>1. worker'[w] = state /\ \A v \in Workers \ {w} : worker'[v] = worker[v]
  BY DEF Become, TypeInv, TypeOK
<1> QED BY <1>1 DEF NobodyAdds, Harmless

LEMMA HarmlessAdvance ==
  ASSUME TypeInv, NEW m \in Msg, NobodyAdds(m), NoneLeft(m), NEW w \in Workers,
         worker[w] # Idle, Advances(w)
  PROVE  NobodyAdds(m)'
<1>1. Harmless(worker[w], m)
  BY DEF NobodyAdds
<1>2. CASE Throw(w) \/ Ack(w)
  <2>1. PICK state : /\ Become(w, state)
                     /\ state # Idle => /\ state.step \in {"isExist", "load"}
                                        /\ state.cmd = worker[w].cmd
    BY <1>2, ThrowBegins
  <2>2. Harmless(state, m)
    BY <1>1, <2>1 DEF Harmless
  <2> QED BY <2>1, <2>2, HarmlessOne
<1>3. ASSUME NEW state, GoesOn(w, state) PROVE NobodyAdds(m)'
  <2>1. Harmless(state, m)
    BY <1>1, <1>3 DEF Harmless, GoesOn, MessageOf, NoneLeft
  <2> QED BY <1>3, <2>1, HarmlessOne DEF GoesOn
<1> QED BY <1>2, <1>3 DEF Advances

LEMMA NotAskedPublish ==
  ASSUME NEW m \in Msg, NotAsked(m), NEW cmds, RequestOf(m) \notin cmds, Publish(cmds)
  PROVE  NotAsked(m)'
<1>1. ready'[RequestOf(m)] = ready[RequestOf(m)] + 0
  BY Kinds DEF Publish
<1> QED BY <1>1 DEF NotAsked

\* Commands of the other kinds, or for other messages, are not a request for m.
LEMMA NotTheRequest ==
  ASSUME NEW m \in Msg, NEW cmd, cmd.type # "SendMessage" \/ cmd.msg # m
  PROVE  RequestOf(m) # cmd
BY DEF RequestOf

\* Only a consumer at a step of a request adds a row, or writes one of its own.
LEMMA GoneRequest ==
  ASSUME TypeInv, StepsInv, NEW m \in Msg, Gone(m), NEW w \in Workers, HandleRequest(w)
  PROVE  Gone(m)'
<1>1. NobodyAdds(m)'
  BY RequestAdvances, HarmlessAdvance, GoneParts
<1>2. NotSent(m)'
  <2>1. UNCHANGED accepted
    BY DEF HandleRequest, IsExist, AddRow, ScheduleJob, SavePending, PublishNow, CatchDelete
  <2> QED BY <2>1, GoneParts DEF NotSent
<1>3. worker[w] # Idle /\ worker[w].step \in RequestSteps
  BY DEF HandleRequest, IsExist, AddRow, ScheduleJob, SavePending, PublishNow, CatchDelete,
         At, RequestSteps
<1>4. MessageOf(w) # m
  BY <1>3, GoneParts DEF StepsInv, InPlace, NobodyAdds, Harmless, MessageOf
<1>5. NoneLeft(m)'
  <2>1. UNCHANGED row \/ \E r : row' = [row EXCEPT ![MessageOf(w)] = r]
    BY DEF HandleRequest, IsExist, AddRow, ScheduleJob, SavePending, PublishNow, CatchDelete,
           RowDeleted
  <2> QED BY <1>4, <2>1, GoneParts DEF NoneLeft, TypeInv, TypeOK
<1>6. NotAsked(m)'
  <2>1. ASSUME UNCHANGED ready PROVE NotAsked(m)'
    BY <2>1, GoneParts DEF NotAsked
  <2>2. ASSUME NEW c \in Channels, PublishNow(w, c) PROVE NotAsked(m)'
    <3>1. UNCHANGED ready \/ Publish({SendCommand(c, MessageOf(w))})
      BY <2>2 DEF PublishNow
    <3>2. RequestOf(m) \notin {SendCommand(c, MessageOf(w))}
      BY <1>4 DEF RequestOf, SendCommand
    <3> QED BY <2>1, <3>1, <3>2, NotAskedPublish, GoneParts
  <2>3. CASE IsExist(w) \/ AddRow(w) \/ ScheduleJob(w) \/ SavePending(w) \/ CatchDelete(w)
    BY <2>1, <2>3 DEF IsExist, AddRow, ScheduleJob, SavePending, CatchDelete
  <2> QED BY <2>2, <2>3 DEF HandleRequest
<1> QED BY <1>1, <1>2, <1>5, <1>6, GoneParts

\* The other consumers write only rows that they find.
LEMMA GoneOther ==
  ASSUME TypeInv, NEW m \in Msg, Gone(m), NEW w \in Workers,
         HandleSend(w) \/ HandleReport(w) \/ HandleDelete(w)
  PROVE  Gone(m)'
<1>1. NobodyAdds(m)'
  BY OtherAdvances, HarmlessAdvance, GoneParts
<1>2. NotAsked(m)'
  <2>1. UNCHANGED ready
    BY DEF HandleSend, LoadForSend, CallProvider, RecordOutcome, HandleReport, LoadForReport,
           SaveReport, HandleDelete, LoadForDelete, DeleteRow, DropJob
  <2> QED BY <2>1, GoneParts DEF NotAsked
<1>3. NoneLeft(m)'
  <2>1. \/ UNCHANGED row
        \/ \E r : row[MessageOf(w)] # NoRow /\ row' = [row EXCEPT ![MessageOf(w)] = r]
    BY DEF HandleSend, LoadForSend, CallProvider, RecordOutcome, HandleReport, LoadForReport,
           SaveReport, HandleDelete, LoadForDelete, DeleteRow, DropJob, RowDeleted
  <2> QED BY <2>1, GoneParts DEF NoneLeft, TypeInv, TypeOK
<1>4. NotSent(m)'
  <2>1. ASSUME UNCHANGED accepted PROVE NotSent(m)'
    BY <2>1, GoneParts DEF NotSent
  <2>2. ASSUME NEW c \in Channels, CallProvider(w, c) PROVE NotSent(m)'
    <3>1. MessageOf(w) # m
      BY <2>2, GoneParts DEF NobodyAdds, Harmless, CallProvider, At, MessageOf
    <3>2. UNCHANGED accepted \/ accepted' = [accepted EXCEPT ![MessageOf(w)][c] = @ + 1]
      BY <2>2 DEF CallProvider, MayAccept, ProviderAccepts
    <3>3. accepted'[m] = accepted[m]
      BY <3>1, <3>2 DEF TypeInv, TypeOK
    <3> QED BY <3>3, GoneParts DEF NotSent
  <2>3. CASE HandleReport(w) \/ HandleDelete(w) \/ RecordOutcome(w)
    BY <2>1, <2>3 DEF RecordOutcome, HandleReport, LoadForReport, SaveReport,
         HandleDelete, LoadForDelete, DeleteRow, DropJob
  <2>4. ASSUME NEW c \in Channels, LoadForSend(w, c) PROVE NotSent(m)'
    BY <2>1, <2>4 DEF LoadForSend
  <2> QED BY <2>2, <2>3, <2>4 DEF HandleSend
<1> QED BY <1>1, <1>2, <1>3, <1>4, GoneParts

\* A job publishes commands to send, and they find no row.
LEMMA GoneJob ==
  ASSUME TypeInv, NEW m \in Msg, Gone(m), NEW j \in JobIds, RunJob(j) \/ JobFails(j)
  PROVE  Gone(m)'
<1>1. UNCHANGED <<row, worker, accepted>>
  BY DEF RunJob, JobFails, StartJob, JobPublish, EndJob
<1>2. NobodyAdds(m)' /\ NotSent(m)' /\ NoneLeft(m)'
  BY <1>1, GoneParts DEF NobodyAdds, NotSent, NoneLeft, Harmless
<1>3. NotAsked(m)'
  <2>1. ASSUME UNCHANGED ready PROVE NotAsked(m)'
    BY <2>1, GoneParts DEF NotAsked
  <2>2. ASSUME NEW c \in Channels, JobPublish(j, c) PROVE NotAsked(m)'
    <3>1. Publish({SendCommand(c, job[j].msg)})
      BY <2>2 DEF JobPublish
    <3>2. RequestOf(m) \notin {SendCommand(c, job[j].msg)}
      BY Kinds DEF RequestOf, SendCommand
    <3> QED BY <3>1, <3>2, NotAskedPublish, GoneParts
  <2>3. CASE StartJob(j) \/ EndJob(j) \/ JobFails(j)
    BY <2>1, <2>3 DEF JobFails, StartJob, EndJob
  <2> QED BY <2>2, <2>3 DEF RunJob
<1> QED BY <1>2, <1>3, GoneParts

\* Of the clients only a new request for m brings it back, and clears the note.
LEMMA GoneClients ==
  ASSUME TypeInv, NEW m \in Msg, Gone(m), Clients, withdrawn'[m] = "late"
  PROVE  Gone(m)'
<1>1. UNCHANGED <<row, worker, accepted>>
  BY DEF Clients, SubmitMessage, SubmitDelete, DueTimeComes, ReSendFailedSms, ReportDelivery
<1>2. NobodyAdds(m)' /\ NotSent(m)' /\ NoneLeft(m)'
  BY <1>1, GoneParts DEF NobodyAdds, NotSent, NoneLeft, Harmless
<1>3. NotAsked(m)'
  <2>1. ASSUME NEW cmd, cmd.type # "SendMessage" \/ cmd.msg # m, Publish({cmd})
        PROVE  NotAsked(m)'
    <3>1. RequestOf(m) \notin {cmd}
      BY <2>1, NotTheRequest
    <3> QED BY <2>1, <3>1, NotAskedPublish, GoneParts
  <2>2. ASSUME NEW n \in Msg, SubmitMessage(n) PROVE NotAsked(m)'
    <3>1. n # m
      BY <2>2 DEF SubmitMessage, TypeInv, TypeOK
    <3>2. RequestOf(n).msg # m
      BY <3>1 DEF RequestOf
    <3> QED BY <2>1, <2>2, <3>2 DEF SubmitMessage
  <2>3. ASSUME NEW cmd \in Deletes, SubmitDelete(cmd) PROVE NotAsked(m)'
    <3>1. cmd.type # "SendMessage"
      BY Kinds
    <3> QED BY <2>1, <2>3, <3>1 DEF SubmitDelete
  <2>4. ASSUME NEW n \in Msg, DueTimeComes(n) PROVE NotAsked(m)'
    BY <2>4, GoneParts DEF DueTimeComes, NotAsked
  <2>5. ASSUME NEW chosen \in SUBSET Msg, ReSendFailedSms(chosen) PROVE NotAsked(m)'
    <3>1. Publish({SendCommand("Sms", n) : n \in chosen})
      BY <2>5 DEF ReSendFailedSms
    <3>2. RequestOf(m) \notin {SendCommand("Sms", n) : n \in chosen}
      BY DEF RequestOf, SendCommand
    <3> QED BY <3>1, <3>2, NotAskedPublish, GoneParts
  <2>6. ASSUME NEW n \in Msg, NEW id \in Ids, NEW delivered \in BOOLEAN,
               ReportDelivery(n, id, delivered)
        PROVE  NotAsked(m)'
    <3>1. [type |-> "SmsDelivery", msg |-> n, id |-> id, delivered |-> delivered].type
             # "SendMessage"
      OBVIOUS
    <3> QED BY <2>1, <2>6, <3>1 DEF ReportDelivery
  <2> QED BY <2>2, <2>3, <2>4, <2>5, <2>6 DEF Clients
<1> QED BY <1>2, <1>3, GoneParts

LEMMA GoneBroker ==
  ASSUME TypeInv, NEW m \in Msg, Gone(m), Broker
  PROVE  Gone(m)'
<1>1. UNCHANGED <<accepted, row>>
  BY DEF Broker, Deliver, ReadFails, Crash, Disconnect
<1>2. NotSent(m)' /\ NoneLeft(m)'
  BY <1>1, GoneParts DEF NotSent, NoneLeft
<1>3. ASSUME NEW w \in Workers, NEW cmd \in Command, Deliver(w, cmd)
      PROVE  NobodyAdds(m)' /\ NotAsked(m)'
  <2> DEFINE state == Begin(cmd, 0, TRUE)
  <2>1. cmd # RequestOf(m)
    BY <1>3, GoneParts DEF Deliver, NotAsked
  <2>2. state.cmd = cmd /\ state.step \in {"isExist", "load"}
    BY DEF Begin, FirstStep
  <2>3. Harmless(state, m)
    BY <2>1, <2>2 DEF Harmless
  <2>4. Become(w, state)
    BY <1>3 DEF Deliver
  <2>5. NobodyAdds(m)'
    BY <2>3, <2>4, HarmlessOne, GoneParts
  <2>6. NotAsked(m)'
    BY <1>3, <2>1, Kinds, GoneParts DEF Deliver, NotAsked, TypeInv, TypeOK
  <2> QED BY <2>5, <2>6
<1>4. ASSUME NEW w \in Workers, worker[w] # Idle PROVE RequestOf(m) # worker[w].cmd
  <2>1. Harmless(worker[w], m)
    BY GoneParts DEF NobodyAdds
  <2> QED BY <1>4, <2>1 DEF Harmless, RequestOf
<1>5. ASSUME NEW w \in Workers, ReadFails(w) \/ Crash(w)
      PROVE  NobodyAdds(m)' /\ NotAsked(m)'
  <2>1. worker[w] # Idle /\ (Throw(w) \/ Ack(w))
    BY <1>5 DEF ReadFails, Crash, At
  <2>2. NobodyAdds(m)'
    BY <2>1, HarmlessAdvance, GoneParts DEF Advances
  <2>3. UNCHANGED ready \/ Publish({worker[w].cmd}) \/ Publish({})
    BY <1>5 DEF ReadFails, Crash
  <2>4. ASSUME UNCHANGED ready PROVE NotAsked(m)'
    BY <2>4, GoneParts DEF NotAsked
  <2>5. ASSUME Publish({worker[w].cmd}) PROVE NotAsked(m)'
    BY <1>4, <2>1, <2>5, NotAskedPublish, GoneParts
  <2>6. ASSUME Publish({}) PROVE NotAsked(m)'
    BY <2>6, NotAskedPublish, GoneParts
  <2> QED BY <2>2, <2>3, <2>4, <2>5, <2>6
<1>6. ASSUME NEW w \in Workers, Disconnect(w) PROVE NobodyAdds(m)' /\ NotAsked(m)'
  <2>1. PICK state : Become(w, state) /\ state.cmd = worker[w].cmd /\ state.step = worker[w].step
    BY <1>6, DisconnectSteps
  <2>2. worker[w] # Idle /\ Harmless(worker[w], m)
    BY <1>6, GoneParts DEF Disconnect, NobodyAdds
  <2>3. Harmless(state, m)
    BY <2>1, <2>2 DEF Harmless
  <2>4. NobodyAdds(m)'
    BY <2>1, <2>3, HarmlessOne, GoneParts
  <2>5. Publish({worker[w].cmd})
    BY <1>6 DEF Disconnect
  <2> QED BY <1>4, <2>2, <2>4, <2>5, NotAskedPublish, GoneParts
<1> QED BY <1>2, <1>3, <1>5, <1>6, GoneParts DEF Broker

\* A delete in time, when no copy of the request is left, leaves nothing.
LEMMA DeletedIsGone ==
  ASSUME TypeInv, StepsInv, EarlyInv, NEW m \in Due \ past, ~RequestPending(m),
         row' = [row EXCEPT ![m] = NoRow], UNCHANGED <<ready, accepted>>
  PROVE  NoneLeft(m)' /\ NotAsked(m)' /\ NotSent(m)' /\ NobodyAdds(m)
<1>0. m \in Msg
  BY DispatchAssumption
<1>1. Quiet(m)
  BY DEF EarlyInv
<1>2. NotSent(m)'
  BY <1>1 DEF Quiet, NotSent
<1>3. NoneLeft(m)'
  BY <1>0 DEF NoneLeft, TypeInv, TypeOK
<1>4. NotAsked(m)'
  <2>1. ready[RequestOf(m)] \in Nat
    BY <1>0, Kinds DEF TypeInv, TypeOK
  <2> QED BY <2>1 DEF RequestPending, NotAsked
<1>5. NobodyAdds(m)
  <2> SUFFICES ASSUME NEW v \in Workers, worker[v] # Idle, worker[v].cmd.msg = m
               PROVE  worker[v].cmd # RequestOf(m) /\ worker[v].step # "send"
    BY DEF NobodyAdds, Harmless
  <2>1. worker[v].cmd # RequestOf(m)
    BY DEF RequestPending
  <2>2. worker[v].step # "send"
    BY <1>1 DEF Quiet, QuietState, StepsInv, InPlace
  <2> QED BY <2>1, <2>2
<1> QED BY <1>2, <1>3, <1>4, <1>5

LEMMA BecomesGone ==
  ASSUME TypeInv, StepsInv, EarlyInv, NEW m \in Msg, NEW w \in Workers, DeleteRow(w),
         withdrawn[m] # "late", withdrawn'[m] = "late"
  PROVE  Gone(m)'
<1>1. /\ At(w, "delete") /\ MessageOf(w) = m /\ m \notin past /\ ~RequestPending(m)
      /\ row' = [row EXCEPT ![m] = NoRow] /\ (Ack(w) \/ GoTo(w, "dropJob"))
      /\ UNCHANGED <<ready, accepted>>
  BY DEF DeleteRow, RowDeleted, Withdrawn, TypeInv, TypeOK
<1>2. m \in Due \ past
  BY <1>1 DEF StepsInv, InPlace, DeleteSteps, At, MessageOf
<1>3. NoneLeft(m)' /\ NotAsked(m)' /\ NotSent(m)' /\ NobodyAdds(m)
  BY <1>1, <1>2, DeletedIsGone
<1>4. NobodyAdds(m)'
  <2>1. worker[w] # Idle /\ worker[w] \in Busy
    BY <1>1, BusyFacts DEF At, TypeInv
  <2>2. CASE GoTo(w, "dropJob")
    <3> DEFINE state == [worker[w] EXCEPT !.step = "dropJob"]
    <3>1. state.cmd = worker[w].cmd /\ state.step = "dropJob"
      BY <2>1, Moved
    <3>2. Become(w, state)
      BY <2>2 DEF GoTo
    <3>3. Harmless(state, m)
      BY <1>3, <2>1, <3>1 DEF NobodyAdds, Harmless
    <3> QED BY <1>3, <3>2, <3>3, HarmlessOne
  <2>3. CASE Ack(w)
    <3>1. Harmless(Idle, m)
      BY DEF Harmless
    <3> QED BY <1>3, <2>3, <3>1, HarmlessOne DEF Ack
  <2> QED BY <1>1, <2>2, <2>3
<1> QED BY <1>3, <1>4, GoneParts

LEMMA ByTagBecomesGone ==
  ASSUME TypeInv, StepsInv, EarlyInv, NEW m \in Msg, NEW n \in Msg, DeleteByTag(n),
         withdrawn[m] # "late", withdrawn'[m] = "late"
  PROVE  Gone(m)'
<1>1. /\ n = m /\ m \in Due \ past /\ ~RequestPending(m)
      /\ row' = [row EXCEPT ![m] = NoRow] /\ UNCHANGED <<ready, accepted, worker>>
  BY DEF DeleteByTag, RowDeleted, Withdrawn, TypeInv, TypeOK
<1>2. NoneLeft(m)' /\ NotAsked(m)' /\ NotSent(m)' /\ NobodyAdds(m)
  BY <1>1, DeletedIsGone
<1>3. NobodyAdds(m)'
  BY <1>1, <1>2 DEF NobodyAdds, Harmless
<1> QED BY <1>2, <1>3, GoneParts

LEMMA NextLate ==
  ASSUME TypeInv, StepsInv, EarlyInv, LateInv, [Next]_vars
  PROVE  LateInv'
<1> SUFFICES ASSUME NEW m \in Msg, withdrawn'[m] = "late" PROVE Gone(m)'
  BY DEF LateInv
<1>1. CASE withdrawn[m] # "late"
  <2>1. (\E w \in Workers : DeleteRow(w)) \/ (\E n \in Msg : DeleteByTag(n))
    <3>1. withdrawn' # withdrawn
      BY <1>1
    <3>2. ASSUME NEW n \in Msg, SubmitMessage(n) PROVE FALSE
      BY <1>1, <3>2 DEF SubmitMessage, TypeInv, TypeOK
    <3>3. ~Broker /\ ~(\E n \in Msg : DueTimeComes(n))
      BY <3>1 DEF Broker, Deliver, ReadFails, Crash, Disconnect, DueTimeComes
    <3>4. ~Clients
      BY <3>1, <3>2, <3>3 DEF Clients, SubmitDelete, ReSendFailedSms, ReportDelivery
    <3>5. ASSUME NEW j \in JobIds, RunJob(j) \/ JobFails(j) PROVE FALSE
      BY <3>1, <3>5 DEF RunJob, StartJob, JobPublish, EndJob, JobFails
    <3>6. ASSUME NEW w \in Workers, Consume(w) PROVE DeleteRow(w)
      BY <3>1, <3>6 DEF Consume, HandleRequest, IsExist, AddRow, ScheduleJob, SavePending,
           PublishNow, CatchDelete, HandleSend, LoadForSend, CallProvider, RecordOutcome,
           HandleReport, LoadForReport, SaveReport, HandleDelete, LoadForDelete, DropJob
    <3> QED BY <3>1, <3>3, <3>4, <3>5, <3>6 DEF Next, vars
  <2> QED BY <1>1, <2>1, BecomesGone, ByTagBecomesGone
<1>2. CASE withdrawn[m] = "late"
  <2>1. Gone(m)
    BY <1>2 DEF LateInv
  <2>2. CASE Clients
    BY <2>1, <2>2, GoneClients
  <2>3. CASE Broker
    BY <2>1, <2>3, GoneBroker
  <2>4. ASSUME NEW w \in Workers, Consume(w) PROVE Gone(m)'
    BY <2>1, <2>4, GoneRequest, GoneOther DEF Consume
  <2>5. ASSUME NEW j \in JobIds, RunJob(j) \/ JobFails(j) PROVE Gone(m)'
    BY <2>1, <2>5, GoneJob
  <2>6. CASE UNCHANGED vars
    BY <2>1, <2>6 DEF vars, Gone, MessageOf
  <2>7. ASSUME NEW n \in Msg, DeleteByTag(n) PROVE Gone(m)'
    <3>1. row'[m] = NoRow /\ UNCHANGED <<ready, accepted, worker>>
      BY <2>1, <2>7 DEF DeleteByTag, RowDeleted, Gone, TypeInv, TypeOK
    <3> QED BY <2>1, <3>1 DEF Gone, MessageOf
  <2> QED BY <2>2, <2>3, <2>4, <2>5, <2>6, <2>7 DEF Next
<1> QED BY <1>1, <1>2

\* A message deleted before its DueTime, when its request had been handled, is
\* never sent, whatever job, re-send or redelivered command comes later.
THEOREM DispatchLateDelete == ASSUME MinRetry > 0 PROVE Spec => []LateDeleteNeverSent
<1>1. Init => StepsInv /\ LateInv
  BY DEF Init, StepsInv, InPlace, LateInv
<1>2. Init => EarlyInv
  BY InitEarly
<1>3. TypeInv /\ StepsInv /\ EarlyInv /\ LateInv /\ [Next]_vars
        => StepsInv' /\ EarlyInv' /\ LateInv'
  BY NextSteps, NextEarly, NextLate
<1>4. LateInv => LateDeleteNeverSent
  BY DEF LateInv, Gone, LateDeleteNeverSent
<1> QED BY <1>1, <1>2, <1>3, <1>4, InitTypeInv, NextTypeInv, PTL DEF Spec

-----------------------------------------------------------------------------
(* The shapes of the steps                                                 *)

\* A consumer goes from state o to another step of its command, or it is done
\* or starts again.
Goes(o, s, step) == s # Idle /\ s.cmd = o.cmd /\ s.step = step

Restarts(o, s) ==
  s # Idle => s.cmd = o.cmd /\ s.snap = NoRow /\ s.step = FirstStep(o.cmd)

Recorded(o, s, c, part, failed) ==
  /\ Goes(o, s, "record") /\ s.failed = failed
  /\ s.snap = [o.snap EXCEPT !.part[c] = part]

LEMMA StepIsBusy == ASSUME NEW s, s.step # "idle" PROVE s # Idle
BY DEF Idle

\* What EXCEPT keeps and changes of a busy consumer.
LEMMA StepChanged ==
  ASSUME NEW o \in Busy, NEW step, step # "idle"
  PROVE  /\ Goes(o, [o EXCEPT !.step = step], step)
         /\ [o EXCEPT !.step = step].snap = o.snap
BY StepIsBusy DEF Busy, Goes

WithSnap(o, step, snap) == [o EXCEPT !.step = step, !.snap = snap]

LEMMA SnapChanged ==
  ASSUME NEW o \in Busy, NEW step, NEW snap, step # "idle"
  PROVE  Goes(o, WithSnap(o, step, snap), step) /\ WithSnap(o, step, snap).snap = snap
BY StepIsBusy DEF Busy, Goes, WithSnap

WithTodo(o, step, todo) == [o EXCEPT !.step = step, !.todo = todo]

LEMMA TodoChanged ==
  ASSUME NEW o \in Busy, NEW step, NEW todo, step # "idle"
  PROVE  /\ Goes(o, WithTodo(o, step, todo), step)
         /\ WithTodo(o, step, todo).todo = todo /\ WithTodo(o, step, todo).snap = o.snap
BY StepIsBusy DEF Busy, Goes, WithTodo

LEMMA OnlyTodoChanged ==
  ASSUME NEW o \in Busy, NEW todo
  PROVE  /\ Goes(o, [o EXCEPT !.todo = todo], o.step)
         /\ [o EXCEPT !.todo = todo].todo = todo
         /\ [o EXCEPT !.todo = todo].snap = o.snap
<1>1. o.step # "idle"
  BY DEF Busy, Steps
<1> QED BY <1>1, StepIsBusy DEF Busy, Goes

LEMMA HeldChanged ==
  ASSUME NEW o \in Busy, NEW held
  PROVE  /\ Goes(o, [o EXCEPT !.held = held], o.step)
         /\ [o EXCEPT !.held = held].todo = o.todo
         /\ [o EXCEPT !.held = held].snap = o.snap
         /\ [o EXCEPT !.held = held].failed = o.failed
<1>1. o.step # "idle"
  BY DEF Busy, Steps
<1> QED BY <1>1, StepIsBusy DEF Busy, Goes

WithOutcome(o, c, part, failed) ==
  [o EXCEPT !.step = "record", !.failed = failed, !.snap.part[c] = part]

LEMMA OutcomeChanged ==
  ASSUME NEW o \in Busy, NEW failed, NEW c, NEW part
  PROVE  Recorded(o, WithOutcome(o, c, part, failed), c, part, failed)
<1> DEFINE s == WithOutcome(o, c, part, failed)
<1>1. s.step = "record" /\ s.cmd = o.cmd /\ s.failed = failed
  BY DEF Busy, WithOutcome
<1>2. s.snap = [o.snap EXCEPT !.part[c] = part]
  BY DEF Busy, WithOutcome
<1>3. s # Idle
  BY <1>1, StepIsBusy
<1> HIDE DEF s
<1>4. Recorded(o, s, c, part, failed)
  BY <1>1, <1>2, <1>3 DEF Recorded, Goes
<1> QED BY <1>4 DEF s

\* A throw or an acknowledgement.
LEMMA ThrowShape ==
  ASSUME TypeInv, NEW w \in Workers, worker[w] # Idle, Throw(w) \/ Ack(w)
  PROVE  \E s : Become(w, s) /\ Restarts(worker[w], s)
<1>1. CASE Become(w, Idle)
  BY <1>1 DEF Restarts
<1>2. CASE Become(w, Begin(worker[w].cmd, worker[w].attempt + 1, worker[w].held))
  <2> DEFINE s == Begin(worker[w].cmd, worker[w].attempt + 1, worker[w].held)
  <2>1. s.cmd = worker[w].cmd /\ s.snap = NoRow /\ s.step = FirstStep(worker[w].cmd)
    BY DEF Begin
  <2> HIDE DEF s
  <2>2. Restarts(worker[w], s)
    BY <2>1 DEF Restarts
  <2> QED BY <1>2, <2>2 DEF s
<1> QED BY <1>1, <1>2 DEF Throw, Ack

\* A fault is paid for; nothing else is charged.
Pays(n) ==
  /\ spent'.faults = spent.faults + n /\ spent'.resends = spent.resends
  /\ spent'.deletes = spent.deletes /\ n \in Nat

LEMMA FaultPays ==
  ASSUME TypeInv
  PROVE  /\ UNCHANGED spent => Pays(0)
         /\ \A kind : Fault(kind) => Pays(1) /\ kind \in FaultKinds
<1>1. spent \in [faults : Nat, resends : Nat, deletes : Nat, requests : [Msg -> Nat],
                 kinds : SUBSET FaultKinds]
  BY DEF TypeInv, TypeOK
<1>2. ASSUME NEW kind, Fault(kind) PROVE Pays(1) /\ kind \in FaultKinds
  <2>1. spent' = [spent EXCEPT !.faults = spent.faults + 1, !.kinds = spent.kinds \cup {kind}]
    BY <1>2 DEF Fault
  <2>2. spent'.faults = spent.faults + 1 /\ spent'.resends = spent.resends
        /\ spent'.deletes = spent.deletes
    BY <1>1, <2>1
  <2> QED BY <1>2, <2>2 DEF Pays, Fault
<1> QED BY <1>1, <1>2 DEF Pays

\* Publishing one command adds one copy of it.
LEMMA PublishOne ==
  ASSUME TypeInv, NEW cmd \in Command
  PROVE  /\ Publish({cmd}) => \A x \in Command :
                ready'[x] = IF x = cmd THEN ready[x] + 1 ELSE ready[x]
         /\ Publish({}) => \A x \in Command : ready'[x] = ready[x]
<1>1. \A x \in Command : ready[x] \in Nat
  BY DEF TypeInv, TypeOK
<1> QED BY <1>1 DEF Publish

\* One lemma for every action: what the consumer was, what it becomes, and
\* what else changes.
LEMMA IsExistShape ==
  ASSUME TypeInv, NEW w \in Workers, IsExist(w)
  PROVE  /\ worker[w] # Idle /\ worker[w].step = "isExist"
         /\ UNCHANGED <<row, ready, job, accepted, reported, spent>>
         /\ \E s : /\ Become(w, s)
                   /\ s = Idle \/ (Goes(worker[w], s, "add") /\ s.snap = worker[w].snap)
<1>1. worker[w] # Idle /\ worker[w].step = "isExist" /\ worker[w] \in Busy
  BY BusyFacts DEF IsExist, At, TypeInv
<1>2. UNCHANGED <<row, ready, job, accepted, reported, spent>>
  BY DEF IsExist
<1>3. /\ Goes(worker[w], [worker[w] EXCEPT !.step = "add"], "add")
      /\ [worker[w] EXCEPT !.step = "add"].snap = worker[w].snap
  BY <1>1, StepChanged
<1>4. Become(w, Idle) \/ Become(w, [worker[w] EXCEPT !.step = "add"])
  BY DEF IsExist, Ack, GoTo
<1> QED BY <1>1, <1>2, <1>3, <1>4

LEMMA AddRowShape ==
  ASSUME TypeInv, NEW w \in Workers, AddRow(w)
  PROVE  /\ worker[w] # Idle /\ worker[w].step = "add"
         /\ UNCHANGED <<ready, job, accepted, reported>>
         /\ \E s :
              /\ Become(w, s)
              /\ \/ /\ row[MessageOf(w)] = NoRow
                    /\ row' = [row EXCEPT ![MessageOf(w)] = NewRow] /\ UNCHANGED spent
                    /\ \/ /\ MessageOf(w) \in Due /\ Goes(worker[w], s, "schedule")
                          /\ s.snap = NewRow
                       \/ /\ MessageOf(w) \notin Due /\ Goes(worker[w], s, "save")
                          /\ s.snap = EnqueuedRow(NewRow, NoJob)
                 \/ /\ Restarts(worker[w], s) /\ UNCHANGED row
                    /\ UNCHANGED spent \/ Fault("database")
<1>1. worker[w] # Idle /\ worker[w].step = "add" /\ worker[w] \in Busy
  BY BusyFacts DEF AddRow, At, TypeInv
<1>2. UNCHANGED <<ready, job, accepted, reported>>
  BY DEF AddRow
<1> DEFINE first == WithSnap(worker[w], "schedule", NewRow)
           second == WithSnap(worker[w], "save", EnqueuedRow(NewRow, NoJob))
<1>3. /\ Goes(worker[w], first, "schedule") /\ first.snap = NewRow
      /\ Goes(worker[w], second, "save") /\ second.snap = EnqueuedRow(NewRow, NoJob)
  BY <1>1, SnapChanged
<1>4. \/ /\ row[MessageOf(w)] = NoRow
         /\ row' = [row EXCEPT ![MessageOf(w)] = NewRow] /\ UNCHANGED spent
         /\ \/ MessageOf(w) \in Due /\ Become(w, first)
            \/ MessageOf(w) \notin Due /\ Become(w, second)
      \/ Throw(w) /\ UNCHANGED row /\ (UNCHANGED spent \/ Fault("database"))
  BY DEF AddRow, WithSnap
<1> HIDE DEF first, second
<1>5. Throw(w) => \E s : Become(w, s) /\ Restarts(worker[w], s)
  BY <1>1, ThrowShape
<1>6. CASE Throw(w) /\ UNCHANGED row /\ (UNCHANGED spent \/ Fault("database"))
  BY <1>1, <1>2, <1>5, <1>6
<1>7. CASE /\ row[MessageOf(w)] = NoRow
           /\ row' = [row EXCEPT ![MessageOf(w)] = NewRow] /\ UNCHANGED spent
           /\ \/ MessageOf(w) \in Due /\ Become(w, first)
              \/ MessageOf(w) \notin Due /\ Become(w, second)
  BY <1>1, <1>2, <1>3, <1>7
<1> QED BY <1>4, <1>6, <1>7

\* The job a handler schedules.
JobFor(m) == [msg |-> m, phase |-> "scheduled", live |-> TRUE, todo |-> Channels]

LEMMA ScheduleShape ==
  ASSUME TypeInv, NEW w \in Workers, ScheduleJob(w)
  PROVE  /\ worker[w] # Idle /\ worker[w].step = "schedule"
         /\ UNCHANGED <<row, ready, accepted, reported>>
         /\ \E s :
              /\ Become(w, s)
              /\ \/ /\ UNCHANGED spent /\ Goes(worker[w], s, "save")
                    /\ \E j \in JobIds : /\ job[j] = NoJob
                                         /\ job' = [job EXCEPT ![j] = JobFor(MessageOf(w))]
                                         /\ s.snap = EnqueuedRow(worker[w].snap, j)
                 \/ /\ Fault("job") /\ UNCHANGED job /\ Goes(worker[w], s, "catch")
                    /\ s.snap = worker[w].snap
<1>1. worker[w] # Idle /\ worker[w].step = "schedule" /\ worker[w] \in Busy
  BY BusyFacts DEF ScheduleJob, At, TypeInv
<1>2. UNCHANGED <<row, ready, accepted, reported>>
  BY DEF ScheduleJob
<1>3. CASE \E j \in JobIds :
          /\ job[j] = NoJob /\ job' = [job EXCEPT ![j] = JobFor(MessageOf(w))]
          /\ Become(w, WithSnap(worker[w], "save", EnqueuedRow(worker[w].snap, j)))
          /\ UNCHANGED spent
  <2>1. PICK j \in JobIds :
          /\ job[j] = NoJob /\ job' = [job EXCEPT ![j] = JobFor(MessageOf(w))]
          /\ Become(w, WithSnap(worker[w], "save", EnqueuedRow(worker[w].snap, j)))
          /\ UNCHANGED spent
    BY <1>3
  <2> DEFINE s == WithSnap(worker[w], "save", EnqueuedRow(worker[w].snap, j))
  <2>2. Goes(worker[w], s, "save") /\ s.snap = EnqueuedRow(worker[w].snap, j)
    BY <1>1, SnapChanged
  <2>3. Become(w, s)
    BY <2>1
  <2> HIDE DEF s
  <2> QED BY <1>1, <1>2, <2>1, <2>2, <2>3
<1>4. CASE Fault("job") /\ GoTo(w, "catch") /\ UNCHANGED job
  <2> DEFINE s == [worker[w] EXCEPT !.step = "catch"]
  <2>1. Goes(worker[w], s, "catch") /\ s.snap = worker[w].snap
    BY <1>1, StepChanged
  <2>2. Become(w, s)
    BY <1>4 DEF GoTo
  <2> HIDE DEF s
  <2> QED BY <1>1, <1>2, <1>4, <2>1, <2>2
<1> QED BY <1>3, <1>4 DEF ScheduleJob, JobFor, WithSnap

LEMMA SaveShape ==
  ASSUME TypeInv, NEW w \in Workers, SavePending(w)
  PROVE  /\ worker[w] # Idle /\ worker[w].step = "save"
         /\ UNCHANGED <<ready, job, accepted, reported>>
         /\ \E s :
              /\ Become(w, s)
              /\ \/ /\ row[MessageOf(w)] # NoRow /\ UNCHANGED spent
                    /\ row' = [row EXCEPT ![MessageOf(w)] = worker[w].snap]
                    /\ \/ MessageOf(w) \in Due /\ s = Idle
                       \/ /\ MessageOf(w) \notin Due /\ Goes(worker[w], s, "publish")
                          /\ s.todo = Channels /\ s.snap = worker[w].snap
                 \/ /\ UNCHANGED row /\ Goes(worker[w], s, "catch")
                    /\ s.snap = worker[w].snap
                    /\ (row[MessageOf(w)] = NoRow /\ UNCHANGED spent) \/ Fault("database")
<1>1. worker[w] # Idle /\ worker[w].step = "save" /\ worker[w] \in Busy
  BY BusyFacts DEF SavePending, At, TypeInv
<1>2. UNCHANGED <<ready, job, accepted, reported>>
  BY DEF SavePending
<1> DEFINE first == WithTodo(worker[w], "publish", Channels)
           second == [worker[w] EXCEPT !.step = "catch"]
<1>3. /\ Goes(worker[w], first, "publish") /\ first.todo = Channels
      /\ first.snap = worker[w].snap
  BY <1>1, TodoChanged
<1>4. Goes(worker[w], second, "catch") /\ second.snap = worker[w].snap
  BY <1>1, StepChanged
<1>5. \/ /\ row[MessageOf(w)] # NoRow /\ UNCHANGED spent
         /\ row' = [row EXCEPT ![MessageOf(w)] = worker[w].snap]
         /\ \/ MessageOf(w) \in Due /\ Become(w, Idle)
            \/ MessageOf(w) \notin Due /\ Become(w, first)
      \/ /\ UNCHANGED row /\ Become(w, second)
         /\ (row[MessageOf(w)] = NoRow /\ UNCHANGED spent) \/ Fault("database")
  BY DEF SavePending, AfterSave, Ack, GoTo, WithTodo
<1> HIDE DEF first, second
<1> QED BY <1>1, <1>2, <1>3, <1>4, <1>5

LEMMA PublishShape ==
  ASSUME TypeInv, NEW w \in Workers, NEW c \in Channels, PublishNow(w, c)
  PROVE  /\ worker[w] # Idle /\ worker[w].step = "publish" /\ c \in worker[w].todo
         /\ UNCHANGED <<row, job, accepted, reported>>
         /\ \E s :
              /\ Become(w, s)
              /\ \/ /\ Publish({SendCommand(c, MessageOf(w))}) /\ UNCHANGED spent
                    /\ \/ s = Idle
                       \/ /\ Goes(worker[w], s, "publish") /\ s.todo = worker[w].todo \ {c}
                          /\ s.snap = worker[w].snap
                 \/ /\ Goes(worker[w], s, "catch") /\ s.snap = worker[w].snap
                    /\ \/ Fault("publish") /\ UNCHANGED ready
                       \/ Fault("lostConfirm") /\ Publish({SendCommand(c, MessageOf(w))})
<1>1. /\ worker[w] # Idle /\ worker[w].step = "publish" /\ worker[w] \in Busy
      /\ c \in worker[w].todo
  BY BusyFacts DEF PublishNow, At, IsNext, TypeInv
<1>2. UNCHANGED <<row, job, accepted, reported>>
  BY DEF PublishNow
<1> DEFINE first == [worker[w] EXCEPT !.todo = worker[w].todo \ {c}]
           second == [worker[w] EXCEPT !.step = "catch"]
<1>3. /\ Goes(worker[w], first, worker[w].step) /\ first.todo = worker[w].todo \ {c}
      /\ first.snap = worker[w].snap
  BY <1>1, OnlyTodoChanged
<1>4. Goes(worker[w], second, "catch") /\ second.snap = worker[w].snap
  BY <1>1, StepChanged
<1>5. \/ /\ Publish({SendCommand(c, MessageOf(w))}) /\ UNCHANGED spent
         /\ Become(w, Idle) \/ Become(w, first)
      \/ /\ Become(w, second)
         /\ \/ Fault("publish") /\ UNCHANGED ready
            \/ Fault("lostConfirm") /\ Publish({SendCommand(c, MessageOf(w))})
  BY DEF PublishNow, Ack, GoTo
<1> HIDE DEF first, second
<1> QED BY <1>1, <1>2, <1>3, <1>4, <1>5

LEMMA CatchShape ==
  ASSUME TypeInv, NEW w \in Workers, CatchDelete(w)
  PROVE  /\ worker[w] # Idle /\ worker[w].step = "catch"
         /\ UNCHANGED <<ready, job, accepted, reported>>
         /\ \/ row' = [row EXCEPT ![MessageOf(w)] = NoRow] /\ UNCHANGED spent
            \/ Fault("database") /\ UNCHANGED row
         /\ \E s : Become(w, s) /\ Restarts(worker[w], s)
<1>1. worker[w] # Idle /\ worker[w].step = "catch"
  BY DEF CatchDelete, At
<1>2. Throw(w) /\ UNCHANGED <<ready, job, accepted, reported>>
  BY DEF CatchDelete
<1>3. \/ row' = [row EXCEPT ![MessageOf(w)] = NoRow] /\ UNCHANGED spent
      \/ Fault("database") /\ UNCHANGED row
  BY DEF CatchDelete, RowDeleted
<1> QED BY <1>1, <1>2, <1>3, ThrowShape

LEMMA LoadForSendShape ==
  ASSUME TypeInv, NEW w \in Workers, NEW c \in Channels, LoadForSend(w, c)
  PROVE  /\ worker[w] # Idle /\ worker[w].step = "load"
         /\ worker[w].cmd = SendCommand(c, MessageOf(w))
         /\ UNCHANGED <<row, ready, job, accepted, reported, spent>>
         /\ \E s : /\ Become(w, s)
                   /\ \/ s = Idle
                      \/ /\ Goes(worker[w], s, "send") /\ s.snap = row[MessageOf(w)]
                         /\ ~NothingToSend(c, MessageOf(w))
<1>1. worker[w] # Idle /\ worker[w].step = "load" /\ worker[w] \in Busy
  BY BusyFacts DEF LoadForSend, At, TypeInv
<1>2. worker[w].cmd = SendCommand(c, MessageOf(w))
  <2>1. worker[w].cmd \in Command /\ worker[w].cmd.type = c
    BY <1>1, BusyFacts DEF LoadForSend, TypeInv
  <2> QED BY <2>1, Kinds DEF MessageOf
<1>3. UNCHANGED <<row, ready, job, accepted, reported, spent>>
  BY DEF LoadForSend
<1> DEFINE next == WithSnap(worker[w], "send", row[MessageOf(w)])
<1>4. Goes(worker[w], next, "send") /\ next.snap = row[MessageOf(w)]
  BY <1>1, SnapChanged
<1>5. Become(w, Idle) \/ (~NothingToSend(c, MessageOf(w)) /\ Become(w, next))
  BY DEF LoadForSend, Ack, WithSnap
<1> HIDE DEF next
<1> QED BY <1>1, <1>2, <1>3, <1>4, <1>5

\* The outcomes of a provider call.
Answered(o, s, c, part, failed) ==
  \/ Recorded(o, s, c, part, failed)
  \/ IF failed THEN ~CanRetry(o.snap.part[c]) /\ Restarts(o, s)
               ELSE ~CanSend(c, o.snap.part[c]) /\ s = Idle

Called(w, s, m, c, part) ==
  \/ /\ UNCHANGED <<accepted, spent>>
     /\ Recorded(worker[w], s, c, ValidatorDeny(c, part), FALSE)
  \/ /\ MayAccept(m, c) /\ UNCHANGED spent
     /\ \/ CanInvalid(part) /\ Recorded(worker[w], s, c, Invalid(part), FALSE)
        \/ ~CanInvalid(part) /\ s = Idle
        \/ Answered(worker[w], s, c, Send(c, part, NoId), FALSE)
  \/ /\ ProviderAccepts(m, c) /\ UNCHANGED spent
     /\ Answered(worker[w], s, c, Send(c, part, accepted[m][c] + 1), FALSE)
  \/ /\ UNCHANGED accepted /\ Fault("provider")
     /\ Answered(worker[w], s, c, Retry(part), TRUE)
  \/ /\ ProviderAccepts(m, c) /\ Fault("lostAnswer")
     /\ Answered(worker[w], s, c, Retry(part), TRUE)

LEMMA AllowedShape ==
  ASSUME TypeInv, NEW w \in Workers, worker[w] # Idle, NEW c, NEW allowed, NEW part,
         NEW failed, allowed, Outcome(w, c, allowed, part, failed)
  PROVE  \E s : Become(w, s) /\ Recorded(worker[w], s, c, part, failed)
<1>1. worker[w] \in Busy
  BY BusyFacts DEF TypeInv
<1> DEFINE next == WithOutcome(worker[w], c, part, failed)
<1>2. Recorded(worker[w], next, c, part, failed)
  BY <1>1, OutcomeChanged
<1>3. Become(w, next)
  BY DEF Outcome, WithOutcome
<1> HIDE DEF next
<1> QED BY <1>2, <1>3

LEMMA CallShape ==
  ASSUME TypeInv, NEW w \in Workers, NEW c \in Channels, CallProvider(w, c)
  PROVE  /\ worker[w] # Idle /\ worker[w].step = "send"
         /\ worker[w].cmd = SendCommand(c, MessageOf(w)) /\ MessageOf(w) \in Msg
         /\ UNCHANGED <<row, ready, job, reported>>
         /\ \E s : Become(w, s) /\ Called(w, s, MessageOf(w), c, worker[w].snap.part[c])
<1>1. worker[w] # Idle /\ worker[w].step = "send" /\ worker[w] \in Busy
  BY BusyFacts DEF CallProvider, At, TypeInv
<1>2. worker[w].cmd = SendCommand(c, MessageOf(w)) /\ MessageOf(w) \in Msg
  <2>1. worker[w].cmd \in Command /\ worker[w].cmd.type = c /\ MessageOf(w) \in Msg
    BY <1>1, BusyFacts DEF CallProvider, TypeInv
  <2> QED BY <2>1, Kinds DEF MessageOf
<1>3. UNCHANGED <<row, ready, job, reported>>
  BY DEF CallProvider
<1> DEFINE part == worker[w].snap.part[c]
           sent == Send(c, part, accepted[MessageOf(w)][c] + 1)
<1>5. \/ Outcome(w, c, TRUE, ValidatorDeny(c, part), FALSE) /\ UNCHANGED <<accepted, spent>>
      \/ /\ MayAccept(MessageOf(w), c) /\ UNCHANGED spent
         /\ \/ Outcome(w, c, CanInvalid(part), Invalid(part), FALSE)
            \/ Outcome(w, c, CanSend(c, part), Send(c, part, NoId), FALSE)
      \/ /\ ProviderAccepts(MessageOf(w), c) /\ UNCHANGED spent
         /\ Outcome(w, c, CanSend(c, part), sent, FALSE)
      \/ /\ UNCHANGED accepted /\ Fault("provider")
         /\ Outcome(w, c, CanRetry(part), Retry(part), TRUE)
      \/ /\ ProviderAccepts(MessageOf(w), c) /\ Fault("lostAnswer")
         /\ Outcome(w, c, CanRetry(part), Retry(part), TRUE)
  BY DEF CallProvider, MayAccept
<1>6. \E s : Become(w, s) /\ Called(w, s, MessageOf(w), c, part)
  <2> HIDE DEF sent
  <2>1. CASE Outcome(w, c, TRUE, ValidatorDeny(c, part), FALSE) /\ UNCHANGED <<accepted, spent>>
    <3>1. PICK s : Become(w, s) /\ Recorded(worker[w], s, c, ValidatorDeny(c, part), FALSE)
      BY <1>1, <2>1, AllowedShape
    <3> QED BY <2>1, <3>1 DEF Called
  <2>2. CASE /\ MayAccept(MessageOf(w), c) /\ UNCHANGED spent
             /\ Outcome(w, c, CanInvalid(part), Invalid(part), FALSE)
    <3>1. CASE CanInvalid(part)
      <4>1. PICK s : Become(w, s) /\ Recorded(worker[w], s, c, Invalid(part), FALSE)
        BY <1>1, <2>2, <3>1, AllowedShape
      <4> QED BY <2>2, <3>1, <4>1 DEF Called
    <3>2. CASE ~CanInvalid(part)
      <4>1. Become(w, Idle)
        BY <1>1, <2>2, <3>2 DEF Outcome, Ack
      <4> QED BY <2>2, <3>2, <4>1 DEF Called
    <3> QED BY <3>1, <3>2
  <2>3. ASSUME NEW p, Outcome(w, c, CanSend(c, part), p, FALSE)
        PROVE  \E s : Become(w, s) /\ Answered(worker[w], s, c, p, FALSE)
    <3>1. CASE CanSend(c, part)
      <4>1. PICK s : Become(w, s) /\ Recorded(worker[w], s, c, p, FALSE)
        BY <1>1, <2>3, <3>1, AllowedShape
      <4> QED BY <4>1 DEF Answered
    <3>2. CASE ~CanSend(c, part)
      <4>1. Become(w, Idle)
        BY <1>1, <2>3, <3>2 DEF Outcome, Ack
      <4> QED BY <3>2, <4>1 DEF Answered
    <3> QED BY <3>1, <3>2
  <2>4. ASSUME Outcome(w, c, CanRetry(part), Retry(part), TRUE)
        PROVE  \E s : Become(w, s) /\ Answered(worker[w], s, c, Retry(part), TRUE)
    <3>1. CASE CanRetry(part)
      <4>1. PICK s : Become(w, s) /\ Recorded(worker[w], s, c, Retry(part), TRUE)
        BY <1>1, <2>4, <3>1, AllowedShape
      <4> QED BY <4>1 DEF Answered
    <3>2. CASE ~CanRetry(part)
      <4>0. Throw(w)
        BY <2>4, <3>2 DEF Outcome
      <4>1. PICK s : Become(w, s) /\ Restarts(worker[w], s)
        BY <1>1, <4>0, ThrowShape
      <4> QED BY <3>2, <4>1 DEF Answered
    <3> QED BY <3>1, <3>2
  <2>5. CASE /\ UNCHANGED accepted /\ Fault("provider")
             /\ Outcome(w, c, CanRetry(part), Retry(part), TRUE)
    BY <2>4, <2>5 DEF Called
  <2>6. CASE /\ ProviderAccepts(MessageOf(w), c) /\ Fault("lostAnswer")
             /\ Outcome(w, c, CanRetry(part), Retry(part), TRUE)
    BY <2>4, <2>6 DEF Called
  <2>7. CASE /\ MayAccept(MessageOf(w), c) /\ UNCHANGED spent
             /\ Outcome(w, c, CanSend(c, part), Send(c, part, NoId), FALSE)
    BY <2>3, <2>7 DEF Called
  <2>8. CASE /\ ProviderAccepts(MessageOf(w), c) /\ UNCHANGED spent
             /\ Outcome(w, c, CanSend(c, part), sent, FALSE)
    BY <2>3, <2>8 DEF Called, sent
  <2> QED BY <1>5, <2>1, <2>2, <2>5, <2>6, <2>7, <2>8
<1> QED BY <1>1, <1>2, <1>3, <1>6

LEMMA RecordShape ==
  ASSUME TypeInv, NEW w \in Workers, RecordOutcome(w)
  PROVE  /\ worker[w] # Idle /\ worker[w].step = "record" /\ worker[w].cmd \in Sends
         /\ UNCHANGED <<ready, job, accepted, reported>>
         /\ \/ /\ row[MessageOf(w)] # NoRow /\ UNCHANGED spent
               /\ row' = [row EXCEPT ![MessageOf(w)] = worker[w].snap]
            \/ UNCHANGED row /\ (UNCHANGED spent \/ Fault("database"))
         /\ \E s : /\ Become(w, s)
                   /\ IF worker[w].failed THEN Restarts(worker[w], s) ELSE s = Idle
<1>1. worker[w] # Idle /\ worker[w].step = "record" /\ worker[w].cmd \in Sends
  BY DEF RecordOutcome, At
<1>2. /\ UNCHANGED <<ready, job, accepted, reported>>
      /\ \/ /\ row[MessageOf(w)] # NoRow /\ UNCHANGED spent
            /\ row' = [row EXCEPT ![MessageOf(w)] = worker[w].snap]
         \/ UNCHANGED row /\ (UNCHANGED spent \/ Fault("database"))
      /\ IF worker[w].failed THEN Throw(w) ELSE Become(w, Idle)
  BY DEF RecordOutcome, Ack
<1>3. Throw(w) => \E s : Become(w, s) /\ Restarts(worker[w], s)
  BY <1>1, ThrowShape
<1> QED BY <1>1, <1>2, <1>3

LEMMA LoadForReportShape ==
  ASSUME TypeInv, NEW w \in Workers, LoadForReport(w)
  PROVE  /\ worker[w] # Idle /\ worker[w].step = "load" /\ worker[w].cmd \in Reports
         /\ UNCHANGED <<row, ready, job, accepted, reported, spent>>
         /\ \E s : /\ Become(w, s)
                   /\ \/ Restarts(worker[w], s)
                      \/ /\ Goes(worker[w], s, "record") /\ row[MessageOf(w)] # NoRow
                         /\ row[MessageOf(w)].part["Sms"].id = worker[w].cmd.id
                         /\ CanReport(row[MessageOf(w)].part["Sms"])
                         /\ s.snap = [row[MessageOf(w)] EXCEPT !.part["Sms"] =
                               Report(row[MessageOf(w)].part["Sms"], worker[w].cmd.delivered)]
<1>1. /\ worker[w] # Idle /\ worker[w].step = "load" /\ worker[w] \in Busy
      /\ worker[w].cmd \in Reports
  BY BusyFacts DEF LoadForReport, At, TypeInv
<1>2. UNCHANGED <<row, ready, job, accepted, reported, spent>>
  BY DEF LoadForReport
<1> DEFINE r == row[MessageOf(w)]
           reportedRow == [r EXCEPT !.part["Sms"] = Report(r.part["Sms"], worker[w].cmd.delivered)]
           next == WithSnap(worker[w], "record", reportedRow)
<1>3. Goes(worker[w], next, "record") /\ next.snap = reportedRow
  <2> HIDE DEF reportedRow
  <2> QED BY <1>1, SnapChanged
<1>4. \/ Ack(w) \/ Throw(w)
      \/ /\ r # NoRow /\ r.part["Sms"].id = worker[w].cmd.id /\ CanReport(r.part["Sms"])
         /\ Become(w, next)
  BY DEF LoadForReport, FindsSms, WithSnap
<1> HIDE DEF next
<1>5. (Ack(w) \/ Throw(w)) => \E s : Become(w, s) /\ Restarts(worker[w], s)
  BY <1>1, ThrowShape
<1> QED BY <1>1, <1>2, <1>3, <1>4, <1>5

LEMMA SaveReportShape ==
  ASSUME TypeInv, NEW w \in Workers, SaveReport(w)
  PROVE  /\ worker[w] # Idle /\ worker[w].step = "record" /\ worker[w].cmd \in Reports
         /\ UNCHANGED <<ready, job, accepted, reported>>
         /\ \E s : /\ Become(w, s)
                   /\ \/ /\ row[MessageOf(w)] # NoRow /\ UNCHANGED spent /\ s = Idle
                         /\ row' = [row EXCEPT ![MessageOf(w)] = worker[w].snap]
                      \/ /\ UNCHANGED row /\ (UNCHANGED spent \/ Fault("database"))
                         /\ Restarts(worker[w], s)
<1>1. worker[w] # Idle /\ worker[w].step = "record" /\ worker[w].cmd \in Reports
  BY DEF SaveReport, At
<1>2. /\ UNCHANGED <<ready, job, accepted, reported>>
      /\ \/ /\ row[MessageOf(w)] # NoRow /\ UNCHANGED spent /\ Become(w, Idle)
            /\ row' = [row EXCEPT ![MessageOf(w)] = worker[w].snap]
         \/ UNCHANGED row /\ (UNCHANGED spent \/ Fault("database")) /\ Throw(w)
  BY DEF SaveReport, Ack
<1>3. Throw(w) => \E s : Become(w, s) /\ Restarts(worker[w], s)
  BY <1>1, ThrowShape
<1> QED BY <1>1, <1>2, <1>3

\* A delete concerns one message; whatever it takes away was due later.
SameJob(a, b) ==
  /\ a # NoJob <=> b # NoJob
  /\ b # NoJob => a.msg = b.msg /\ a.phase = b.phase /\ a.todo = b.todo

LEMMA JobDropped ==
  ASSUME TypeInv, NEW j \in JobIds, job[j] # NoJob,
         job' = [job EXCEPT ![j].live = FALSE]
  PROVE  \A i \in JobIds : SameJob(job'[i], job[i])
<1>1. job[j] \in Job /\ job \in [JobIds -> Job \cup {NoJob}]
  BY DEF TypeInv, TypeOK
<1> DEFINE dead == [job[j] EXCEPT !.live = FALSE]
<1>2. /\ dead \in Job /\ dead.msg = job[j].msg /\ dead.phase = job[j].phase
      /\ dead.todo = job[j].todo
  BY <1>1 DEF Job
<1>3. dead # NoJob
  BY <1>2, DispatchAssumption
<1>4. job'[j] = dead /\ \A i \in JobIds \ {j} : job'[i] = job[i]
  BY <1>1
<1> HIDE DEF dead
<1> QED BY <1>2, <1>3, <1>4 DEF SameJob

LEMMA LoadForDeleteShape ==
  ASSUME TypeInv, NEW w \in Workers, LoadForDelete(w)
  PROVE  /\ worker[w] # Idle /\ worker[w].cmd \in Deletes
         /\ UNCHANGED <<row, ready, job, accepted, reported, spent>>
         /\ \E s : /\ Become(w, s)
                   /\ s = Idle \/ (MessageOf(w) \in Due /\ s # Idle /\ s.cmd = worker[w].cmd)
<1>1. worker[w] # Idle /\ worker[w].cmd \in Deletes /\ worker[w] \in Busy
  BY BusyFacts DEF LoadForDelete, At, TypeInv
<1>2. UNCHANGED <<row, ready, job, accepted, reported, spent>>
  BY DEF LoadForDelete
<1>3. \/ Become(w, Idle)
      \/ MessageOf(w) \in Due /\ \E step \in DeleteSteps : Become(w, WithSnap(worker[w], step, row[MessageOf(w)]))
  BY DEF LoadForDelete, Ack, WithSnap, DeleteSteps
<1>4. \A step \in DeleteSteps : Goes(worker[w], WithSnap(worker[w], step, row[MessageOf(w)]), step)
  BY <1>1, SnapChanged DEF DeleteSteps
<1> QED BY <1>1, <1>2, <1>3, <1>4 DEF Goes

LEMMA DeleteShape ==
  ASSUME TypeInv, StepsInv, NEW w \in Workers, DeleteRow(w) \/ DropJob(w)
  PROVE  /\ worker[w] # Idle /\ worker[w].step \in DeleteSteps /\ MessageOf(w) \in Due
         /\ UNCHANGED <<ready, accepted, reported>>
         /\ UNCHANGED row \/ row' = [row EXCEPT ![MessageOf(w)] = NoRow]
         /\ UNCHANGED spent \/ \E kind : Fault(kind)
         /\ \A i \in JobIds : SameJob(job'[i], job[i])
         /\ \E s : Become(w, s) /\ (s # Idle => s.cmd = worker[w].cmd)
<1>1. worker[w] # Idle /\ worker[w].step \in DeleteSteps /\ worker[w] \in Busy
  BY BusyFacts DEF DeleteRow, DropJob, At, TypeInv, DeleteSteps
<1>2. MessageOf(w) \in Due
  BY <1>1 DEF StepsInv, InPlace, MessageOf
<1>3. /\ UNCHANGED <<ready, accepted, reported>>
      /\ UNCHANGED row \/ row' = [row EXCEPT ![MessageOf(w)] = NoRow]
      /\ UNCHANGED spent \/ \E kind : Fault(kind)
  BY DEF DeleteRow, DropJob, RowDeleted
<1>4. \A i \in JobIds : SameJob(job'[i], job[i])
  <2>1. CASE UNCHANGED job
    BY <2>1 DEF SameJob
  <2>2. CASE DropJob(w) /\ worker[w].snap.jobId # NoJob
             /\ job' = [job EXCEPT ![worker[w].snap.jobId].live = FALSE]
    <3>1. Held(worker[w], job) /\ worker[w].step = "dropJob"
      BY <2>2 DEF TypeInv, DropJob, At
    <3>2. worker[w].snap \in Row /\ Known(worker[w].snap, job)
      BY <1>1, <3>1 DEF Held, HasSnap
    <3>3. worker[w].snap # NoRow /\ worker[w].snap.jobId \in JobIds
      BY <2>2, <3>2, DispatchAssumption DEF Row
    <3>4. job[worker[w].snap.jobId] # NoJob
      BY <2>2, <3>2, <3>3 DEF Known
    <3> QED BY <2>2, <3>3, <3>4, JobDropped
  <2> QED BY <2>1, <2>2 DEF DeleteRow, DropJob
<1>5. \E s : Become(w, s) /\ (s # Idle => s.cmd = worker[w].cmd)
  <2>1. ASSUME NEW step \in DeleteSteps, GoTo(w, step)
        PROVE  \E s : Become(w, s) /\ (s # Idle => s.cmd = worker[w].cmd)
    <3>1. Goes(worker[w], [worker[w] EXCEPT !.step = step], step)
      BY <1>1, StepChanged DEF DeleteSteps
    <3> QED BY <2>1, <3>1 DEF GoTo, Goes
  <2>2. ASSUME Throw(w) \/ Ack(w)
        PROVE  \E s : Become(w, s) /\ (s # Idle => s.cmd = worker[w].cmd)
    BY <1>1, <2>2, ThrowShape DEF Restarts
  <2> QED BY <2>1, <2>2 DEF DeleteRow, DropJob, DeleteSteps
<1> QED BY <1>1, <1>2, <1>3, <1>4, <1>5

LEMMA DeliverShape ==
  ASSUME TypeInv, NEW w \in Workers, NEW cmd \in Command, Deliver(w, cmd)
  PROVE  /\ worker[w] = Idle /\ ready[cmd] > 0 /\ ready[cmd] \in Nat
         /\ UNCHANGED <<row, job, accepted, reported, spent>>
         /\ \A x \in Command : ready'[x] = IF x = cmd THEN ready[x] - 1 ELSE ready[x]
         /\ \E s : /\ Become(w, s) /\ Goes([cmd |-> cmd], s, FirstStep(cmd))
                   /\ s.snap = NoRow
<1>1. /\ worker[w] = Idle /\ ready[cmd] > 0
      /\ UNCHANGED <<row, job, accepted, reported, spent>>
      /\ ready' = [ready EXCEPT ![cmd] = ready[cmd] - 1] /\ Become(w, Begin(cmd, 0, TRUE))
  BY DEF Deliver
<1>2. \A x \in Command : ready'[x] = IF x = cmd THEN ready[x] - 1 ELSE ready[x]
  BY <1>1 DEF TypeInv, TypeOK
<1> DEFINE s == Begin(cmd, 0, TRUE)
<1>3. s.cmd = cmd /\ s.step = FirstStep(cmd) /\ s.snap = NoRow
  BY DEF Begin
<1>4. s # Idle
  BY <1>3, StepIsBusy DEF FirstStep
<1>5. Become(w, s)
  BY <1>1
<1> HIDE DEF s
<1> QED BY <1>1, <1>2, <1>3, <1>4, <1>5 DEF Goes, TypeInv, TypeOK

LEMMA ReadFailsShape ==
  ASSUME TypeInv, NEW w \in Workers, ReadFails(w)
  PROVE  /\ worker[w] # Idle /\ worker[w].step \in {"isExist", "load"}
         /\ UNCHANGED <<row, ready, job, accepted, reported>> /\ Fault("database")
         /\ \E s : Become(w, s) /\ Restarts(worker[w], s)
BY ThrowShape DEF ReadFails, At

LEMMA CrashShape ==
  ASSUME TypeInv, NEW w \in Workers, Crash(w)
  PROVE  /\ worker[w] # Idle /\ Become(w, Idle)
         /\ UNCHANGED <<row, job, accepted, reported>> /\ Fault("crash")
         /\ \/ \A x \in Command : ready'[x] = ready[x]
            \/ \A x \in Command :
                 ready'[x] = IF x = worker[w].cmd THEN ready[x] + 1 ELSE ready[x]
<1>1. worker[w] # Idle /\ worker[w].cmd \in Command
  BY BusyFacts DEF Crash, TypeInv
<1>2. Publish({worker[w].cmd}) \/ Publish({})
  BY DEF Crash
<1> QED BY <1>1, <1>2, PublishOne DEF Crash, Ack

LEMMA DisconnectShape ==
  ASSUME TypeInv, NEW w \in Workers, Disconnect(w)
  PROVE  /\ worker[w] # Idle
         /\ UNCHANGED <<row, job, accepted, reported>> /\ Fault("disconnect")
         /\ \A x \in Command :
              ready'[x] = IF x = worker[w].cmd THEN ready[x] + 1 ELSE ready[x]
         /\ \E s : /\ Become(w, s) /\ Goes(worker[w], s, worker[w].step)
                   /\ s.todo = worker[w].todo /\ s.snap = worker[w].snap
                   /\ s.failed = worker[w].failed
<1>1. worker[w] # Idle /\ worker[w].cmd \in Command /\ worker[w] \in Busy
  BY BusyFacts DEF Disconnect, TypeInv
<1> DEFINE s == [worker[w] EXCEPT !.held = FALSE]
<1>2. /\ Goes(worker[w], s, worker[w].step) /\ s.todo = worker[w].todo
      /\ s.snap = worker[w].snap /\ s.failed = worker[w].failed
  BY <1>1, HeldChanged
<1>3. Become(w, s)
  BY DEF Disconnect
<1> HIDE DEF s
<1> QED BY <1>1, <1>2, <1>3, PublishOne DEF Disconnect

-----------------------------------------------------------------------------
(* No duplicate without a disturbance                                      *)

\* A delete is counted before it is asked for.
DeletesInv == spent.deletes = 0 =>
  /\ \A cmd \in Deletes : ready[cmd] = 0
  /\ \A w \in Workers : worker[w] # Idle =>
       worker[w].cmd \notin Deletes /\ worker[w].step \notin DeleteSteps

\* Only a message that is due later gets a job.
JobsForDue == \A w \in Workers :
  worker[w] # Idle /\ worker[w].step = "schedule" => MessageOf(w) \in Due

Undeleted(m) == spent.deletes = 0 \/ m \notin Due

\* The handler that added the row of m has not returned.
Handling(s, m) ==
  s # Idle /\ s.cmd.msg = m /\ s.step \in {"schedule", "save", "publish", "catch"}

OneHandler(m) ==
  /\ \A w \in Workers : Handling(worker[w], m) => row[m] # NoRow
  /\ \A v, w \in Workers : Handling(worker[v], m) /\ Handling(worker[w], m) => v = w

\* What may still bring m to the provider of c once more: a consumer, a job, the
\* command itself, and the request as long as the row is not there.
MaySend(s, m, c) ==
  /\ s # Idle /\ s.cmd.msg = m
  /\ \/ s.step \in {"schedule", "catch"}
     \/ s.step = "save" /\ m \notin Due
     \/ s.step = "publish" /\ c \in s.todo
     \/ s.cmd = SendCommand(c, m) /\ s.step \in {"load", "send"}
     \/ s.cmd = SendCommand(c, m) /\ s.step = "record" /\ s.failed

JobMaySend(j, m, c) ==
  /\ j # NoJob /\ j.msg = m
  /\ j.phase = "scheduled" \/ (j.phase = "running" /\ c \in j.todo)

Open(m, c) == {w \in Workers : MaySend(worker[w], m, c)}

Planned(m, c) == {j \in JobIds : JobMaySend(job[j], m, c)}

Unborn(r) == IF r = NoRow THEN 1 ELSE 0

PaidFor(m, c) ==
  /\ IsFiniteSet(Open(m, c)) /\ IsFiniteSet(Planned(m, c))
  /\ accepted[m][c] + Unborn(row[m]) + Cardinality(Open(m, c)) + Cardinality(Planned(m, c))
       + ready[SendCommand(c, m)] <= 1 + Disturbances

OnceInv ==
  /\ DeletesInv /\ JobsForDue
  /\ \A m \in Msg : Undeleted(m) => OneHandler(m) /\ \A c \in Channels : PaidFor(m, c)

\* Sets that differ in one element.
LEMMA SetMove ==
  ASSUME NEW S, IsFiniteSet(S), NEW T, NEW w, T \ {w} = S \ {w}
  PROVE  /\ IsFiniteSet(T) /\ Cardinality(T) \in Nat /\ Cardinality(S) \in Nat
         /\ Cardinality(T) + (IF w \in S THEN 1 ELSE 0)
              = Cardinality(S) + (IF w \in T THEN 1 ELSE 0)
<1>1. IsFiniteSet(S \ {w}) /\ Cardinality(S \ {w}) \in Nat /\ Cardinality(S) \in Nat
  BY FS_RemoveElement, FS_CardinalityType
<1>2. w \notin S \ {w}
  OBVIOUS
<1>3. /\ IsFiniteSet((S \ {w}) \cup {w})
      /\ Cardinality((S \ {w}) \cup {w}) = Cardinality(S \ {w}) + 1
  BY <1>1, <1>2, FS_AddElement
<1>4. ASSUME NEW U, U \ {w} = S \ {w}
      PROVE  IsFiniteSet(U) /\ Cardinality(U) = Cardinality(S \ {w}) + IF w \in U THEN 1 ELSE 0
  <2>1. CASE w \in U
    <3>1. U = (S \ {w}) \cup {w}
      BY <1>4, <2>1
    <3> QED BY <1>3, <2>1, <3>1
  <2>2. CASE w \notin U
    <3>1. U = S \ {w}
      BY <1>4, <2>2
    <3>2. Cardinality(U) = Cardinality(S \ {w}) /\ IsFiniteSet(U)
      BY <1>1, <3>1
    <3> QED BY <1>1, <2>2, <3>2
  <2> QED BY <2>1, <2>2
<1>5. /\ Cardinality(S) = Cardinality(S \ {w}) + IF w \in S THEN 1 ELSE 0
      /\ IsFiniteSet(T) /\ Cardinality(T) = Cardinality(S \ {w}) + IF w \in T THEN 1 ELSE 0
  BY <1>4
<1> QED BY <1>1, <1>5

OpenOf(s, m, c) == IF MaySend(s, m, c) THEN 1 ELSE 0

PlannedOf(j, m, c) == IF JobMaySend(j, m, c) THEN 1 ELSE 0

LEMMA Becoming ==
  ASSUME TypeInv, NEW w \in Workers, NEW s, Become(w, s)
  PROVE  worker'[w] = s /\ \A v \in Workers \ {w} : worker'[v] = worker[v]
BY DEF Become, TypeInv, TypeOK

LEMMA OpenMoves ==
  ASSUME TypeInv, NEW w \in Workers, NEW s, Become(w, s), NEW m, NEW c, IsFiniteSet(Open(m, c))
  PROVE  /\ IsFiniteSet(Open(m, c)') /\ Cardinality(Open(m, c)') \in Nat
         /\ Cardinality(Open(m, c)) \in Nat
         /\ Cardinality(Open(m, c)') + OpenOf(worker[w], m, c)
              = Cardinality(Open(m, c)) + OpenOf(s, m, c)
<1>1. worker'[w] = s /\ \A v \in Workers \ {w} : worker'[v] = worker[v]
  BY Becoming
<1>2. Open(m, c)' = {v \in Workers : MaySend(worker'[v], m, c)}
  BY DEF Open, MaySend, SendCommand
<1>3. Open(m, c)' \ {w} = Open(m, c) \ {w}
  BY <1>1, <1>2 DEF Open
<1>4. /\ w \in Open(m, c) <=> MaySend(worker[w], m, c)
      /\ w \in Open(m, c)' <=> MaySend(s, m, c)
  BY <1>1, <1>2 DEF Open
<1>5. /\ IsFiniteSet(Open(m, c)') /\ Cardinality(Open(m, c)') \in Nat
      /\ Cardinality(Open(m, c)) \in Nat
      /\ Cardinality(Open(m, c)') + (IF w \in Open(m, c) THEN 1 ELSE 0)
           = Cardinality(Open(m, c)) + (IF w \in Open(m, c)' THEN 1 ELSE 0)
  BY <1>3, SetMove
<1> QED BY <1>4, <1>5 DEF OpenOf

JobBecomes(j, new) == job' = [job EXCEPT ![j] = new]

LEMMA PlannedMoves ==
  ASSUME TypeInv, NEW j \in JobIds, NEW new, JobBecomes(j, new), NEW m, NEW c,
         IsFiniteSet(Planned(m, c))
  PROVE  /\ IsFiniteSet(Planned(m, c)') /\ Cardinality(Planned(m, c)') \in Nat
         /\ Cardinality(Planned(m, c)) \in Nat
         /\ Cardinality(Planned(m, c)') + PlannedOf(job[j], m, c)
              = Cardinality(Planned(m, c)) + PlannedOf(new, m, c)
<1>1. job'[j] = new /\ \A i \in JobIds \ {j} : job'[i] = job[i]
  BY DEF TypeInv, TypeOK, JobBecomes
<1>2. Planned(m, c)' = {i \in JobIds : JobMaySend(job'[i], m, c)}
  BY DEF Planned, JobMaySend
<1>3. Planned(m, c)' \ {j} = Planned(m, c) \ {j}
  BY <1>1, <1>2 DEF Planned
<1>4. /\ j \in Planned(m, c) <=> JobMaySend(job[j], m, c)
      /\ j \in Planned(m, c)' <=> JobMaySend(new, m, c)
  BY <1>1, <1>2 DEF Planned
<1>5. /\ IsFiniteSet(Planned(m, c)') /\ Cardinality(Planned(m, c)') \in Nat
      /\ Cardinality(Planned(m, c)) \in Nat
      /\ Cardinality(Planned(m, c)') + (IF j \in Planned(m, c) THEN 1 ELSE 0)
           = Cardinality(Planned(m, c)) + (IF j \in Planned(m, c)' THEN 1 ELSE 0)
  BY <1>3, SetMove
<1> QED BY <1>4, <1>5 DEF PlannedOf

LEMMA PlannedKept ==
  ASSUME NEW m, NEW c, \A i \in JobIds : SameJob(job'[i], job[i])
  PROVE  Planned(m, c)' = Planned(m, c)
<1>1. Planned(m, c)' = {i \in JobIds : JobMaySend(job'[i], m, c)}
  BY DEF Planned, JobMaySend
<1>2. \A i \in JobIds : JobMaySend(job'[i], m, c) <=> JobMaySend(job[i], m, c)
  BY DEF JobMaySend, SameJob
<1> QED BY <1>1, <1>2 DEF Planned

LEMMA CountsNat ==
  ASSUME TypeInv
  PROVE  /\ \A m \in Msg, c \in Channels : accepted[m][c] \in Nat
         /\ \A cmd \in Command : ready[cmd] \in Nat
         /\ \A m \in Msg, c \in Channels : ready[SendCommand(c, m)] \in Nat
         /\ Disturbances \in Nat
BY Kinds DEF TypeInv, TypeOK, Disturbances

LEMMA CountsNatNext ==
  ASSUME TypeInv'
  PROVE  /\ \A m \in Msg, c \in Channels : accepted'[m][c] \in Nat
         /\ \A m \in Msg, c \in Channels : ready'[SendCommand(c, m)] \in Nat
         /\ Disturbances' \in Nat
<1>1. /\ accepted' \in [Msg -> [Channels -> Nat]] /\ ready' \in [Command -> Nat]
      /\ spent' \in [faults : Nat, resends : Nat, deletes : Nat, requests : [Msg -> Nat],
                     kinds : SUBSET FaultKinds]
  BY DEF TypeInv, TypeOK
<1> QED BY <1>1, Kinds DEF Disturbances

\* A step of one consumer that pays for what it adds; owed is the change of the
\* planned jobs.
LEMMA PaidStep ==
  ASSUME TypeInv, TypeInv', NEW w \in Workers, NEW s, Become(w, s), NEW m \in Msg,
         NEW c \in Channels, PaidFor(m, c), NEW owed \in Nat,
         IsFiniteSet(Planned(m, c)'),
         Cardinality(Planned(m, c)') = Cardinality(Planned(m, c)) + owed,
         accepted'[m][c] + Unborn(row'[m]) + OpenOf(s, m, c) + owed
              + ready'[SendCommand(c, m)] + Disturbances
           <= accepted[m][c] + Unborn(row[m]) + OpenOf(worker[w], m, c)
                + ready[SendCommand(c, m)] + Disturbances'
  PROVE  PaidFor(m, c)'
<1>1. /\ IsFiniteSet(Open(m, c)) /\ IsFiniteSet(Planned(m, c))
      /\ accepted[m][c] + Unborn(row[m]) + Cardinality(Open(m, c)) + Cardinality(Planned(m, c))
           + ready[SendCommand(c, m)] <= 1 + Disturbances
  BY DEF PaidFor
<1>2. /\ IsFiniteSet(Open(m, c)') /\ Cardinality(Open(m, c)') \in Nat
      /\ Cardinality(Open(m, c)) \in Nat
      /\ Cardinality(Open(m, c)') + OpenOf(worker[w], m, c)
           = Cardinality(Open(m, c)) + OpenOf(s, m, c)
  BY <1>1, OpenMoves
<1>3. Cardinality(Planned(m, c)) \in Nat
  BY <1>1, FS_CardinalityType
<1>4. /\ accepted[m][c] \in Nat /\ accepted'[m][c] \in Nat
      /\ ready[SendCommand(c, m)] \in Nat /\ ready'[SendCommand(c, m)] \in Nat
      /\ Disturbances \in Nat /\ Disturbances' \in Nat
  BY CountsNat, CountsNatNext
<1>5. /\ OpenOf(s, m, c) \in Nat /\ OpenOf(worker[w], m, c) \in Nat
      /\ Unborn(row[m]) \in Nat /\ Unborn(row'[m]) \in Nat
  BY DEF OpenOf, Unborn
<1>6. accepted'[m][c] + Unborn(row'[m]) + Cardinality(Open(m, c)') + Cardinality(Planned(m, c)')
        + ready'[SendCommand(c, m)] <= 1 + Disturbances'
  BY <1>1, <1>2, <1>3, <1>4, <1>5
<1>7. Unborn(row[m])' = Unborn(row'[m]) /\ SendCommand(c, m)' = SendCommand(c, m)
  BY DEF Unborn, SendCommand
<1> QED BY <1>1, <1>2, <1>6, <1>7 DEF PaidFor

LEMMA PaidMove ==
  ASSUME TypeInv, TypeInv', NEW w \in Workers, NEW s, Become(w, s), NEW m \in Msg,
         NEW c \in Channels, PaidFor(m, c), \A i \in JobIds : SameJob(job'[i], job[i]),
         accepted'[m][c] + Unborn(row'[m]) + OpenOf(s, m, c)
              + ready'[SendCommand(c, m)] + Disturbances
           <= accepted[m][c] + Unborn(row[m]) + OpenOf(worker[w], m, c)
                + ready[SendCommand(c, m)] + Disturbances'
  PROVE  PaidFor(m, c)'
<1>1. IsFiniteSet(Planned(m, c)) /\ Planned(m, c)' = Planned(m, c)
  BY PlannedKept DEF PaidFor
<1>2. Cardinality(Planned(m, c)) \in Nat
  BY <1>1, FS_CardinalityType
<1>3. IsFiniteSet(Planned(m, c)') /\ Cardinality(Planned(m, c)') = Cardinality(Planned(m, c)) + 0
  BY <1>1, <1>2
<1>4. /\ accepted[m][c] \in Nat /\ accepted'[m][c] \in Nat
      /\ ready[SendCommand(c, m)] \in Nat /\ ready'[SendCommand(c, m)] \in Nat
      /\ Disturbances \in Nat /\ Disturbances' \in Nat
  BY CountsNat, CountsNatNext
<1>5. /\ OpenOf(s, m, c) \in Nat /\ OpenOf(worker[w], m, c) \in Nat
      /\ Unborn(row[m]) \in Nat /\ Unborn(row'[m]) \in Nat
  BY DEF OpenOf, Unborn
<1>6. accepted'[m][c] + Unborn(row'[m]) + OpenOf(s, m, c) + 0
              + ready'[SendCommand(c, m)] + Disturbances
           <= accepted[m][c] + Unborn(row[m]) + OpenOf(worker[w], m, c)
                + ready[SendCommand(c, m)] + Disturbances'
  BY <1>4, <1>5
<1> QED BY <1>3, <1>6, PaidStep

\* A step that no consumer makes and that changes no row.
LEMMA PaidRest ==
  ASSUME TypeInv, TypeInv', UNCHANGED <<row, worker, accepted>>, NEW m \in Msg,
         NEW c \in Channels, PaidFor(m, c), NEW before \in Nat, NEW after \in Nat,
         IsFiniteSet(Planned(m, c)'), Cardinality(Planned(m, c)') \in Nat,
         Cardinality(Planned(m, c)') + before = Cardinality(Planned(m, c)) + after,
         after + ready'[SendCommand(c, m)] + Disturbances
           <= before + ready[SendCommand(c, m)] + Disturbances'
  PROVE  PaidFor(m, c)'
<1>1. /\ IsFiniteSet(Open(m, c)) /\ IsFiniteSet(Planned(m, c))
      /\ accepted[m][c] + Unborn(row[m]) + Cardinality(Open(m, c)) + Cardinality(Planned(m, c))
           + ready[SendCommand(c, m)] <= 1 + Disturbances
  BY DEF PaidFor
<1>2. Open(m, c)' = Open(m, c)
  BY DEF Open, MaySend, SendCommand
<1>3. Cardinality(Planned(m, c)) \in Nat /\ Cardinality(Open(m, c)) \in Nat
  BY <1>1, FS_CardinalityType
<1>4. /\ accepted[m][c] \in Nat
      /\ ready[SendCommand(c, m)] \in Nat /\ ready'[SendCommand(c, m)] \in Nat
      /\ Disturbances \in Nat /\ Disturbances' \in Nat /\ Unborn(row[m]) \in Nat
  BY CountsNat, CountsNatNext DEF Unborn
<1>5. accepted[m][c] + Unborn(row[m]) + Cardinality(Open(m, c)) + Cardinality(Planned(m, c)')
        + ready'[SendCommand(c, m)] <= 1 + Disturbances'
  BY <1>1, <1>3, <1>4
<1>6. Unborn(row[m])' = Unborn(row[m]) /\ SendCommand(c, m)' = SendCommand(c, m)
  BY DEF Unborn, SendCommand
<1>7. Cardinality(Open(m, c)') = Cardinality(Open(m, c)) /\ IsFiniteSet(Open(m, c)')
  BY <1>1, <1>2
<1> QED BY <1>5, <1>6, <1>7 DEF PaidFor

\* What a fault costs.
LEMMA FaultCosts ==
  ASSUME TypeInv, NEW kind, Fault(kind)
  PROVE  /\ Disturbances' = Disturbances + 1 /\ Disturbances \in Nat
         /\ spent'.deletes = spent.deletes
<1>1. Pays(1)
  BY FaultPays
<1>2. spent.faults \in Nat /\ spent.resends \in Nat
  BY DEF TypeInv, TypeOK
<1> QED BY <1>1, <1>2 DEF Pays, Disturbances

LEMMA NoCost ==
  ASSUME TypeInv, UNCHANGED spent
  PROVE  /\ Disturbances' = Disturbances /\ Disturbances \in Nat
         /\ spent'.deletes = spent.deletes
BY CountsNat DEF Disturbances

Charged == UNCHANGED spent \/ \E kind : Fault(kind)

LEMMA ChargedCosts ==
  ASSUME TypeInv, Charged
  PROVE  Disturbances' >= Disturbances /\ Disturbances \in Nat /\ spent'.deletes = spent.deletes
<1>1. CASE UNCHANGED spent
  BY <1>1, NoCost
<1>2. CASE \E kind : Fault(kind)
  BY <1>2, FaultCosts
<1> QED BY <1>1, <1>2 DEF Charged

\* A step of one consumer is about its message alone.
About(w, s) ==
  /\ worker[w] # Idle /\ Become(w, s) /\ (s # Idle => s.cmd = worker[w].cmd)
  /\ \A m \in Msg \ {MessageOf(w)} :
       /\ row'[m] = row[m] /\ accepted'[m] = accepted[m]
       /\ \A c \in Channels : /\ ready'[SendCommand(c, m)] = ready[SendCommand(c, m)]
                              /\ Planned(m, c)' = Planned(m, c)
  /\ Charged

LEMMA AboutRow ==
  ASSUME TypeInv, NEW w \in Workers, worker[w] # Idle, NEW s, Become(w, s),
         s # Idle => s.cmd = worker[w].cmd,
         NEW new, UNCHANGED row \/ row' = [row EXCEPT ![MessageOf(w)] = new],
         UNCHANGED accepted, UNCHANGED ready, \A i \in JobIds : SameJob(job'[i], job[i]),
         Charged
  PROVE  About(w, s)
<1>1. ASSUME NEW m \in Msg \ {MessageOf(w)} PROVE row'[m] = row[m]
  BY DEF TypeInv, TypeOK
<1>2. \A m, c : Planned(m, c)' = Planned(m, c)
  BY PlannedKept
<1> QED BY <1>1, <1>2 DEF About

LEMMA SameJobs == UNCHANGED job => \A i \in JobIds : SameJob(job'[i], job[i])
BY DEF SameJob

LEMMA OthersOneHandler ==
  ASSUME TypeInv, NEW w \in Workers, NEW s, About(w, s), NEW m \in Msg \ {MessageOf(w)},
         OneHandler(m)
  PROVE  OneHandler(m)'
<1>1. worker'[w] = s /\ \A v \in Workers \ {w} : worker'[v] = worker[v]
  BY Becoming DEF About
<1>2. ~Handling(worker'[w], m) /\ row'[m] = row[m]
  BY <1>1 DEF About, Handling, MessageOf
<1>3. \A v \in Workers : Handling(worker'[v], m) => Handling(worker[v], m)
  BY <1>1, <1>2
<1>4. /\ \A v \in Workers : Handling(worker'[v], m) => row'[m] # NoRow
      /\ \A u, v \in Workers : Handling(worker'[u], m) /\ Handling(worker'[v], m) => u = v
  BY <1>2, <1>3 DEF OneHandler
<1> QED BY <1>4 DEF OneHandler, Handling

LEMMA OthersPaid ==
  ASSUME TypeInv, TypeInv', NEW w \in Workers, NEW s, About(w, s),
         NEW m \in Msg \ {MessageOf(w)}, NEW c \in Channels, PaidFor(m, c)
  PROVE  PaidFor(m, c)'
<1>1. OpenOf(s, m, c) = 0 /\ OpenOf(worker[w], m, c) = 0
  BY DEF OpenOf, MaySend, About, MessageOf
<1>2. /\ row'[m] = row[m] /\ accepted'[m][c] = accepted[m][c]
      /\ ready'[SendCommand(c, m)] = ready[SendCommand(c, m)]
      /\ Planned(m, c)' = Planned(m, c) /\ Become(w, s)
  BY DEF About
<1>3. Disturbances' >= Disturbances /\ Disturbances \in Nat /\ Disturbances' \in Nat
  BY ChargedCosts, CountsNatNext DEF About
<1>4. /\ accepted[m][c] \in Nat /\ ready[SendCommand(c, m)] \in Nat /\ Unborn(row[m]) \in Nat
  BY CountsNat DEF Unborn
<1>5. IsFiniteSet(Planned(m, c)) /\ Cardinality(Planned(m, c)) \in Nat
  BY FS_CardinalityType DEF PaidFor
<1>6. IsFiniteSet(Planned(m, c)') /\ Cardinality(Planned(m, c)') = Cardinality(Planned(m, c)) + 0
  BY <1>2, <1>5
<1>7. accepted'[m][c] + Unborn(row'[m]) + OpenOf(s, m, c) + 0
              + ready'[SendCommand(c, m)] + Disturbances
           <= accepted[m][c] + Unborn(row[m]) + OpenOf(worker[w], m, c)
                + ready[SendCommand(c, m)] + Disturbances'
  BY <1>1, <1>2, <1>3, <1>4
<1> QED BY <1>2, <1>6, <1>7, PaidStep

LEMMA OnceStep ==
  ASSUME TypeInv, TypeInv', OnceInv, NEW w \in Workers, NEW s, About(w, s),
         s # Idle /\ s.step = "schedule" => MessageOf(w) \in Due,
         s # Idle /\ s.step \in DeleteSteps =>
           worker[w].step \in DeleteSteps \/ worker[w].cmd \in Deletes,
         \A cmd \in Deletes : ready'[cmd] = ready[cmd] \/ cmd = worker[w].cmd,
         NEW m \in Msg, m = MessageOf(w),
         Undeleted(m) => OneHandler(m)',
         Undeleted(m) => \A c \in Channels : PaidFor(m, c)'
  PROVE  OnceInv'
<1>1. worker'[w] = s /\ \A v \in Workers \ {w} : worker'[v] = worker[v]
  BY Becoming DEF About
<1>2. spent'.deletes = spent.deletes /\ worker[w] # Idle /\ (s # Idle => s.cmd = worker[w].cmd)
  BY ChargedCosts DEF About
<1>3. DeletesInv'
  <2>1. ASSUME spent.deletes = 0 PROVE \A cmd \in Deletes : ready'[cmd] = 0
    BY <1>2, <2>1 DEF OnceInv, DeletesInv
  <2>2. ASSUME spent.deletes = 0, NEW v \in Workers, worker'[v] # Idle
        PROVE  worker'[v].cmd \notin Deletes /\ worker'[v].step \notin DeleteSteps
    <3>1. CASE v = w
      BY <1>1, <1>2, <2>2, <3>1 DEF OnceInv, DeletesInv
    <3>2. CASE v # w
      BY <1>1, <2>2, <3>2 DEF OnceInv, DeletesInv
    <3> QED BY <3>1, <3>2
  <2> QED BY <1>2, <2>1, <2>2 DEF DeletesInv
<1>4. JobsForDue'
  <2>1. ASSUME NEW v \in Workers, worker'[v] # Idle, worker'[v].step = "schedule"
        PROVE  worker'[v].cmd.msg \in Due
    BY <1>1, <1>2, <2>1 DEF OnceInv, JobsForDue, MessageOf
  <2> QED BY <2>1 DEF JobsForDue, MessageOf
<1>5. ASSUME NEW n \in Msg, Undeleted(n)' PROVE OneHandler(n)' /\ \A c \in Channels : PaidFor(n, c)'
  <2>1. Undeleted(n)
    BY <1>2, <1>5 DEF Undeleted
  <2>2. CASE n = m
    BY <2>1, <2>2
  <2>3. CASE n # m
    <3>1. OneHandler(n) /\ \A c \in Channels : PaidFor(n, c)
      BY <2>1 DEF OnceInv
    <3> QED BY <2>3, <3>1, OthersOneHandler, OthersPaid
  <2> QED BY <2>2, <2>3
<1> QED BY <1>3, <1>4, <1>5 DEF OnceInv

\* The handlers of m after a step of one consumer.
LEMMA HandlerStep ==
  ASSUME TypeInv, NEW w \in Workers, NEW s, Become(w, s), NEW m \in Msg, OneHandler(m),
         Handling(s, m) => (Handling(worker[w], m) \/ row[m] = NoRow) /\ row'[m] # NoRow,
         row'[m] = NoRow => row[m] = NoRow \/ Handling(worker[w], m)
  PROVE  OneHandler(m)'
<1>1. worker'[w] = s /\ \A v \in Workers \ {w} : worker'[v] = worker[v]
  BY Becoming
<1>2. ASSUME NEW v \in Workers, Handling(worker'[v], m) PROVE row'[m] # NoRow
  BY <1>1, <1>2 DEF OneHandler
<1>3. ASSUME NEW u \in Workers, NEW v \in Workers, Handling(worker'[u], m),
             Handling(worker'[v], m)
      PROVE  u = v
  BY <1>1, <1>3 DEF OneHandler
<1>4. /\ \A v \in Workers : Handling(worker'[v], m) => row'[m] # NoRow
      /\ \A u, v \in Workers : Handling(worker'[u], m) /\ Handling(worker'[v], m) => u = v
  BY <1>2, <1>3
<1> QED BY <1>4 DEF OneHandler, Handling

LEMMA IdleOwes == \A m, c : OpenOf(Idle, m, c) = 0
BY DEF OpenOf, MaySend

LEMMA OpenIsBit == \A s, m, c : OpenOf(s, m, c) = 0 \/ OpenOf(s, m, c) = 1
BY DEF OpenOf

\* Who starts again may send only what his command asks for.
LEMMA RestartOwes ==
  ASSUME NEW o, o.cmd \in Command, NEW s, Restarts(o, s), NEW m \in Msg, NEW c \in Channels
  PROVE  OpenOf(s, m, c) = 0 \/ (OpenOf(s, m, c) = 1 /\ o.cmd = SendCommand(c, m))
<1>1. s # Idle => s.cmd = o.cmd /\ s.step \in {"isExist", "load"}
  BY DEF Restarts, FirstStep
<1> QED BY <1>1 DEF OpenOf, MaySend

LEMMA RestartedRequest ==
  ASSUME NEW o, NEW m \in Msg, o.cmd = RequestOf(m), NEW s, Restarts(o, s)
  PROVE  \A c \in Channels : OpenOf(s, m, c) = 0
<1>1. o.cmd \in Command /\ \A c \in Channels : o.cmd # SendCommand(c, m)
  BY Kinds DEF RequestOf, SendCommand
<1> QED BY <1>1, RestartOwes

LEMMA RestartedHandles ==
  ASSUME NEW o, NEW s, Restarts(o, s)
  PROVE  /\ \A m : ~Handling(s, m)
         /\ s # Idle => /\ s.step \notin {"schedule"} /\ s.step \notin DeleteSteps
                        /\ s.cmd = o.cmd
BY DEF Restarts, FirstStep, Handling, DeleteSteps

\* A step that sends nothing costs nothing.
LEMMA PaidQuiet ==
  ASSUME TypeInv, TypeInv', NEW w \in Workers, NEW s, Become(w, s), NEW m \in Msg,
         NEW c \in Channels, PaidFor(m, c), \A i \in JobIds : SameJob(job'[i], job[i]),
         UNCHANGED <<accepted, ready>>, Unborn(row'[m]) <= Unborn(row[m]), Charged,
         OpenOf(s, m, c) <= OpenOf(worker[w], m, c) \/ \E kind : Fault(kind)
  PROVE  PaidFor(m, c)'
<1>1. /\ accepted[m][c] \in Nat /\ ready[SendCommand(c, m)] \in Nat
      /\ Unborn(row[m]) \in Nat /\ Unborn(row'[m]) \in Nat
  BY CountsNat DEF Unborn
<1>2. Disturbances' >= Disturbances /\ Disturbances \in Nat /\ Disturbances' \in Nat
  BY ChargedCosts, CountsNatNext
<1>3. OpenOf(s, m, c) <= OpenOf(worker[w], m, c) \/ Disturbances' = Disturbances + 1
  BY FaultCosts
<1>4. /\ OpenOf(s, m, c) = 0 \/ OpenOf(s, m, c) = 1
      /\ OpenOf(worker[w], m, c) = 0 \/ OpenOf(worker[w], m, c) = 1
  BY OpenIsBit
<1>5. accepted'[m][c] + Unborn(row'[m]) + OpenOf(s, m, c)
              + ready'[SendCommand(c, m)] + Disturbances
           <= accepted[m][c] + Unborn(row[m]) + OpenOf(worker[w], m, c)
                + ready[SendCommand(c, m)] + Disturbances'
  BY <1>1, <1>2, <1>3, <1>4
<1> QED BY <1>5, PaidMove

LEMMA OwnOnce ==
  ASSUME OnceInv, NEW m \in Msg, Undeleted(m)
  PROVE  OneHandler(m) /\ \A c \in Channels : PaidFor(m, c)
BY DEF OnceInv

LEMMA IsExistOnce ==
  ASSUME TypeInv, TypeInv', OnceInv, NEW w \in Workers, IsExist(w)
  PROVE  OnceInv'
<1>1. /\ worker[w] # Idle /\ worker[w].step = "isExist"
      /\ UNCHANGED <<row, ready, job, accepted, reported, spent>>
  BY IsExistShape
<1>2. PICK s : Become(w, s) /\ (s = Idle \/ Goes(worker[w], s, "add"))
  BY IsExistShape
<1> PICK m : m = MessageOf(w)
  OBVIOUS
<1>3. m \in Msg
  BY <1>1, BusyFacts DEF TypeInv
<1>4. About(w, s)
  BY <1>1, <1>2, AboutRow, SameJobs DEF Goes, Charged
<1>5. ~Handling(s, m)
  BY <1>2 DEF Goes, Handling
<1>6. ASSUME Undeleted(m) PROVE OneHandler(m)'
  BY <1>1, <1>2, <1>3, <1>5, <1>6, OwnOnce, HandlerStep
<1>7. ASSUME Undeleted(m), NEW c \in Channels PROVE PaidFor(m, c)'
  <2>1. OpenOf(s, m, c) = 0
    BY <1>2 DEF OpenOf, MaySend, Goes
  <2>2. OpenOf(s, m, c) <= OpenOf(worker[w], m, c) /\ Unborn(row'[m]) <= Unborn(row[m])
    BY <1>1, <2>1, OpenIsBit DEF Unborn
  <2> QED BY <1>1, <1>2, <1>3, <1>7, <2>2, OwnOnce, PaidQuiet, SameJobs DEF Charged
<1> QED BY <1>1, <1>2, <1>3, <1>4, <1>6, <1>7, OnceStep DEF Goes, DeleteSteps

LEMMA AddRowOnce ==
  ASSUME TypeInv, TypeInv', StepsInv, OnceInv, NEW w \in Workers, AddRow(w)
  PROVE  OnceInv'
<1>1. /\ worker[w] # Idle /\ worker[w].step = "add"
      /\ UNCHANGED <<ready, job, accepted, reported>>
  BY AddRowShape
<1> PICK m : m = MessageOf(w)
  OBVIOUS
<1>2. m \in Msg /\ worker[w].cmd = RequestOf(m)
  BY <1>1, BusyFacts DEF TypeInv, StepsInv, InPlace, RequestSteps, MessageOf
<1>3. PICK s :
        /\ Become(w, s)
        /\ \/ /\ row[MessageOf(w)] = NoRow
              /\ row' = [row EXCEPT ![MessageOf(w)] = NewRow] /\ UNCHANGED spent
              /\ \/ /\ MessageOf(w) \in Due /\ Goes(worker[w], s, "schedule")
                    /\ s.snap = NewRow
                 \/ /\ MessageOf(w) \notin Due /\ Goes(worker[w], s, "save")
                    /\ s.snap = EnqueuedRow(NewRow, NoJob)
           \/ /\ Restarts(worker[w], s) /\ UNCHANGED row
              /\ UNCHANGED spent \/ Fault("database")
  BY AddRowShape
<1>4. CASE Restarts(worker[w], s) /\ UNCHANGED row /\ (UNCHANGED spent \/ Fault("database"))
  <2>1. Charged
    BY <1>4 DEF Charged
  <2>2. About(w, s)
    BY <1>1, <1>3, <1>4, <2>1, AboutRow, SameJobs, RestartedHandles
  <2>3. ASSUME Undeleted(m) PROVE OneHandler(m)'
    BY <1>1, <1>2, <1>3, <1>4, <2>3, RestartedHandles, OwnOnce, HandlerStep
  <2>4. ASSUME Undeleted(m), NEW c \in Channels PROVE PaidFor(m, c)'
    <3>1. OpenOf(s, m, c) = 0
      BY <1>2, <1>4, RestartedRequest
    <3>2. OpenOf(s, m, c) <= OpenOf(worker[w], m, c) /\ Unborn(row'[m]) <= Unborn(row[m])
      BY <1>4, <3>1, OpenIsBit DEF Unborn
    <3> QED BY <1>1, <1>2, <1>3, <2>1, <2>4, <3>2, OwnOnce, PaidQuiet, SameJobs
  <2> QED BY <1>1, <1>2, <1>4, <2>2, <2>3, <2>4, OnceStep, RestartedHandles
<1>5. CASE /\ row[MessageOf(w)] = NoRow
           /\ row' = [row EXCEPT ![MessageOf(w)] = NewRow] /\ UNCHANGED spent
           /\ \/ MessageOf(w) \in Due /\ Goes(worker[w], s, "schedule")
              \/ MessageOf(w) \notin Due /\ Goes(worker[w], s, "save")
  <2>1. Charged
    BY <1>5 DEF Charged
  <2>2. About(w, s)
    BY <1>1, <1>3, <1>5, <2>1, AboutRow, SameJobs DEF Goes
  <2>3. row[m] = NoRow /\ row'[m] = NewRow /\ NewRow # NoRow
    BY <1>2, <1>5, RowValues, DispatchAssumption DEF TypeInv, TypeOK
  <2>4. ASSUME Undeleted(m) PROVE OneHandler(m)'
    BY <1>2, <1>3, <2>3, <2>4, OwnOnce, HandlerStep
  <2>5. ASSUME Undeleted(m), NEW c \in Channels PROVE PaidFor(m, c)'
    <3>1. OpenOf(worker[w], m, c) = 0
      BY <1>1, <1>2, Kinds DEF OpenOf, MaySend
    <3>2. OpenOf(s, m, c) = 0 \/ OpenOf(s, m, c) = 1
      BY OpenIsBit
    <3>3. Unborn(row[m]) = 1 /\ Unborn(row'[m]) = 0
      BY <2>3 DEF Unborn
    <3>4. /\ accepted[m][c] \in Nat /\ ready[SendCommand(c, m)] \in Nat
          /\ Disturbances \in Nat /\ Disturbances' = Disturbances
      BY <1>2, <1>5, CountsNat, NoCost
    <3>5. accepted'[m][c] + Unborn(row'[m]) + OpenOf(s, m, c)
                + ready'[SendCommand(c, m)] + Disturbances
             <= accepted[m][c] + Unborn(row[m]) + OpenOf(worker[w], m, c)
                  + ready[SendCommand(c, m)] + Disturbances'
      BY <1>1, <3>1, <3>2, <3>3, <3>4
    <3> QED BY <1>1, <1>2, <1>3, <2>5, <3>5, OwnOnce, PaidMove, SameJobs
  <2> QED BY <1>1, <1>2, <1>5, <2>2, <2>4, <2>5, OnceStep DEF Goes, DeleteSteps
<1> QED BY <1>3, <1>4, <1>5

LEMMA ScheduleOnce ==
  ASSUME TypeInv, TypeInv', OnceInv, NEW w \in Workers, ScheduleJob(w)
  PROVE  OnceInv'
<1>1. /\ worker[w] # Idle /\ worker[w].step = "schedule"
      /\ UNCHANGED <<row, ready, accepted, reported>>
  BY ScheduleShape
<1> PICK m : m = MessageOf(w)
  OBVIOUS
<1>2. m \in Msg /\ m \in Due
  BY <1>1, BusyFacts DEF TypeInv, OnceInv, JobsForDue
<1>3. PICK s :
        /\ Become(w, s)
        /\ \/ /\ UNCHANGED spent /\ Goes(worker[w], s, "save")
              /\ \E j \in JobIds : /\ job[j] = NoJob
                                   /\ job' = [job EXCEPT ![j] = JobFor(MessageOf(w))]
                                   /\ s.snap = EnqueuedRow(worker[w].snap, j)
           \/ /\ Fault("job") /\ UNCHANGED job /\ Goes(worker[w], s, "catch")
              /\ s.snap = worker[w].snap
  BY ScheduleShape
<1>4. Handling(worker[w], m) /\ worker[w].cmd.msg = m
  BY <1>1 DEF Handling, MessageOf
<1>5. s # Idle /\ s.cmd = worker[w].cmd /\ s.step \in {"save", "catch"} /\ Become(w, s)
  BY <1>3 DEF Goes
<1>6. ASSUME Undeleted(m) PROVE OneHandler(m)' /\ OneHandler(m)
  <2>1. OneHandler(m)
    BY <1>2, <1>6, OwnOnce
  <2>2. row[m] # NoRow
    BY <1>4, <2>1 DEF OneHandler
  <2> QED BY <1>1, <1>2, <1>4, <1>5, <2>1, <2>2, HandlerStep
<1>7. \A c : OpenOf(worker[w], m, c) = 1
  BY <1>1, <1>4 DEF OpenOf, MaySend
<1>8. CASE Fault("job") /\ UNCHANGED job
  <2>1. Charged
    BY <1>8 DEF Charged
  <2>2. About(w, s)
    BY <1>1, <1>5, <1>8, <2>1, AboutRow, SameJobs
  <2>3. ASSUME Undeleted(m), NEW c \in Channels PROVE PaidFor(m, c)'
    BY <1>1, <1>2, <1>5, <1>8, <2>1, <2>3, OwnOnce, PaidQuiet, SameJobs DEF Unborn
  <2> QED BY <1>1, <1>2, <1>5, <1>6, <2>2, <2>3, OnceStep DEF DeleteSteps
<1>9. CASE /\ UNCHANGED spent /\ Goes(worker[w], s, "save")
           /\ \E j \in JobIds : /\ job[j] = NoJob
                                /\ job' = [job EXCEPT ![j] = JobFor(MessageOf(w))]
  <2>1. Charged
    BY <1>9 DEF Charged
  <2>2. PICK j \in JobIds : job[j] = NoJob /\ job' = [job EXCEPT ![j] = JobFor(m)]
    BY <1>9
  <2>3. /\ job'[j] = JobFor(m) /\ \A i \in JobIds \ {j} : job'[i] = job[i]
    BY <2>2 DEF TypeInv, TypeOK
  <2>4. ASSUME NEW n \in Msg \ {m}, NEW c PROVE Planned(n, c)' = Planned(n, c)
    <3>1. Planned(n, c)' = {i \in JobIds : JobMaySend(job'[i], n, c)}
      BY DEF Planned, JobMaySend
    <3>2. ~JobMaySend(job[j], n, c) /\ ~JobMaySend(job'[j], n, c)
      BY <2>2, <2>3 DEF JobMaySend, JobFor
    <3> QED BY <2>3, <3>1, <3>2 DEF Planned
  <2>5. About(w, s)
    BY <1>1, <1>5, <2>1, <2>4 DEF About
  <2>6. ASSUME Undeleted(m), NEW c \in Channels PROVE PaidFor(m, c)'
    <3>1. PaidFor(m, c)
      BY <1>2, <2>6, OwnOnce
    <3>2. JobFor(m) # NoJob
      <4>1. JobFor(m) \in Job
        BY <1>2 DEF Job, JobFor
      <4> QED BY <4>1, DispatchAssumption
    <3>3. PlannedOf(job[j], m, c) = 0 /\ PlannedOf(JobFor(m), m, c) = 1
      BY <2>2, <3>2 DEF PlannedOf, JobMaySend, JobFor
    <3>4. /\ IsFiniteSet(Planned(m, c)') /\ Cardinality(Planned(m, c)') \in Nat
          /\ Cardinality(Planned(m, c)) \in Nat
          /\ Cardinality(Planned(m, c)') + PlannedOf(job[j], m, c)
               = Cardinality(Planned(m, c)) + PlannedOf(JobFor(m), m, c)
      <4>1. IsFiniteSet(Planned(m, c))
        BY <3>1 DEF PaidFor
      <4>2. JobBecomes(j, JobFor(m))
        BY <2>2 DEF JobBecomes
      <4> QED BY <4>1, <4>2, PlannedMoves
    <3>5. Cardinality(Planned(m, c)') = Cardinality(Planned(m, c)) + 1
      BY <3>3, <3>4
    <3>6. OpenOf(s, m, c) = 0
      BY <1>2, <1>5, <1>9, <1>4 DEF OpenOf, MaySend, Goes
    <3>7. /\ accepted[m][c] \in Nat /\ ready[SendCommand(c, m)] \in Nat
          /\ Disturbances \in Nat /\ Disturbances' = Disturbances /\ Unborn(row[m]) \in Nat
      BY <1>2, <1>9, CountsNat, NoCost DEF Unborn
    <3>8. accepted'[m][c] + Unborn(row'[m]) + OpenOf(s, m, c) + 1
                + ready'[SendCommand(c, m)] + Disturbances
             <= accepted[m][c] + Unborn(row[m]) + OpenOf(worker[w], m, c)
                  + ready[SendCommand(c, m)] + Disturbances'
      BY <1>1, <1>7, <3>6, <3>7
    <3> QED BY <1>2, <1>5, <3>1, <3>4, <3>5, <3>8, PaidStep
  <2> QED BY <1>1, <1>2, <1>5, <1>6, <2>5, <2>6, OnceStep DEF DeleteSteps
<1> QED BY <1>3, <1>8, <1>9

LEMMA SaveOnce ==
  ASSUME TypeInv, TypeInv', StepsInv, OnceInv, NEW w \in Workers, SavePending(w)
  PROVE  OnceInv'
<1>1. /\ worker[w] # Idle /\ worker[w].step = "save"
      /\ UNCHANGED <<ready, job, accepted, reported>>
  BY SaveShape
<1> PICK m : m = MessageOf(w)
  OBVIOUS
<1>2. m \in Msg /\ worker[w].cmd.msg = m
  BY <1>1, BusyFacts DEF TypeInv, MessageOf
<1>3. PICK s :
        /\ Become(w, s)
        /\ \/ /\ row[MessageOf(w)] # NoRow /\ UNCHANGED spent
              /\ row' = [row EXCEPT ![MessageOf(w)] = worker[w].snap]
              /\ \/ MessageOf(w) \in Due /\ s = Idle
                 \/ /\ MessageOf(w) \notin Due /\ Goes(worker[w], s, "publish")
                    /\ s.todo = Channels /\ s.snap = worker[w].snap
           \/ /\ UNCHANGED row /\ Goes(worker[w], s, "catch")
              /\ s.snap = worker[w].snap
              /\ (row[MessageOf(w)] = NoRow /\ UNCHANGED spent) \/ Fault("database")
  BY SaveShape
<1>4. Handling(worker[w], m)
  BY <1>1, <1>2 DEF Handling
<1>5. worker[w].snap \in Row /\ worker[w].snap # NoRow
  BY <1>1, DispatchAssumption DEF TypeInv, Held, HasSnap
<1>6. /\ s # Idle => s.cmd = worker[w].cmd /\ s.step \in {"publish", "catch"}
      /\ Become(w, s) /\ Charged
  BY <1>3 DEF Goes, Charged
<1>7. /\ UNCHANGED row \/ row' = [row EXCEPT ![MessageOf(w)] = worker[w].snap]
      /\ row[m] # NoRow => row'[m] # NoRow
  BY <1>2, <1>3, <1>5 DEF TypeInv, TypeOK
<1>8. About(w, s)
  BY <1>1, <1>6, <1>7, AboutRow, SameJobs
<1>9. ASSUME Undeleted(m) PROVE OneHandler(m)' /\ row[m] # NoRow /\ row'[m] # NoRow
  <2>1. OneHandler(m)
    BY <1>2, <1>9, OwnOnce
  <2>2. row[m] # NoRow
    BY <1>4, <2>1 DEF OneHandler
  <2> QED BY <1>2, <1>4, <1>6, <1>7, <2>1, <2>2, HandlerStep
<1>10. ASSUME Undeleted(m), NEW c \in Channels PROVE PaidFor(m, c)'
  <2>1. OpenOf(s, m, c) <= OpenOf(worker[w], m, c) \/ \E kind : Fault(kind)
    <3>1. CASE s = Idle
      BY <3>1, IdleOwes, OpenIsBit
    <3>2. CASE MessageOf(w) \notin Due
      <4>1. OpenOf(worker[w], m, c) = 1
        BY <1>1, <1>2, <3>2 DEF OpenOf, MaySend
      <4> QED BY <4>1, OpenIsBit
    <3> QED BY <1>3, <1>9, <1>10, <3>1, <3>2
  <2>2. Unborn(row'[m]) <= Unborn(row[m])
    BY <1>9, <1>10 DEF Unborn
  <2> QED BY <1>1, <1>2, <1>6, <1>10, <2>1, <2>2, OwnOnce, PaidQuiet, SameJobs
<1> QED BY <1>1, <1>2, <1>6, <1>8, <1>9, <1>10, OnceStep DEF DeleteSteps

LEMMA PublishOnce ==
  ASSUME TypeInv, TypeInv', StepsInv, OnceInv, NEW w \in Workers, NEW d \in Channels,
         PublishNow(w, d)
  PROVE  OnceInv'
<1>1. /\ worker[w] # Idle /\ worker[w].step = "publish" /\ d \in worker[w].todo
      /\ UNCHANGED <<row, job, accepted, reported>>
  BY PublishShape
<1> PICK m : m = MessageOf(w)
  OBVIOUS
<1>2. m \in Msg /\ worker[w].cmd.msg = m
  BY <1>1, BusyFacts DEF TypeInv, MessageOf
<1>3. PICK s :
        /\ Become(w, s)
        /\ \/ /\ Publish({SendCommand(d, MessageOf(w))}) /\ UNCHANGED spent
              /\ \/ s = Idle
                 \/ /\ Goes(worker[w], s, "publish") /\ s.todo = worker[w].todo \ {d}
                    /\ s.snap = worker[w].snap
           \/ /\ Goes(worker[w], s, "catch") /\ s.snap = worker[w].snap
              /\ \/ Fault("publish") /\ UNCHANGED ready
                 \/ Fault("lostConfirm") /\ Publish({SendCommand(d, MessageOf(w))})
  BY PublishShape
<1>4. Handling(worker[w], m)
  BY <1>1, <1>2 DEF Handling
<1>5. /\ s # Idle => s.cmd = worker[w].cmd /\ s.step \in {"publish", "catch"}
      /\ Become(w, s) /\ Charged
  BY <1>3 DEF Goes, Charged
<1>6. SendCommand(d, m) \in Command
  BY <1>2, Kinds
<1>7. Publish({SendCommand(d, m)}) => \A x \in Command :
        ready'[x] = IF x = SendCommand(d, m) THEN ready[x] + 1 ELSE ready[x]
  BY <1>6, PublishOne
<1>8. \/ ready' = ready
      \/ \A x \in Command :
           ready'[x] = IF x = SendCommand(d, m) THEN ready[x] + 1 ELSE ready[x]
  BY <1>3, <1>7
<1>9. About(w, s)
  <2>1. ASSUME NEW n \in Msg \ {m}, NEW c \in Channels
        PROVE  ready'[SendCommand(c, n)] = ready[SendCommand(c, n)]
    <3>1. SendCommand(c, n) \in Command /\ SendCommand(c, n) # SendCommand(d, m)
      BY Kinds DEF SendCommand
    <3> QED BY <1>8, <3>1
  <2>2. \A n, c : Planned(n, c)' = Planned(n, c)
    BY <1>1, SameJobs, PlannedKept
  <2> QED BY <1>1, <1>5, <2>1, <2>2 DEF About
<1>10. \A cmd \in Deletes : ready'[cmd] = ready[cmd] \/ cmd = worker[w].cmd
  <2>1. \A cmd \in Deletes : cmd \in Command /\ cmd # SendCommand(d, m)
    BY Kinds DEF SendCommand, Command
  <2> QED BY <1>8, <2>1
<1>11. ASSUME Undeleted(m) PROVE OneHandler(m)'
  <2>1. OneHandler(m)
    BY <1>2, <1>11, OwnOnce
  <2>2. row[m] # NoRow
    BY <1>4, <2>1 DEF OneHandler
  <2> QED BY <1>1, <1>2, <1>4, <1>5, <2>1, <2>2, HandlerStep
<1>12. ASSUME Undeleted(m), NEW c \in Channels PROVE PaidFor(m, c)'
  <2>1. /\ accepted[m][c] \in Nat /\ ready[SendCommand(c, m)] \in Nat
        /\ Disturbances \in Nat /\ Unborn(row[m]) \in Nat
    BY <1>2, CountsNat DEF Unborn
  <2>2. /\ OpenOf(s, m, c) = 0 \/ OpenOf(s, m, c) = 1
        /\ OpenOf(worker[w], m, c) = 0 \/ OpenOf(worker[w], m, c) = 1
    BY OpenIsBit
  <2>3. c = d => OpenOf(worker[w], m, c) = 1
    BY <1>1, <1>2 DEF OpenOf, MaySend
  <2>4. /\ SendCommand(c, m) \in Command
        /\ c # d => SendCommand(c, m) # SendCommand(d, m)
    BY <1>2, Kinds DEF SendCommand
  <2>5. OpenOf(s, m, c) + ready'[SendCommand(c, m)] + Disturbances
          <= OpenOf(worker[w], m, c) + ready[SendCommand(c, m)] + Disturbances'
    <3>1. CASE /\ Publish({SendCommand(d, MessageOf(w))}) /\ UNCHANGED spent
               /\ s = Idle \/ (/\ Goes(worker[w], s, "publish")
                               /\ s.todo = worker[w].todo \ {d})
      <4>0. worker[w].cmd # SendCommand(c, m)
        BY <1>1, <1>2, Kinds DEF StepsInv, InPlace, RequestSteps, RequestOf, SendCommand
      <4>1. Disturbances' = Disturbances
        BY <3>1, NoCost
      <4>2. CASE c = d
        <5>1. OpenOf(s, m, c) = 0
          BY <1>2, <3>1, <4>0, <4>2 DEF OpenOf, MaySend, Goes
        <5> QED BY <1>7, <2>1, <2>3, <2>4, <3>1, <4>1, <4>2, <5>1
      <4>3. CASE c # d
        <5>1. OpenOf(s, m, c) <= OpenOf(worker[w], m, c)
          BY <1>1, <1>2, <3>1, <4>0, <4>3 DEF OpenOf, MaySend, Goes
        <5> QED BY <1>7, <2>1, <2>2, <2>4, <3>1, <4>1, <4>3, <5>1
      <4> QED BY <4>2, <4>3
    <3>2. CASE Fault("publish") /\ UNCHANGED ready
      <4>1. Disturbances' = Disturbances + 1
        BY <3>2, FaultCosts
      <4> QED BY <2>1, <2>2, <3>2, <4>1
    <3>3. CASE Fault("lostConfirm") /\ Publish({SendCommand(d, MessageOf(w))})
      <4>1. Disturbances' = Disturbances + 1
        BY <3>3, FaultCosts
      <4>2. ready'[SendCommand(c, m)] = IF c = d THEN ready[SendCommand(c, m)] + 1
                                               ELSE ready[SendCommand(c, m)]
        BY <1>7, <2>4, <3>3
      <4> QED BY <2>1, <2>2, <2>3, <4>1, <4>2
    <3> QED BY <1>3, <3>1, <3>2, <3>3
  <2>6. accepted'[m][c] + Unborn(row'[m]) + OpenOf(s, m, c)
              + ready'[SendCommand(c, m)] + Disturbances
           <= accepted[m][c] + Unborn(row[m]) + OpenOf(worker[w], m, c)
                + ready[SendCommand(c, m)] + Disturbances'
    <3>1. Disturbances' \in Nat /\ ready'[SendCommand(c, m)] \in Nat
      BY <1>2, CountsNatNext
    <3> QED BY <1>1, <2>1, <2>2, <2>5, <3>1
  <2> QED BY <1>1, <1>2, <1>5, <1>12, <2>6, OwnOnce, PaidMove, SameJobs
<1> QED BY <1>1, <1>2, <1>5, <1>9, <1>10, <1>11, <1>12, OnceStep DEF DeleteSteps

LEMMA CatchOnce ==
  ASSUME TypeInv, TypeInv', StepsInv, OnceInv, NEW w \in Workers, CatchDelete(w)
  PROVE  OnceInv'
<1>1. /\ worker[w] # Idle /\ worker[w].step = "catch"
      /\ UNCHANGED <<ready, job, accepted, reported>>
      /\ \/ row' = [row EXCEPT ![MessageOf(w)] = NoRow] /\ UNCHANGED spent
         \/ Fault("database") /\ UNCHANGED row
  BY CatchShape
<1>2. PICK s : Become(w, s) /\ Restarts(worker[w], s)
  BY CatchShape
<1> PICK m : m = MessageOf(w)
  OBVIOUS
<1>3. /\ m \in Msg /\ worker[w].cmd.msg = m /\ worker[w].cmd = RequestOf(m)
      /\ worker[w].cmd \in Command
  BY <1>1, BusyFacts DEF TypeInv, MessageOf, StepsInv, InPlace, RequestSteps
<1>4. Handling(worker[w], m)
  BY <1>1, <1>3 DEF Handling
<1>5. Charged
  BY <1>1 DEF Charged
<1>6. About(w, s)
  BY <1>1, <1>2, <1>5, AboutRow, SameJobs, RestartedHandles
<1>7. ASSUME Undeleted(m) PROVE OneHandler(m)'
  BY <1>2, <1>3, <1>4, <1>7, OwnOnce, HandlerStep, RestartedHandles
<1>8. ASSUME Undeleted(m), NEW c \in Channels PROVE PaidFor(m, c)'
  <2>1. OpenOf(s, m, c) = 0 /\ OpenOf(worker[w], m, c) = 1
    <3>1. OpenOf(s, m, c) = 0
      BY <1>2, <1>3, RestartedRequest
    <3> QED BY <1>1, <1>3, <3>1 DEF OpenOf, MaySend
  <2>2. /\ accepted[m][c] \in Nat /\ ready[SendCommand(c, m)] \in Nat
        /\ Disturbances \in Nat /\ Unborn(row[m]) \in Nat /\ Unborn(row'[m]) \in Nat
        /\ Unborn(row'[m]) <= 1 + Unborn(row[m])
    BY <1>3, CountsNat DEF Unborn
  <2>3. Disturbances' >= Disturbances /\ Disturbances' \in Nat
    BY <1>5, ChargedCosts, CountsNatNext
  <2>4. accepted'[m][c] + Unborn(row'[m]) + OpenOf(s, m, c)
              + ready'[SendCommand(c, m)] + Disturbances
           <= accepted[m][c] + Unborn(row[m]) + OpenOf(worker[w], m, c)
                + ready[SendCommand(c, m)] + Disturbances'
    BY <1>1, <2>1, <2>2, <2>3
  <2> QED BY <1>1, <1>2, <1>3, <1>8, <2>4, OwnOnce, PaidMove, SameJobs
<1> QED BY <1>1, <1>2, <1>3, <1>6, <1>7, <1>8, OnceStep, RestartedHandles

LEMMA LoadForSendOnce ==
  ASSUME TypeInv, TypeInv', OnceInv, NEW w \in Workers, NEW d \in Channels, LoadForSend(w, d)
  PROVE  OnceInv'
<1>1. /\ worker[w] # Idle /\ worker[w].step = "load"
      /\ worker[w].cmd = SendCommand(d, MessageOf(w))
      /\ UNCHANGED <<row, ready, job, accepted, reported, spent>>
  BY LoadForSendShape
<1>2. PICK s : Become(w, s) /\ (s = Idle \/ Goes(worker[w], s, "send"))
  BY LoadForSendShape
<1> PICK m : m = MessageOf(w)
  OBVIOUS
<1>3. m \in Msg /\ worker[w].cmd.msg = m
  BY <1>1, BusyFacts DEF TypeInv, MessageOf
<1>4. About(w, s)
  BY <1>1, <1>2, AboutRow, SameJobs DEF Goes, Charged
<1>5. ~Handling(s, m)
  BY <1>2 DEF Goes, Handling
<1>6. ASSUME Undeleted(m) PROVE OneHandler(m)'
  BY <1>1, <1>2, <1>3, <1>5, <1>6, OwnOnce, HandlerStep
<1>7. ASSUME Undeleted(m), NEW c \in Channels PROVE PaidFor(m, c)'
  <2>1. OpenOf(s, m, c) <= OpenOf(worker[w], m, c)
    <3>1. CASE c = d
      <4>1. OpenOf(worker[w], m, c) = 1
        BY <1>1, <1>3, <3>1 DEF OpenOf, MaySend
      <4> QED BY <4>1, OpenIsBit
    <3>2. CASE c # d
      <4>1. OpenOf(s, m, c) = 0
        BY <1>1, <1>2, <3>2 DEF OpenOf, MaySend, Goes, SendCommand
      <4> QED BY <4>1, OpenIsBit
    <3> QED BY <3>1, <3>2
  <2>2. Unborn(row'[m]) <= Unborn(row[m])
    BY <1>1 DEF Unborn
  <2> QED BY <1>1, <1>2, <1>3, <1>7, <2>1, <2>2, OwnOnce, PaidQuiet, SameJobs DEF Charged
<1> QED BY <1>1, <1>2, <1>3, <1>4, <1>6, <1>7, OnceStep DEF Goes, DeleteSteps

\* A provider takes one more.
LEMMA AcceptedOne ==
  ASSUME TypeInv, NEW m \in Msg, NEW c \in Channels, ProviderAccepts(m, c)
  PROVE  /\ accepted'[m][c] = accepted[m][c] + 1
         /\ \A d \in Channels \ {c} : accepted'[m][d] = accepted[m][d]
         /\ \A n \in Msg \ {m} : accepted'[n] = accepted[n]
BY DEF ProviderAccepts, TypeInv, TypeOK

\* After a call the consumer records, is done, or starts again.
LEMMA CalledShape ==
  ASSUME NEW w \in Workers, NEW s, NEW m, NEW c, NEW part, Called(w, s, m, c, part)
  PROVE  /\ \/ s = Idle \/ Restarts(worker[w], s) \/ Goes(worker[w], s, "record")
         /\ accepted' = accepted \/ ProviderAccepts(m, c)
         /\ Charged
         /\ \/ accepted' = accepted
            \/ s = Idle \/ (Goes(worker[w], s, "record") /\ s.failed = FALSE)
            \/ \E kind : Fault(kind)
BY DEF Called, MayAccept, Answered, Recorded, Charged

LEMMA CallOnce ==
  ASSUME TypeInv, TypeInv', OnceInv, NEW w \in Workers, NEW d \in Channels, CallProvider(w, d)
  PROVE  OnceInv'
<1>1. /\ worker[w] # Idle /\ worker[w].step = "send"
      /\ worker[w].cmd = SendCommand(d, MessageOf(w)) /\ MessageOf(w) \in Msg
      /\ UNCHANGED <<row, ready, job, reported>>
  BY CallShape
<1>2. PICK s : Become(w, s) /\ Called(w, s, MessageOf(w), d, worker[w].snap.part[d])
  BY CallShape
<1> PICK m : m = MessageOf(w)
  OBVIOUS
<1>3. m \in Msg /\ worker[w].cmd.msg = m /\ worker[w].cmd = SendCommand(d, m)
  BY <1>1, BusyFacts DEF TypeInv, MessageOf
<1>4. /\ \/ s = Idle \/ Restarts(worker[w], s) \/ Goes(worker[w], s, "record")
      /\ accepted' = accepted \/ ProviderAccepts(m, d)
      /\ Charged
      /\ \/ accepted' = accepted
         \/ s = Idle \/ (Goes(worker[w], s, "record") /\ s.failed = FALSE)
         \/ \E kind : Fault(kind)
  BY <1>2, CalledShape
<1>5. /\ s # Idle => s.cmd = worker[w].cmd /\ s.step \in {"isExist", "load", "record"}
      /\ ~Handling(s, m)
  BY <1>4 DEF Goes, Restarts, FirstStep, Handling
<1>6. \A n \in Msg \ {m} : accepted'[n] = accepted[n]
  BY <1>3, <1>4, AcceptedOne
<1>7. About(w, s)
  <2>1. \A n, c : Planned(n, c)' = Planned(n, c)
    BY <1>1, SameJobs, PlannedKept
  <2> QED BY <1>1, <1>2, <1>4, <1>5, <1>6, <2>1 DEF About
<1>8. ASSUME Undeleted(m) PROVE OneHandler(m)'
  BY <1>1, <1>2, <1>3, <1>5, <1>8, OwnOnce, HandlerStep
<1>9. ASSUME Undeleted(m), NEW c \in Channels PROVE PaidFor(m, c)'
  <2>1. /\ accepted[m][c] \in Nat /\ ready[SendCommand(c, m)] \in Nat
        /\ Disturbances \in Nat /\ Unborn(row[m]) \in Nat /\ Disturbances' \in Nat
    BY <1>3, CountsNat, CountsNatNext DEF Unborn
  <2>2. Disturbances' >= Disturbances
    BY <1>4, ChargedCosts
  <2>3. OpenOf(s, m, c) = 0 \/ OpenOf(s, m, c) = 1
    BY OpenIsBit
  <2>4. accepted'[m][c] + OpenOf(s, m, c) + Disturbances
          <= accepted[m][c] + OpenOf(worker[w], m, c) + Disturbances'
    <3>1. CASE c # d
      <4>1. OpenOf(s, m, c) = 0 /\ OpenOf(worker[w], m, c) = 0
        BY <1>1, <1>3, <1>5, <3>1 DEF OpenOf, MaySend, SendCommand
      <4>2. accepted'[m][c] = accepted[m][c]
        BY <1>3, <1>4, <3>1, AcceptedOne
      <4> QED BY <2>1, <2>2, <4>1, <4>2
    <3>2. CASE c = d
      <4>1. OpenOf(worker[w], m, c) = 1
        BY <1>1, <1>3, <3>2 DEF OpenOf, MaySend
      <4>2. accepted'[m][c] = accepted[m][c] \/ accepted'[m][c] = accepted[m][c] + 1
        BY <1>3, <1>4, <3>2, AcceptedOne
      <4>3. \/ accepted'[m][c] = accepted[m][c] \/ OpenOf(s, m, c) = 0
            \/ Disturbances' = Disturbances + 1
        <5>1. CASE s = Idle
          BY <5>1, IdleOwes
        <5>2. CASE Goes(worker[w], s, "record") /\ s.failed = FALSE
          BY <5>2 DEF Goes, OpenOf, MaySend
        <5>3. CASE \E kind : Fault(kind)
          BY <5>3, FaultCosts
        <5> QED BY <1>4, <5>1, <5>2, <5>3
      <4> QED BY <2>1, <2>2, <2>3, <4>1, <4>2, <4>3
    <3> QED BY <3>1, <3>2
  <2>5. accepted'[m][c] + Unborn(row'[m]) + OpenOf(s, m, c)
              + ready'[SendCommand(c, m)] + Disturbances
           <= accepted[m][c] + Unborn(row[m]) + OpenOf(worker[w], m, c)
                + ready[SendCommand(c, m)] + Disturbances'
    <3>1. accepted'[m][c] \in Nat
      BY <1>3, CountsNatNext
    <3>2. OpenOf(worker[w], m, c) = 0 \/ OpenOf(worker[w], m, c) = 1
      BY OpenIsBit
    <3> QED BY <1>1, <2>1, <2>3, <2>4, <3>1, <3>2
  <2> QED BY <1>1, <1>2, <1>3, <1>9, <2>5, OwnOnce, PaidMove, SameJobs
<1> QED BY <1>1, <1>3, <1>5, <1>7, <1>8, <1>9, OnceStep DEF DeleteSteps

LEMMA RecordOnce ==
  ASSUME TypeInv, TypeInv', OnceInv, NEW w \in Workers, RecordOutcome(w)
  PROVE  OnceInv'
<1>1. /\ worker[w] # Idle /\ worker[w].step = "record" /\ worker[w].cmd \in Sends
      /\ UNCHANGED <<ready, job, accepted, reported>>
      /\ \/ /\ row[MessageOf(w)] # NoRow /\ UNCHANGED spent
            /\ row' = [row EXCEPT ![MessageOf(w)] = worker[w].snap]
         \/ UNCHANGED row /\ (UNCHANGED spent \/ Fault("database"))
  BY RecordShape
<1>2. PICK s : /\ Become(w, s)
               /\ IF worker[w].failed THEN Restarts(worker[w], s) ELSE s = Idle
  BY RecordShape
<1> PICK m : m = MessageOf(w)
  OBVIOUS
<1>3. m \in Msg /\ worker[w].cmd.msg = m /\ worker[w].cmd \in Command
  BY <1>1, BusyFacts DEF TypeInv, MessageOf
<1>4. worker[w].snap \in Row /\ worker[w].snap # NoRow
  BY <1>1, DispatchAssumption DEF TypeInv, Held, HasSnap
<1>5. /\ UNCHANGED row \/ row' = [row EXCEPT ![MessageOf(w)] = worker[w].snap]
      /\ row'[m] = NoRow <=> row[m] = NoRow
      /\ Charged
  BY <1>1, <1>3, <1>4 DEF TypeInv, TypeOK, Charged
<1>6. Restarts(worker[w], s)
  BY <1>2 DEF Restarts
<1>7. About(w, s)
  BY <1>1, <1>2, <1>5, <1>6, AboutRow, SameJobs, RestartedHandles
<1>8. ASSUME Undeleted(m) PROVE OneHandler(m)'
  BY <1>2, <1>3, <1>5, <1>6, <1>8, OwnOnce, HandlerStep, RestartedHandles
<1>9. ASSUME Undeleted(m), NEW c \in Channels PROVE PaidFor(m, c)'
  <2>1. OpenOf(s, m, c) <= OpenOf(worker[w], m, c)
    <3>1. CASE OpenOf(s, m, c) = 0
      BY <3>1, OpenIsBit
    <3>2. CASE OpenOf(s, m, c) # 0
      <4>1. worker[w].cmd = SendCommand(c, m)
        BY <1>3, <1>6, <3>2, RestartOwes
      <4>2. s # Idle
        BY <3>2, IdleOwes
      <4>3. worker[w].failed
        BY <1>2, <4>2
      <4>4. OpenOf(worker[w], m, c) = 1
        BY <1>1, <1>3, <4>1, <4>3 DEF OpenOf, MaySend
      <4> QED BY <4>4, OpenIsBit
    <3> QED BY <3>1, <3>2
  <2>2. Unborn(row'[m]) <= Unborn(row[m])
    BY <1>5 DEF Unborn
  <2> QED BY <1>1, <1>2, <1>3, <1>5, <1>9, <2>1, <2>2, OwnOnce, PaidQuiet, SameJobs
<1> QED BY <1>1, <1>3, <1>6, <1>7, <1>8, <1>9, OnceStep, RestartedHandles

\* A report sends nothing.
LEMMA ReportOnce ==
  ASSUME TypeInv, TypeInv', OnceInv, NEW w \in Workers, HandleReport(w)
  PROVE  OnceInv'
<1>1. /\ worker[w] # Idle /\ worker[w].cmd \in Reports
      /\ UNCHANGED <<ready, job, accepted>> /\ Charged
      /\ \/ UNCHANGED row
         \/ /\ row[MessageOf(w)] # NoRow /\ worker[w].step = "record"
            /\ row' = [row EXCEPT ![MessageOf(w)] = worker[w].snap]
  BY LoadForReportShape, SaveReportShape DEF HandleReport, Charged
<1>2. PICK s : Become(w, s) /\ (Restarts(worker[w], s) \/ Goes(worker[w], s, "record"))
  BY LoadForReportShape, SaveReportShape DEF HandleReport, Restarts
<1> PICK m : m = MessageOf(w)
  OBVIOUS
<1>3. m \in Msg /\ worker[w].cmd.msg = m /\ worker[w].cmd \in Command
  BY <1>1, BusyFacts DEF TypeInv, MessageOf
<1>4. row'[m] = NoRow <=> row[m] = NoRow
  <2>1. worker[w].step = "record" => worker[w].snap \in Row /\ worker[w].snap # NoRow
    BY <1>1, DispatchAssumption DEF TypeInv, Held, HasSnap
  <2> QED BY <1>1, <1>3, <2>1 DEF TypeInv, TypeOK
<1>5. /\ s # Idle => s.cmd = worker[w].cmd /\ s.step \in {"isExist", "load", "record"}
      /\ ~Handling(s, m)
  BY <1>2 DEF Goes, Restarts, FirstStep, Handling
<1>6. About(w, s)
  BY <1>1, <1>2, <1>5, AboutRow, SameJobs
<1>7. ASSUME Undeleted(m) PROVE OneHandler(m)'
  BY <1>2, <1>3, <1>4, <1>5, <1>7, OwnOnce, HandlerStep
<1>8. ASSUME Undeleted(m), NEW c \in Channels PROVE PaidFor(m, c)'
  <2>1. worker[w].cmd # SendCommand(c, m)
    BY <1>1, Kinds DEF Reports, SendCommand
  <2>2. OpenOf(s, m, c) = 0
    BY <1>5, <2>1 DEF OpenOf, MaySend
  <2>3. OpenOf(s, m, c) <= OpenOf(worker[w], m, c) /\ Unborn(row'[m]) <= Unborn(row[m])
    BY <1>4, <2>2, OpenIsBit DEF Unborn
  <2> QED BY <1>1, <1>2, <1>3, <1>8, <2>3, OwnOnce, PaidQuiet, SameJobs
<1> QED BY <1>1, <1>3, <1>5, <1>6, <1>7, <1>8, OnceStep DEF DeleteSteps

\* Nor does a delete: its message is one that may be deleted.
LEMMA LoadForDeleteOnce ==
  ASSUME TypeInv, TypeInv', OnceInv, NEW w \in Workers, LoadForDelete(w)
  PROVE  OnceInv'
<1>1. /\ worker[w] # Idle /\ worker[w].cmd \in Deletes
      /\ UNCHANGED <<row, ready, job, accepted, reported, spent>>
  BY LoadForDeleteShape
<1>2. PICK s : /\ Become(w, s)
               /\ s = Idle \/ (MessageOf(w) \in Due /\ s # Idle /\ s.cmd = worker[w].cmd)
  BY LoadForDeleteShape
<1> PICK m : m = MessageOf(w)
  OBVIOUS
<1>3. m \in Msg /\ spent.deletes # 0
  BY <1>1, BusyFacts DEF TypeInv, OnceInv, DeletesInv
<1>4. About(w, s)
  BY <1>1, <1>2, AboutRow, SameJobs DEF Charged
<1>5. ASSUME Undeleted(m) PROVE s = Idle
  BY <1>2, <1>3, <1>5 DEF Undeleted
<1>6. ASSUME Undeleted(m) PROVE OneHandler(m)'
  <2>1. ~Handling(s, m)
    BY <1>5, <1>6 DEF Handling
  <2> QED BY <1>1, <1>2, <1>3, <1>6, <2>1, OwnOnce, HandlerStep
<1>7. ASSUME Undeleted(m), NEW c \in Channels PROVE PaidFor(m, c)'
  <2>1. OpenOf(s, m, c) <= OpenOf(worker[w], m, c) /\ Unborn(row'[m]) <= Unborn(row[m])
    BY <1>1, <1>5, <1>7, IdleOwes, OpenIsBit DEF Unborn
  <2> QED BY <1>1, <1>2, <1>3, <1>7, <2>1, OwnOnce, PaidQuiet, SameJobs DEF Charged
<1> QED BY <1>1, <1>2, <1>3, <1>4, <1>6, <1>7, OnceStep

LEMMA DeleteOnce ==
  ASSUME TypeInv, TypeInv', StepsInv, OnceInv, NEW w \in Workers, DeleteRow(w) \/ DropJob(w)
  PROVE  OnceInv'
<1>1. /\ worker[w] # Idle /\ worker[w].step \in DeleteSteps /\ MessageOf(w) \in Due
      /\ UNCHANGED <<ready, accepted, reported>>
      /\ UNCHANGED row \/ row' = [row EXCEPT ![MessageOf(w)] = NoRow]
      /\ Charged
      /\ \A i \in JobIds : SameJob(job'[i], job[i])
  BY DeleteShape DEF Charged
<1>2. PICK s : Become(w, s) /\ (s # Idle => s.cmd = worker[w].cmd)
  BY DeleteShape
<1> PICK m : m = MessageOf(w)
  OBVIOUS
<1>3. m \in Msg /\ ~Undeleted(m)
  BY <1>1, BusyFacts DEF TypeInv, OnceInv, DeletesInv, Undeleted
<1>4. About(w, s)
  BY <1>1, <1>2, AboutRow
<1> QED BY <1>1, <1>2, <1>3, <1>4, OnceStep DEF OnceInv, JobsForDue

LEMMA ReadFailsOnce ==
  ASSUME TypeInv, TypeInv', OnceInv, NEW w \in Workers, ReadFails(w)
  PROVE  OnceInv'
<1>1. /\ worker[w] # Idle /\ UNCHANGED <<row, ready, job, accepted, reported>>
      /\ Fault("database")
  BY ReadFailsShape
<1>2. PICK s : Become(w, s) /\ Restarts(worker[w], s)
  BY ReadFailsShape
<1> PICK m : m = MessageOf(w)
  OBVIOUS
<1>3. m \in Msg /\ Charged
  BY <1>1, BusyFacts DEF TypeInv, Charged
<1>4. About(w, s)
  BY <1>1, <1>2, <1>3, AboutRow, SameJobs, RestartedHandles
<1>5. ASSUME Undeleted(m) PROVE OneHandler(m)'
  BY <1>1, <1>2, <1>3, <1>5, OwnOnce, HandlerStep, RestartedHandles
<1>6. ASSUME Undeleted(m), NEW c \in Channels PROVE PaidFor(m, c)'
  <2>1. Unborn(row'[m]) <= Unborn(row[m])
    BY <1>1 DEF Unborn
  <2> QED BY <1>1, <1>2, <1>3, <1>6, <2>1, OwnOnce, PaidQuiet, SameJobs
<1> QED BY <1>1, <1>2, <1>3, <1>4, <1>5, <1>6, OnceStep, RestartedHandles

\* A crash and a lost connection put the command back: the fault pays for it.
LEMMA BackOnce ==
  ASSUME TypeInv, TypeInv', OnceInv, NEW w \in Workers, worker[w] # Idle, NEW s, Become(w, s),
         s = Idle \/ (/\ Goes(worker[w], s, worker[w].step) /\ s.todo = worker[w].todo
                      /\ s.failed = worker[w].failed),
         UNCHANGED <<row, job, accepted>>, NEW kind, Fault(kind),
         \/ \A x \in Command : ready'[x] = ready[x]
         \/ \A x \in Command : ready'[x] = IF x = worker[w].cmd THEN ready[x] + 1 ELSE ready[x]
  PROVE  OnceInv'
<1> PICK m : m = MessageOf(w)
  OBVIOUS
<1>1. m \in Msg /\ worker[w].cmd.msg = m /\ Charged
  BY BusyFacts DEF TypeInv, Charged, MessageOf
<1>2. About(w, s)
  <2>1. ASSUME NEW n \in Msg \ {m}, NEW c \in Channels
        PROVE  ready'[SendCommand(c, n)] = ready[SendCommand(c, n)]
    <3>1. SendCommand(c, n) \in Command /\ SendCommand(c, n) # worker[w].cmd
      BY <1>1, Kinds DEF SendCommand
    <3> QED BY <3>1
  <2>2. \A n, c : Planned(n, c)' = Planned(n, c)
    BY SameJobs, PlannedKept
  <2> QED BY <1>1, <2>1, <2>2 DEF About, Goes
<1>3. ASSUME Undeleted(m) PROVE OneHandler(m)'
  <2>1. Handling(s, m) => Handling(worker[w], m)
    BY DEF Handling, Goes
  <2>2. OneHandler(m)
    BY <1>1, <1>3, OwnOnce
  <2>3. Handling(worker[w], m) => row[m] # NoRow
    BY <2>2 DEF OneHandler
  <2> QED BY <1>1, <2>1, <2>2, <2>3, HandlerStep
<1>4. ASSUME Undeleted(m), NEW c \in Channels PROVE PaidFor(m, c)'
  <2>1. OpenOf(s, m, c) <= OpenOf(worker[w], m, c)
    <3>1. MaySend(s, m, c) => MaySend(worker[w], m, c)
      BY DEF MaySend, Goes
    <3> QED BY <3>1 DEF OpenOf
  <2>2. SendCommand(c, m) \in Command
    BY <1>1, Kinds
  <2>3. /\ accepted[m][c] \in Nat /\ ready[SendCommand(c, m)] \in Nat
        /\ Disturbances \in Nat /\ Unborn(row[m]) \in Nat
        /\ Disturbances' = Disturbances + 1
    BY <1>1, CountsNat, FaultCosts DEF Unborn
  <2>4. /\ OpenOf(s, m, c) = 0 \/ OpenOf(s, m, c) = 1
        /\ OpenOf(worker[w], m, c) = 0 \/ OpenOf(worker[w], m, c) = 1
    BY OpenIsBit
  <2>5. \/ ready'[SendCommand(c, m)] = ready[SendCommand(c, m)]
        \/ ready'[SendCommand(c, m)] = ready[SendCommand(c, m)] + 1
    BY <2>2
  <2>6. accepted'[m][c] + Unborn(row'[m]) + OpenOf(s, m, c)
              + ready'[SendCommand(c, m)] + Disturbances
           <= accepted[m][c] + Unborn(row[m]) + OpenOf(worker[w], m, c)
                + ready[SendCommand(c, m)] + Disturbances'
    BY <2>1, <2>3, <2>4, <2>5
  <2> QED BY <1>1, <1>4, <2>6, OwnOnce, PaidMove, SameJobs
<1>5. /\ s # Idle /\ s.step = "schedule" => MessageOf(w) \in Due
      /\ s # Idle /\ s.step \in DeleteSteps => worker[w].step \in DeleteSteps
  BY DEF Goes, OnceInv, JobsForDue
<1>6. \A cmd \in Deletes : ready'[cmd] = ready[cmd] \/ cmd = worker[w].cmd
  BY DEF Command
<1> QED BY <1>1, <1>2, <1>3, <1>4, <1>5, <1>6, OnceStep

LEMMA CrashOnce ==
  ASSUME TypeInv, TypeInv', OnceInv, NEW w \in Workers, Crash(w)
  PROVE  OnceInv'
<1>1. /\ worker[w] # Idle /\ Become(w, Idle)
      /\ UNCHANGED <<row, job, accepted, reported>> /\ Fault("crash")
      /\ \/ \A x \in Command : ready'[x] = ready[x]
         \/ \A x \in Command :
              ready'[x] = IF x = worker[w].cmd THEN ready[x] + 1 ELSE ready[x]
  BY CrashShape
<1> QED BY <1>1, BackOnce

LEMMA DisconnectOnce ==
  ASSUME TypeInv, TypeInv', OnceInv, NEW w \in Workers, Disconnect(w)
  PROVE  OnceInv'
<1>1. /\ worker[w] # Idle
      /\ UNCHANGED <<row, job, accepted, reported>> /\ Fault("disconnect")
      /\ \A x \in Command :
              ready'[x] = IF x = worker[w].cmd THEN ready[x] + 1 ELSE ready[x]
  BY DisconnectShape
<1>2. PICK s : /\ Become(w, s) /\ Goes(worker[w], s, worker[w].step)
               /\ s.todo = worker[w].todo /\ s.failed = worker[w].failed
  BY DisconnectShape
<1> QED BY <1>1, <1>2, BackOnce

LEMMA DeliverOnce ==
  ASSUME TypeInv, TypeInv', OnceInv, NEW w \in Workers, NEW cmd \in Command, Deliver(w, cmd)
  PROVE  OnceInv'
<1>1. /\ worker[w] = Idle /\ ready[cmd] > 0 /\ ready[cmd] \in Nat
      /\ UNCHANGED <<row, job, accepted, reported, spent>>
      /\ \A x \in Command : ready'[x] = IF x = cmd THEN ready[x] - 1 ELSE ready[x]
  BY DeliverShape
<1>2. PICK s : Become(w, s) /\ Goes([cmd |-> cmd], s, FirstStep(cmd))
  BY DeliverShape
<1>3. s # Idle /\ s.cmd = cmd /\ s.step \in {"isExist", "load"}
  BY <1>2 DEF Goes, FirstStep
<1>4. worker'[w] = s /\ \A v \in Workers \ {w} : worker'[v] = worker[v]
  BY <1>2, Becoming
<1>5. DeletesInv'
  <2>1. ASSUME spent.deletes = 0 PROVE cmd \notin Deletes
    BY <1>1, <2>1 DEF OnceInv, DeletesInv
  <2>2. ASSUME spent.deletes = 0, NEW x \in Deletes PROVE ready'[x] = 0
    BY <1>1, <2>1, <2>2 DEF OnceInv, DeletesInv, Command
  <2>3. ASSUME spent.deletes = 0, NEW v \in Workers, worker'[v] # Idle
        PROVE  worker'[v].cmd \notin Deletes /\ worker'[v].step \notin DeleteSteps
    <3>1. CASE v = w
      BY <1>3, <1>4, <2>1, <2>3, <3>1 DEF DeleteSteps
    <3>2. CASE v # w
      BY <1>4, <2>3, <3>2 DEF OnceInv, DeletesInv
    <3> QED BY <3>1, <3>2
  <2> QED BY <1>1, <2>2, <2>3 DEF DeletesInv
<1>6. JobsForDue'
  <2>1. ASSUME NEW v \in Workers, worker'[v] # Idle, worker'[v].step = "schedule"
        PROVE  worker'[v].cmd.msg \in Due
    BY <1>3, <1>4, <2>1 DEF OnceInv, JobsForDue, MessageOf
  <2> QED BY <2>1 DEF JobsForDue, MessageOf
<1>7. ASSUME NEW m \in Msg, OneHandler(m) PROVE OneHandler(m)'
  <2>1. ~Handling(s, m)
    BY <1>3 DEF Handling
  <2> QED BY <1>1, <1>2, <1>7, <2>1, HandlerStep
<1>8. ASSUME NEW m \in Msg, NEW c \in Channels, PaidFor(m, c) PROVE PaidFor(m, c)'
  <2>1. /\ accepted[m][c] \in Nat /\ ready[SendCommand(c, m)] \in Nat
        /\ Disturbances \in Nat /\ Unborn(row[m]) \in Nat
        /\ Disturbances' = Disturbances
    BY <1>1, CountsNat, NoCost DEF Unborn
  <2>2. OpenOf(worker[w], m, c) = 0
    BY <1>1, IdleOwes
  <2>3. SendCommand(c, m) \in Command
    BY Kinds
  <2>4. OpenOf(s, m, c) + ready'[SendCommand(c, m)] <= ready[SendCommand(c, m)]
    <3>1. CASE cmd = SendCommand(c, m)
      BY <1>1, <2>1, <2>3, <3>1, OpenIsBit
    <3>2. CASE cmd # SendCommand(c, m)
      <4>1. OpenOf(s, m, c) = 0
        BY <1>3, <3>2 DEF OpenOf, MaySend
      <4> QED BY <1>1, <2>1, <2>3, <3>2, <4>1
    <3> QED BY <3>1, <3>2
  <2>5. OpenOf(s, m, c) \in Nat /\ ready'[SendCommand(c, m)] \in Nat
    BY CountsNatNext DEF OpenOf
  <2>6. accepted'[m][c] + Unborn(row'[m]) + OpenOf(s, m, c)
              + ready'[SendCommand(c, m)] + Disturbances
           <= accepted[m][c] + Unborn(row[m]) + OpenOf(worker[w], m, c)
                + ready[SendCommand(c, m)] + Disturbances'
    BY <1>1, <2>1, <2>2, <2>4, <2>5
  <2> QED BY <1>1, <1>2, <1>8, <2>6, PaidMove, SameJobs
<1>9. \A m : Undeleted(m)' => Undeleted(m)
  BY <1>1 DEF Undeleted
<1> QED BY <1>5, <1>6, <1>7, <1>8, <1>9 DEF OnceInv

\* Steps of clients and jobs move no consumer.
LEMMA RestOnce ==
  ASSUME TypeInv, TypeInv', OnceInv, UNCHANGED worker,
         \A cmd \in Deletes : spent'.deletes = 0 => ready'[cmd] = ready[cmd],
         spent'.deletes = 0 => spent.deletes = 0,
         \A m \in Msg : Undeleted(m)' => row'[m] = row[m],
         \A m \in Msg, c \in Channels : PaidFor(m, c) /\ Undeleted(m)' => PaidFor(m, c)'
  PROVE  OnceInv'
<1>1. DeletesInv' /\ JobsForDue'
  BY DEF OnceInv, DeletesInv, JobsForDue, MessageOf
<1>2. \A m : Undeleted(m)' => Undeleted(m)
  BY DEF Undeleted
<1>3. ASSUME NEW m \in Msg, Undeleted(m)' PROVE OneHandler(m)'
  <2>1. OneHandler(m) /\ row'[m] = row[m]
    BY <1>2, <1>3, OwnOnce
  <2> QED BY <2>1 DEF OneHandler, Handling
<1>4. ASSUME NEW m \in Msg, Undeleted(m)', NEW c \in Channels PROVE PaidFor(m, c)'
  BY <1>2, <1>4, OwnOnce
<1> QED BY <1>1, <1>3, <1>4 DEF OnceInv

\* Clients add commands; a re-send is one of the disturbances.
LEMMA ClientPaid ==
  ASSUME TypeInv, TypeInv', UNCHANGED <<row, worker, job, accepted>>, NEW m \in Msg,
         NEW c \in Channels, PaidFor(m, c),
         ready'[SendCommand(c, m)] + Disturbances <= ready[SendCommand(c, m)] + Disturbances'
  PROVE  PaidFor(m, c)'
<1>1. Planned(m, c)' = Planned(m, c) /\ IsFiniteSet(Planned(m, c))
  BY SameJobs, PlannedKept DEF PaidFor
<1>2. Cardinality(Planned(m, c)) \in Nat
  BY <1>1, FS_CardinalityType
<1>3. /\ IsFiniteSet(Planned(m, c)') /\ Cardinality(Planned(m, c)') \in Nat
      /\ Cardinality(Planned(m, c)') + 0 = Cardinality(Planned(m, c)) + 0
  BY <1>1, <1>2
<1>4. ready'[SendCommand(c, m)] \in Nat /\ ready[SendCommand(c, m)] \in Nat
      /\ Disturbances \in Nat /\ Disturbances' \in Nat
  BY CountsNat, CountsNatNext
<1>5. 0 + ready'[SendCommand(c, m)] + Disturbances
        <= 0 + ready[SendCommand(c, m)] + Disturbances'
  BY <1>4
<1> QED BY <1>3, <1>5, PaidRest

LEMMA PublishSome ==
  ASSUME TypeInv, NEW cmds, Publish(cmds)
  PROVE  \A x \in Command : \/ ready'[x] = ready[x]
                            \/ x \in cmds /\ ready'[x] = ready[x] + 1
<1>1. \A x \in Command : ready[x] \in Nat
  BY DEF TypeInv, TypeOK
<1> QED BY <1>1 DEF Publish

LEMMA ClientsOnce ==
  ASSUME TypeInv, TypeInv', OnceInv, Clients
  PROVE  OnceInv'
<1>1. /\ spent \in [faults : Nat, resends : Nat, deletes : Nat, requests : [Msg -> Nat],
                    kinds : SUBSET FaultKinds]
      /\ Disturbances \in Nat
  BY CountsNat DEF TypeInv, TypeOK
<1>2. \A c \in Channels, m \in Msg : SendCommand(c, m) \in Command
  BY Kinds
<1>3. ASSUME UNCHANGED <<row, worker, job, accepted>>,
             \A cmd \in Deletes : spent'.deletes = 0 => ready'[cmd] = ready[cmd],
             spent'.deletes = 0 => spent.deletes = 0,
             \A m \in Msg, c \in Channels :
                ready'[SendCommand(c, m)] + Disturbances <= ready[SendCommand(c, m)] + Disturbances'
      PROVE  OnceInv'
  <2>1. \A m \in Msg, c \in Channels : PaidFor(m, c) => PaidFor(m, c)'
    BY <1>3, ClientPaid
  <2> QED BY <1>3, <2>1, RestOnce
<1>4. ASSUME NEW cmd, Publish({cmd}), \A c \in Channels, m \in Msg : SendCommand(c, m) # cmd
      PROVE  \A m \in Msg, c \in Channels : ready'[SendCommand(c, m)] = ready[SendCommand(c, m)]
  BY <1>2, <1>4, PublishSome
<1>5. ASSUME NEW cmd, Publish({cmd}), cmd \notin Deletes
      PROVE  \A x \in Deletes : ready'[x] = ready[x]
  BY <1>5, PublishSome DEF Command
<1>6. \A m \in Msg, c \in Channels : ready[SendCommand(c, m)] \in Nat
  BY CountsNat
<1>7. ASSUME NEW m \in Msg, SubmitMessage(m) PROVE OnceInv'
  <2>1. /\ UNCHANGED <<row, worker, job, accepted>> /\ Publish({RequestOf(m)})
        /\ spent'.faults = spent.faults /\ spent'.resends = spent.resends
        /\ spent'.deletes = spent.deletes
    BY <1>1, <1>7 DEF SubmitMessage
  <2>2. RequestOf(m) \notin Deletes /\ \A c \in Channels, n \in Msg : SendCommand(c, n) # RequestOf(m)
    BY Kinds DEF Deletes, RequestOf, SendCommand
  <2>3. Disturbances' = Disturbances
    BY <2>1 DEF Disturbances
  <2>4. \A x \in Deletes : ready'[x] = ready[x]
    BY <1>5, <2>1, <2>2
  <2>5. \A n \in Msg, c \in Channels : ready'[SendCommand(c, n)] = ready[SendCommand(c, n)]
    BY <1>4, <2>1, <2>2
  <2>6. \A n \in Msg, c \in Channels :
          ready'[SendCommand(c, n)] + Disturbances <= ready[SendCommand(c, n)] + Disturbances'
    BY <1>1, <1>6, <2>3, <2>5
  <2> QED BY <1>3, <2>1, <2>4, <2>6
<1>8. ASSUME NEW m \in Msg, DueTimeComes(m) PROVE OnceInv'
  <2>1. UNCHANGED <<row, worker, job, accepted, ready, spent>>
    BY <1>8 DEF DueTimeComes
  <2>2. Disturbances' = Disturbances
    BY <2>1 DEF Disturbances
  <2> QED BY <1>1, <1>3, <1>6, <2>1, <2>2
<1>9. ASSUME NEW cmd \in Deletes, SubmitDelete(cmd) PROVE OnceInv'
  <2>1. /\ UNCHANGED <<row, worker, job, accepted>> /\ Publish({cmd})
        /\ spent'.faults = spent.faults /\ spent'.resends = spent.resends
        /\ spent'.deletes = spent.deletes + 1 /\ spent.deletes \in Nat
    BY <1>1, <1>9 DEF SubmitDelete
  <2>2. \A c \in Channels, n \in Msg : SendCommand(c, n) # cmd
    BY Kinds DEF SendCommand
  <2>3. Disturbances' = Disturbances
    BY <2>1 DEF Disturbances
  <2>4. spent'.deletes # 0
    BY <2>1
  <2>5. \A n \in Msg, c \in Channels : ready'[SendCommand(c, n)] = ready[SendCommand(c, n)]
    BY <1>4, <2>1, <2>2
  <2>6. \A n \in Msg, c \in Channels :
          ready'[SendCommand(c, n)] + Disturbances <= ready[SendCommand(c, n)] + Disturbances'
    BY <1>1, <1>6, <2>3, <2>5
  <2> QED BY <1>3, <2>1, <2>4, <2>6
<1>10. ASSUME NEW chosen \in SUBSET Msg, ReSendFailedSms(chosen) PROVE OnceInv'
  <2>1. /\ UNCHANGED <<row, worker, job, accepted>>
        /\ Publish({SendCommand("Sms", m) : m \in chosen})
        /\ spent'.faults = spent.faults /\ spent'.resends = spent.resends + 1
        /\ spent'.deletes = spent.deletes
    BY <1>1, <1>10 DEF ReSendFailedSms
  <2>2. Disturbances' = Disturbances + 1
    BY <1>1, <2>1 DEF Disturbances
  <2>3. \A x \in Command : ready'[x] = ready[x] \/ ready'[x] = ready[x] + 1
    BY <2>1, PublishSome
  <2>4. \A x \in Deletes : ready'[x] = ready[x]
    <3>1. \A x \in Deletes : /\ x \in Command
                               /\ x \notin {SendCommand("Sms", m) : m \in chosen}
      BY DEF Deletes, Command, SendCommand
    <3> QED BY <2>1, <3>1, PublishSome
  <2> QED BY <1>1, <1>2, <1>3, <1>6, <2>1, <2>2, <2>3, <2>4
<1>11. ASSUME NEW m \in Msg, NEW id \in Ids, NEW delivered \in BOOLEAN,
              ReportDelivery(m, id, delivered)
       PROVE  OnceInv'
  <2> DEFINE cmd == [type |-> "SmsDelivery", msg |-> m, id |-> id, delivered |-> delivered]
  <2>1. UNCHANGED <<row, worker, job, accepted, spent>> /\ Publish({cmd})
    BY <1>11 DEF ReportDelivery
  <2>2. cmd \notin Deletes /\ \A c \in Channels, n \in Msg : SendCommand(c, n) # cmd
    <3>1. cmd.type = "SmsDelivery"
      OBVIOUS
    <3> HIDE DEF cmd
    <3> QED BY <3>1, Kinds DEF Deletes, SendCommand
  <2> HIDE DEF cmd
  <2>3. Disturbances' = Disturbances
    BY <2>1 DEF Disturbances
  <2>4. \A x \in Deletes : ready'[x] = ready[x]
    BY <1>5, <2>1, <2>2
  <2>5. \A n \in Msg, c \in Channels : ready'[SendCommand(c, n)] = ready[SendCommand(c, n)]
    BY <1>4, <2>1, <2>2
  <2>6. \A n \in Msg, c \in Channels :
          ready'[SendCommand(c, n)] + Disturbances <= ready[SendCommand(c, n)] + Disturbances'
    BY <1>1, <1>6, <2>3, <2>5
  <2> QED BY <1>3, <2>1, <2>4, <2>6
<1> QED BY <1>7, <1>8, <1>9, <1>10, <1>11 DEF Clients

\* A job that runs turns what it planned into commands.
LEMMA JobPaid ==
  ASSUME TypeInv, TypeInv', UNCHANGED <<row, worker, accepted>>, NEW j \in JobIds, NEW new,
         JobBecomes(j, new), NEW m \in Msg, NEW c \in Channels, PaidFor(m, c),
         PlannedOf(new, m, c) + ready'[SendCommand(c, m)] + Disturbances
           <= PlannedOf(job[j], m, c) + ready[SendCommand(c, m)] + Disturbances'
  PROVE  PaidFor(m, c)'
<1>1. IsFiniteSet(Planned(m, c))
  BY DEF PaidFor
<1>2. /\ IsFiniteSet(Planned(m, c)') /\ Cardinality(Planned(m, c)') \in Nat
      /\ Cardinality(Planned(m, c)') + PlannedOf(job[j], m, c)
           = Cardinality(Planned(m, c)) + PlannedOf(new, m, c)
  BY <1>1, PlannedMoves
<1>3. PlannedOf(job[j], m, c) \in Nat /\ PlannedOf(new, m, c) \in Nat
  BY DEF PlannedOf
<1> QED BY <1>2, <1>3, PaidRest

LEMMA JobsOnce ==
  ASSUME TypeInv, TypeInv', OnceInv, NEW j \in JobIds, RunJob(j) \/ JobFails(j)
  PROVE  OnceInv'
<1>1. job[j] # NoJob /\ UNCHANGED <<row, worker, accepted>>
  BY DEF RunJob, JobFails, StartJob, JobPublish, EndJob
<1>2. job[j] \in Job /\ job[j].msg \in Msg
  BY <1>1 DEF TypeInv, TypeOK, Job
<1>3. ASSUME NEW new, JobBecomes(j, new), \A cmd \in Deletes : ready'[cmd] = ready[cmd], Charged,
             \A m \in Msg, c \in Channels :
               PlannedOf(new, m, c) + ready'[SendCommand(c, m)] + Disturbances
                 <= PlannedOf(job[j], m, c) + ready[SendCommand(c, m)] + Disturbances'
      PROVE  OnceInv'
  <2>1. spent'.deletes = spent.deletes
    BY <1>3, ChargedCosts
  <2>2. \A m \in Msg, c \in Channels : PaidFor(m, c) => PaidFor(m, c)'
    BY <1>1, <1>3, JobPaid
  <2> QED BY <1>1, <1>3, <2>1, <2>2, RestOnce
<1>4. \A m \in Msg, c \in Channels : ready[SendCommand(c, m)] \in Nat
  BY CountsNat
<1>5. \A m, c, k : PlannedOf(k, m, c) = 0 \/ PlannedOf(k, m, c) = 1
  BY DEF PlannedOf
<1>6. CASE StartJob(j)
  <2> DEFINE new == [job[j] EXCEPT !.phase = "running"]
  <2>1. new.msg = job[j].msg /\ new.phase = "running" /\ job[j].phase = "scheduled"
    BY <1>2, <1>6 DEF Job, StartJob
  <2>2. JobBecomes(j, new) /\ UNCHANGED <<ready, spent>>
    BY <1>6 DEF StartJob, JobBecomes
  <2> HIDE DEF new
  <2>3. \A m, c : PlannedOf(job[j], m, c) = 1 \/ PlannedOf(new, m, c) = 0
    BY <1>1, <2>1 DEF PlannedOf, JobMaySend
  <2>4. Disturbances' = Disturbances /\ Disturbances \in Nat
    BY <2>2, NoCost
  <2>5. \A m \in Msg, c \in Channels :
          PlannedOf(new, m, c) + ready'[SendCommand(c, m)] + Disturbances
            <= PlannedOf(job[j], m, c) + ready[SendCommand(c, m)] + Disturbances'
    <3> SUFFICES ASSUME NEW m \in Msg, NEW c \in Channels
                 PROVE  PlannedOf(new, m, c) + ready'[SendCommand(c, m)] + Disturbances
                          <= PlannedOf(job[j], m, c) + ready[SendCommand(c, m)] + Disturbances'
      OBVIOUS
    <3>1. /\ PlannedOf(new, m, c) = 0 \/ PlannedOf(new, m, c) = 1
          /\ PlannedOf(job[j], m, c) = 0 \/ PlannedOf(job[j], m, c) = 1
          /\ ready[SendCommand(c, m)] \in Nat
      BY <1>4, <1>5
    <3> QED BY <2>2, <2>3, <2>4, <3>1
  <2> QED BY <1>3, <2>2, <2>5 DEF Charged
<1>7. CASE EndJob(j)
  <2> DEFINE new == [job[j] EXCEPT !.phase = "over"]
  <2>1. new.phase = "over"
    BY <1>2 DEF Job
  <2>2. JobBecomes(j, new) /\ UNCHANGED <<ready, spent>>
    BY <1>7 DEF EndJob, JobBecomes
  <2> HIDE DEF new
  <2>3. \A m, c : PlannedOf(new, m, c) = 0
    BY <2>1 DEF PlannedOf, JobMaySend
  <2>4. Disturbances' = Disturbances /\ Disturbances \in Nat
    BY <2>2, NoCost
  <2>5. \A m \in Msg, c \in Channels :
          PlannedOf(new, m, c) + ready'[SendCommand(c, m)] + Disturbances
            <= PlannedOf(job[j], m, c) + ready[SendCommand(c, m)] + Disturbances'
    BY <1>4, <1>5, <2>2, <2>3, <2>4
  <2> QED BY <1>3, <2>2, <2>5 DEF Charged
<1>8. CASE JobFails(j)
  <2> DEFINE new == [job[j] EXCEPT !.phase = "scheduled", !.todo = Channels]
  <2>1. job' = [job EXCEPT ![j] = new]
    BY <1>8 DEF JobFails
  <2>2. JobBecomes(j, new) /\ UNCHANGED ready /\ Fault("job")
    BY <1>8, <2>1 DEF JobFails, JobBecomes
  <2> HIDE DEF new
  <2>3. Disturbances' = Disturbances + 1 /\ Disturbances \in Nat
    BY <2>2, FaultCosts
  <2>4. \A m \in Msg, c \in Channels :
          PlannedOf(new, m, c) + ready'[SendCommand(c, m)] + Disturbances
            <= PlannedOf(job[j], m, c) + ready[SendCommand(c, m)] + Disturbances'
    <3> SUFFICES ASSUME NEW m \in Msg, NEW c \in Channels
                 PROVE  PlannedOf(new, m, c) + ready'[SendCommand(c, m)] + Disturbances
                          <= PlannedOf(job[j], m, c) + ready[SendCommand(c, m)] + Disturbances'
      OBVIOUS
    <3>1. /\ PlannedOf(new, m, c) = 0 \/ PlannedOf(new, m, c) = 1
          /\ PlannedOf(job[j], m, c) = 0 \/ PlannedOf(job[j], m, c) = 1
          /\ ready[SendCommand(c, m)] \in Nat
      BY <1>4, <1>5
    <3> QED BY <2>2, <2>3, <3>1
  <2> QED BY <1>3, <2>2, <2>4 DEF Charged
<1>9. ASSUME NEW d \in Channels, JobPublish(j, d) PROVE OnceInv'
  <2> DEFINE new == [job[j] EXCEPT !.todo = job[j].todo \ {d}]
  <2>1. /\ new.msg = job[j].msg /\ new.phase = "running" /\ job[j].phase = "running"
        /\ new.todo = job[j].todo \ {d} /\ d \in job[j].todo
    BY <1>2, <1>9 DEF Job, JobPublish, IsNext
  <2>2. /\ JobBecomes(j, new) /\ UNCHANGED spent
        /\ Publish({SendCommand(d, job[j].msg)})
    BY <1>9 DEF JobPublish, JobBecomes
  <2> HIDE DEF new
  <2>3. Disturbances' = Disturbances /\ Disturbances \in Nat
    BY <2>2, NoCost
  <2>4. \A cmd \in Deletes : ready'[cmd] = ready[cmd]
    <3>1. \A cmd \in Deletes : cmd \in Command /\ cmd # SendCommand(d, job[j].msg)
      BY Kinds DEF Command, SendCommand
    <3> QED BY <2>2, <3>1, PublishSome
  <2>5. \A m \in Msg, c \in Channels :
          PlannedOf(new, m, c) + ready'[SendCommand(c, m)] + Disturbances
            <= PlannedOf(job[j], m, c) + ready[SendCommand(c, m)] + Disturbances'
    <3> SUFFICES ASSUME NEW m \in Msg, NEW c \in Channels
                 PROVE  PlannedOf(new, m, c) + ready'[SendCommand(c, m)] + Disturbances
                          <= PlannedOf(job[j], m, c) + ready[SendCommand(c, m)] + Disturbances'
      OBVIOUS
    <3>1. ready[SendCommand(c, m)] \in Nat /\ SendCommand(c, m) \in Command
      BY <1>4, Kinds
    <3>2. CASE SendCommand(c, m) = SendCommand(d, job[j].msg)
      <4>1. c = d /\ m = job[j].msg
        BY <3>2 DEF SendCommand
      <4>2. PlannedOf(job[j], m, c) = 1 /\ PlannedOf(new, m, c) = 0
        BY <1>1, <2>1, <4>1 DEF PlannedOf, JobMaySend
      <4>3. \/ ready'[SendCommand(c, m)] = ready[SendCommand(c, m)]
            \/ ready'[SendCommand(c, m)] = ready[SendCommand(c, m)] + 1
        BY <2>2, <3>1, PublishSome
      <4> QED BY <2>3, <3>1, <4>2, <4>3
    <3>3. CASE SendCommand(c, m) # SendCommand(d, job[j].msg)
      <4>1. ready'[SendCommand(c, m)] = ready[SendCommand(c, m)]
        BY <2>2, <3>1, <3>3, PublishSome
      <4>2. PlannedOf(job[j], m, c) = 1 \/ PlannedOf(new, m, c) = 0
        BY <1>1, <2>1 DEF PlannedOf, JobMaySend
      <4>3. /\ PlannedOf(new, m, c) = 0 \/ PlannedOf(new, m, c) = 1
            /\ PlannedOf(job[j], m, c) = 0 \/ PlannedOf(job[j], m, c) = 1
        BY <1>5
      <4> QED BY <2>3, <3>1, <4>1, <4>2, <4>3
    <3> QED BY <3>2, <3>3
  <2> QED BY <1>3, <2>2, <2>4, <2>5 DEF Charged
<1> QED BY <1>6, <1>7, <1>8, <1>9 DEF RunJob

\* A row deleted over HTTP is one that may be deleted.
LEMMA ByTagOnce ==
  ASSUME TypeInv, TypeInv', OnceInv, NEW m \in Msg, DeleteByTag(m)
  PROVE  OnceInv'
<1>1. /\ UNCHANGED <<ready, worker, job, accepted>> /\ m \in Due
      /\ row' = [row EXCEPT ![m] = NoRow]
  BY DEF DeleteByTag, RowDeleted
<1>2. /\ spent'.deletes # 0 /\ spent'.faults = spent.faults /\ spent'.resends = spent.resends
  <2>1. spent \in [faults : Nat, resends : Nat, deletes : Nat, requests : [Msg -> Nat],
                   kinds : SUBSET FaultKinds]
    BY DEF TypeInv, TypeOK
  <2> QED BY <2>1 DEF DeleteByTag
<1>3. \A n \in Msg : Undeleted(n)' => row'[n] = row[n]
  BY <1>1, <1>2 DEF Undeleted, TypeInv, TypeOK
<1>4. ASSUME NEW n \in Msg, NEW c \in Channels, PaidFor(n, c), Undeleted(n)' PROVE PaidFor(n, c)'
  <2>1. Open(n, c)' = Open(n, c) /\ Planned(n, c)' = Planned(n, c)
    BY <1>1 DEF Open, Planned, MaySend, JobMaySend, SendCommand
  <2>2. row'[n] = row[n] /\ Disturbances' = Disturbances
    BY <1>2, <1>3, <1>4 DEF Disturbances
  <2>3. Unborn(row[n])' = Unborn(row[n]) /\ SendCommand(c, n)' = SendCommand(c, n)
    BY <2>2 DEF Unborn, SendCommand
  <2>4. /\ Cardinality(Open(n, c)') = Cardinality(Open(n, c)) /\ IsFiniteSet(Open(n, c)')
        /\ Cardinality(Planned(n, c)') = Cardinality(Planned(n, c)) /\ IsFiniteSet(Planned(n, c)')
    BY <1>4, <2>1 DEF PaidFor
  <2> QED BY <1>1, <1>4, <2>2, <2>3, <2>4 DEF PaidFor
<1> QED BY <1>1, <1>2, <1>3, <1>4, RestOnce

LEMMA NextOnce ==
  TypeInv /\ TypeInv' /\ StepsInv /\ OnceInv /\ [Next]_vars => OnceInv'
<1> SUFFICES ASSUME TypeInv, TypeInv', StepsInv, OnceInv, [Next]_vars PROVE OnceInv'
  OBVIOUS
<1>1. ASSUME NEW w \in Workers, Consume(w) PROVE OnceInv'
  BY <1>1, IsExistOnce, AddRowOnce, ScheduleOnce, SaveOnce, PublishOnce, CatchOnce,
     LoadForSendOnce, CallOnce, RecordOnce, ReportOnce, LoadForDeleteOnce, DeleteOnce
     DEF Consume, HandleRequest, HandleSend, HandleDelete
<1>2. CASE Broker
  BY <1>2, DeliverOnce, ReadFailsOnce, CrashOnce, DisconnectOnce DEF Broker
<1>3. CASE UNCHANGED vars
  <2>1. UNCHANGED <<row, worker, job, accepted, ready, spent>>
    BY <1>3 DEF vars
  <2>2. \A m \in Msg, c \in Channels : PaidFor(m, c) => PaidFor(m, c)'
    <3>1. Disturbances' = Disturbances /\ Disturbances \in Nat
      BY <2>1, NoCost
    <3>2. \A m \in Msg, c \in Channels :
             ready'[SendCommand(c, m)] + Disturbances <= ready[SendCommand(c, m)] + Disturbances'
      BY <2>1, <3>1, CountsNat
    <3> QED BY <2>1, <3>2, ClientPaid
  <2> QED BY <2>1, <2>2, RestOnce
<1> QED BY <1>1, <1>2, <1>3, ClientsOnce, JobsOnce, ByTagOnce DEF Next

LEMMA InitOnce == ASSUME IsFiniteSet(Workers), IsFiniteSet(JobIds), Init PROVE OnceInv
<1>1. DeletesInv /\ JobsForDue
  BY DEF Init, DeletesInv, JobsForDue, Command
<1>2. ASSUME NEW m \in Msg PROVE OneHandler(m)
  BY DEF Init, OneHandler, Handling
<1>3. ASSUME NEW m \in Msg, NEW c \in Channels PROVE PaidFor(m, c)
  <2>1. Open(m, c) = {} /\ Planned(m, c) = {}
    BY DEF Init, Open, MaySend, Planned, JobMaySend
  <2>2. IsFiniteSet({}) /\ Cardinality({}) = 0
    BY FS_EmptySet
  <2>3. accepted[m][c] = 0 /\ Unborn(row[m]) = 1 /\ ready[SendCommand(c, m)] = 0
        /\ Disturbances = 0
    BY Kinds DEF Init, Unborn, Disturbances
  <2>4. /\ IsFiniteSet(Open(m, c)) /\ IsFiniteSet(Planned(m, c))
        /\ Cardinality(Open(m, c)) = 0 /\ Cardinality(Planned(m, c)) = 0
    BY <2>1, <2>2
  <2> QED BY <2>3, <2>4 DEF PaidFor
<1> QED BY <1>1, <1>2, <1>3 DEF OnceInv

LEMMA OnceImplies == TypeInv /\ OnceInv => DuplicatesAreDisturbances
<1> SUFFICES ASSUME TypeInv, OnceInv, NEW m \in Msg, NEW c \in Channels, Undeleted(m)
             PROVE  accepted[m][c] <= 1 + Disturbances
  BY DEF DuplicatesAreDisturbances, Undeleted
<1>1. PaidFor(m, c)
  BY OwnOnce
<1>2. Cardinality(Open(m, c)) \in Nat /\ Cardinality(Planned(m, c)) \in Nat
  BY <1>1, FS_CardinalityType DEF PaidFor
<1>3. accepted[m][c] \in Nat /\ ready[SendCommand(c, m)] \in Nat /\ Disturbances \in Nat
      /\ Unborn(row[m]) \in Nat
  BY CountsNat DEF Unborn
<1> QED BY <1>1, <1>2, <1>3 DEF PaidFor

\* A provider takes a message once for its request and at most once more for each
\* fault or re-send: what is accepted, what may still be sent and the request
\* itself never add up to more.  The message is one that is not deleted; there are
\* finitely many consumers and jobs.
THEOREM DispatchDuplicatesBounded ==
  ASSUME IsFiniteSet(Workers), IsFiniteSet(JobIds)
  PROVE  Spec => []DuplicatesAreDisturbances
<1>1. Init => TypeInv /\ StepsInv /\ OnceInv
  <2>1. Init => StepsInv
    BY DEF Init, StepsInv, InPlace
  <2> QED BY <2>1, InitTypeInv, InitOnce
<1>2. TypeInv /\ StepsInv /\ OnceInv /\ [Next]_vars => TypeInv' /\ StepsInv' /\ OnceInv'
  BY NextTypeInv, NextSteps, NextOnce
<1>3. TypeInv /\ StepsInv /\ OnceInv => DuplicatesAreDisturbances
  BY OnceImplies
<1> QED BY <1>1, <1>2, <1>3, PTL DEF Spec
=============================================================================
