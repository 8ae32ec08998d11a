-------------------------- MODULE DispatchRows_proofs --------------------------
(***************************************************************************)
(* Proofs about the rows of Dispatch.  A channel that is settled stays     *)
(* settled while one command of a message is in flight at a time; with SMS *)
(* alone such a row goes through the history of MessageLifecycle, step for *)
(* step; and a row that waits for its time names a job that will send it.  *)
(***************************************************************************)
EXTENDS DispatchTime_proofs

-----------------------------------------------------------------------------
(* A settled channel stays settled                                         *)

\* A channel of a message has one command in flight at a time: nothing is
\* scheduled, no operator re-sends, and no fault makes a second copy of a
\* command or lets its first consumer run on beside a second one.
OneAtATime ==
  /\ Due = {} /\ MaxResends = 0
  /\ FaultKinds \cap {"publish", "lostConfirm", "disconnect"} = {}

NoJobs ==
  /\ \A j \in JobIds : job[j] = NoJob
  /\ \A w \in Workers : worker[w] # Idle => worker[w].step # "schedule"

\* The consumer has the command of c of m, or will publish it.
Carries(s, m, c) ==
  /\ s # Idle /\ s.cmd.msg = m
  /\ \/ s.step \in {"save", "catch"}
     \/ s.step = "publish" /\ c \in s.todo
     \/ s.cmd = SendCommand(c, m)

\* There is one carrier, or one command in the queue, and then there is a row.
Sole(m, c) ==
  /\ ready[SendCommand(c, m)] <= 1
  /\ ready[SendCommand(c, m)] > 0 =>
       row[m] # NoRow /\ \A w \in Workers : ~Carries(worker[w], m, c)
  /\ \A w \in Workers : Carries(worker[w], m, c) => row[m] # NoRow
  /\ \A v, w \in Workers : Carries(worker[v], m, c) /\ Carries(worker[w], m, c) => v = w

Unfinished(m, c) ==
  \/ row[m] = NoRow \/ ready[SendCommand(c, m)] > 0
  \/ \E w \in Workers : Carries(worker[w], m, c)

\* The consumer has an outcome that is final.
Decided(s, m, c) == s.cmd = SendCommand(c, m) /\ s.step = "record" /\ ~s.failed

\* Up to then neither the row nor a copy of it is settled in c.
Unsettled(m, c) ==
  /\ row[m] # NoRow => ~Settled(row[m], c)
  /\ \A w \in Workers :
       /\ worker[w] # Idle /\ worker[w].cmd.msg = m /\ worker[w].snap # NoRow
       /\ ~Decided(worker[w], m, c)
       => ~Settled(worker[w].snap, c)

Kept(m, c) == Sole(m, c) /\ (Unfinished(m, c) => Unsettled(m, c))

\* A report that is about to be saved settles the SMS.
ReportsSettle ==
  \A w \in Workers : worker[w] # Idle =>
    (worker[w].step = "record" /\ worker[w].cmd \in Reports => Settled(worker[w].snap, "Sms"))

SoleInv == NoJobs /\ ReportsSettle /\ \A m \in Msg, c \in Channels : Kept(m, c)

\* A consumer passes its command on: to the queue, to its next step, or it is
\* done with it.
Moves(w, s, m, c) ==
  /\ Become(w, s) /\ worker[w] # Idle
  /\ Carries(s, m, c) =>
       /\ row'[m] # NoRow /\ (Carries(worker[w], m, c) \/ row[m] = NoRow)
       /\ ready'[SendCommand(c, m)] = ready[SendCommand(c, m)]
  /\ row'[m] = NoRow => row[m] = NoRow \/ Carries(worker[w], m, c)
  /\ \/ ready'[SendCommand(c, m)] = ready[SendCommand(c, m)]
     \/ /\ ready'[SendCommand(c, m)] = ready[SendCommand(c, m)] + 1
        /\ Carries(worker[w], m, c) /\ ~Carries(s, m, c) /\ row'[m] # NoRow

\* What it writes, to the row or to its copy, is not settled, or it is final.
Clean(w, s, m, c) ==
  Unsettled(m, c) =>
    /\ \/ row'[m] # NoRow => ~Settled(row'[m], c)
       \/ /\ Carries(worker[w], m, c) /\ s = Idle /\ row'[m] # NoRow
          /\ ready'[SendCommand(c, m)] = ready[SendCommand(c, m)]
    /\ s # Idle /\ s.snap # NoRow /\ ~Decided(s, m, c) => ~Settled(s.snap, c)

LEMMA SoleStep ==
  ASSUME TypeInv, NEW w \in Workers, NEW s, NEW m \in Msg, NEW c \in Channels,
         Sole(m, c), Moves(w, s, m, c)
  PROVE  Sole(m, c)'
<1>1. worker'[w] = s /\ \A v \in Workers \ {w} : worker'[v] = worker[v]
  BY Becoming DEF Moves
<1>2. ready[SendCommand(c, m)] \in Nat
  BY CountsNat
<1>3. ready'[SendCommand(c, m)] <= 1
  BY <1>2 DEF Moves, Sole
<1>4. ASSUME ready'[SendCommand(c, m)] > 0, NEW v \in Workers
      PROVE  row'[m] # NoRow /\ ~Carries(worker'[v], m, c)
  <2>1. CASE ready'[SendCommand(c, m)] = ready[SendCommand(c, m)]
    <3>1. row[m] # NoRow /\ \A u \in Workers : ~Carries(worker[u], m, c)
      BY <1>4, <2>1 DEF Sole
    <3> QED BY <1>1, <2>1, <3>1 DEF Moves
  <2>2. CASE /\ Carries(worker[w], m, c) /\ ~Carries(s, m, c) /\ row'[m] # NoRow
    <3>1. \A u \in Workers \ {w} : ~Carries(worker[u], m, c)
      BY <2>2 DEF Sole
    <3> QED BY <1>1, <2>2, <3>1
  <2> QED BY <2>1, <2>2 DEF Moves
<1>5. ASSUME NEW v \in Workers, Carries(worker'[v], m, c) PROVE row'[m] # NoRow
  <2>1. CASE v = w
    BY <1>1, <1>5, <2>1 DEF Moves
  <2>2. CASE v # w
    <3>1. Carries(worker[v], m, c) /\ row[m] # NoRow /\ ~Carries(worker[w], m, c)
      BY <1>1, <1>5, <2>2 DEF Sole
    <3> QED BY <3>1 DEF Moves
  <2> QED BY <2>1, <2>2
<1>6. ASSUME NEW u \in Workers, NEW v \in Workers, Carries(worker'[u], m, c),
             Carries(worker'[v], m, c)
      PROVE  u = v
  <2>1. \A x \in Workers : Carries(worker'[x], m, c) =>
          Carries(worker[x], m, c) \/ (x = w /\ row[m] = NoRow)
    BY <1>1 DEF Moves
  <2>2. row[m] = NoRow => \A x \in Workers : ~Carries(worker[x], m, c)
    BY DEF Sole
  <2> QED BY <1>6, <2>1, <2>2 DEF Sole
<1>7. SendCommand(c, m)' = SendCommand(c, m)
  BY DEF SendCommand
<1>8. /\ \A v \in Workers : Carries(worker'[v], m, c) => row'[m] # NoRow
      /\ \A u, v \in Workers : Carries(worker'[u], m, c) /\ Carries(worker'[v], m, c) => u = v
      /\ ready'[SendCommand(c, m)] > 0 =>
           row'[m] # NoRow /\ \A v \in Workers : ~Carries(worker'[v], m, c)
  <2>1. ready'[SendCommand(c, m)] > 0 =>
           row'[m] # NoRow /\ \A v \in Workers : ~Carries(worker'[v], m, c)
    BY <1>4
  <2> QED BY <1>5, <1>6, <2>1
<1> QED BY <1>3, <1>7, <1>8 DEF Sole, Carries, SendCommand

LEMMA KeptStep ==
  ASSUME TypeInv, NEW w \in Workers, NEW s, NEW m \in Msg, NEW c \in Channels,
         Kept(m, c), Moves(w, s, m, c), Clean(w, s, m, c)
  PROVE  Kept(m, c)'
<1>1. worker'[w] = s /\ \A v \in Workers \ {w} : worker'[v] = worker[v]
  BY Becoming DEF Moves
<1>2. Sole(m, c) /\ Sole(m, c)'
  BY SoleStep DEF Kept
<1>3. ready[SendCommand(c, m)] \in Nat /\ SendCommand(c, m)' = SendCommand(c, m)
  BY CountsNat DEF SendCommand
<1>4. ASSUME Unfinished(m, c)' PROVE Unfinished(m, c)
  <2>1. \/ row'[m] = NoRow \/ ready'[SendCommand(c, m)] > 0
        \/ \E v \in Workers : Carries(worker'[v], m, c)
    BY <1>3, <1>4 DEF Unfinished, Carries, SendCommand
  <2>2. CASE row'[m] = NoRow
    BY <2>2 DEF Unfinished, Moves
  <2>3. CASE ready'[SendCommand(c, m)] > 0
    BY <2>3 DEF Unfinished, Moves
  <2>4. CASE \E v \in Workers : Carries(worker'[v], m, c)
    BY <1>1, <2>4 DEF Unfinished, Moves
  <2> QED BY <2>1, <2>2, <2>3, <2>4
<1>5. ASSUME Unfinished(m, c)' PROVE Unsettled(m, c)'
  <2>1. Unsettled(m, c)
    BY <1>4, <1>5 DEF Kept
  <2>2. row'[m] # NoRow => ~Settled(row'[m], c)
    <3>1. CASE row'[m] # NoRow => ~Settled(row'[m], c)
      BY <3>1
    <3>2. CASE /\ Carries(worker[w], m, c) /\ s = Idle /\ row'[m] # NoRow
               /\ ready'[SendCommand(c, m)] = ready[SendCommand(c, m)]
      <4>1. \A v \in Workers : ~Carries(worker'[v], m, c)
        BY <1>1, <1>2, <3>2 DEF Sole, Carries
      <4>2. ~(ready'[SendCommand(c, m)] > 0)
        BY <1>2, <3>2 DEF Sole
      <4>3. ~Unfinished(m, c)'
        BY <1>3, <3>2, <4>1, <4>2 DEF Unfinished, Carries, SendCommand
      <4> QED BY <1>5, <4>3
    <3> QED BY <2>1, <3>1, <3>2 DEF Clean
  <2>3. ASSUME NEW v \in Workers, worker'[v] # Idle, worker'[v].cmd.msg = m,
               worker'[v].snap # NoRow, ~Decided(worker'[v], m, c)
        PROVE  ~Settled(worker'[v].snap, c)
    <3>1. CASE v = w
      BY <1>1, <2>1, <2>3, <3>1 DEF Clean
    <3>2. CASE v # w
      BY <1>1, <2>1, <2>3, <3>2 DEF Unsettled
    <3> QED BY <3>1, <3>2
  <2> QED BY <2>2, <2>3 DEF Unsettled, Decided, SendCommand, Settled
<1> QED BY <1>2, <1>5 DEF Kept

\* A step that is about another message.
LEMMA KeptElsewhere ==
  ASSUME TypeInv, NEW w \in Workers, NEW s, Become(w, s), worker[w] # Idle,
         s # Idle => s.cmd = worker[w].cmd, NEW m \in Msg \ {MessageOf(w)}, NEW c \in Channels,
         row'[m] = row[m], ready'[SendCommand(c, m)] = ready[SendCommand(c, m)], Kept(m, c)
  PROVE  Kept(m, c)'
<1>1. worker'[w] = s /\ \A v \in Workers \ {w} : worker'[v] = worker[v]
  BY Becoming
<1>2. /\ ~Carries(worker[w], m, c) /\ ~Carries(s, m, c)
      /\ worker[w].cmd.msg # m /\ (s # Idle => s.cmd.msg # m)
  BY DEF Carries, MessageOf
<1>3. Moves(w, s, m, c)
  BY <1>2 DEF Moves
<1>4. Sole(m, c)'
  BY <1>3, SoleStep DEF Kept
<1>5. Unfinished(m, c)' => Unfinished(m, c)
  <2>1. \A v \in Workers : Carries(worker'[v], m, c) => Carries(worker[v], m, c)
    BY <1>1, <1>2
  <2> QED BY <2>1 DEF Unfinished, Carries, SendCommand
<1>6. Unsettled(m, c) => Unsettled(m, c)'
  <2> SUFFICES ASSUME Unsettled(m, c) PROVE Unsettled(m, c)'
    OBVIOUS
  <2>1. ASSUME NEW v \in Workers, worker'[v] # Idle, worker'[v].cmd.msg = m,
               worker'[v].snap # NoRow, ~Decided(worker'[v], m, c)
        PROVE  ~Settled(worker'[v].snap, c)
    BY <1>1, <1>2, <2>1 DEF Unsettled
  <2>2. row'[m] # NoRow => ~Settled(row'[m], c)
    BY DEF Unsettled
  <2> QED BY <2>1, <2>2 DEF Unsettled, Decided, SendCommand, Settled
<1> QED BY <1>4, <1>5, <1>6 DEF Kept

\* What a consumer does leaves the rows and commands of other messages alone.
Elsewhere(w) ==
  \A m \in Msg \ {MessageOf(w)}, c \in Channels :
    row'[m] = row[m] /\ ready'[SendCommand(c, m)] = ready[SendCommand(c, m)]

LEMMA ElsewhereRow ==
  ASSUME TypeInv, NEW w \in Workers, NEW new,
         UNCHANGED row \/ row' = [row EXCEPT ![MessageOf(w)] = new],
         UNCHANGED ready
  PROVE  Elsewhere(w)
BY DEF Elsewhere, TypeInv, TypeOK

LEMMA SoleOwn ==
  ASSUME TypeInv, SoleInv, NEW w \in Workers, NEW s, Become(w, s), worker[w] # Idle,
         s # Idle => s.cmd = worker[w].cmd /\ s.step # "schedule",
         s # Idle => (s.step = "record" /\ s.cmd \in Reports => Settled(s.snap, "Sms")),
         UNCHANGED job, Elsewhere(w), NEW m \in Msg, m = MessageOf(w),
         \A c \in Channels : Kept(m, c) => Moves(w, s, m, c) /\ Clean(w, s, m, c)
  PROVE  SoleInv'
<1>1. worker'[w] = s /\ \A v \in Workers \ {w} : worker'[v] = worker[v]
  BY Becoming
<1>2. NoJobs'
  BY <1>1 DEF SoleInv, NoJobs
<1>3. ReportsSettle'
  <2>1. ASSUME NEW v \in Workers, worker'[v] # Idle, worker'[v].step = "record",
               worker'[v].cmd \in Reports
        PROVE  Settled(worker'[v].snap, "Sms")
    BY <1>1, <2>1 DEF SoleInv, ReportsSettle
  <2> QED BY <2>1 DEF ReportsSettle, Settled
<1>4. ASSUME NEW n \in Msg, NEW c \in Channels PROVE Kept(n, c)'
  <2>1. Kept(n, c)
    BY DEF SoleInv
  <2>2. CASE n = m
    BY <2>1, <2>2, KeptStep
  <2>3. CASE n # m
    <3>1. row'[n] = row[n] /\ ready'[SendCommand(c, n)] = ready[SendCommand(c, n)]
      BY <2>3 DEF Elsewhere
    <3> QED BY <2>1, <2>3, <3>1, KeptElsewhere
  <2> QED BY <2>2, <2>3
<1> QED BY <1>2, <1>3, <1>4 DEF SoleInv

\* Who carries the command of a message with a handler or a sender: its row is there.
LEMMA CarrierHasRow ==
  ASSUME NEW m, NEW c, Kept(m, c), NEW w \in Workers, Carries(worker[w], m, c)
  PROVE  row[m] # NoRow
BY DEF Kept, Sole

LEMMA QueuedValues ==
  ASSUME NEW c \in Channels
  PROVE  /\ ~Settled(NewRow, c)
         /\ \A r \in Row : \A j : ~Settled(EnqueuedRow(r, j), c)
<1>1. NewRow.part[c].status = "Created"
  BY DEF NewRow, NewPart
<1>2. ASSUME NEW r \in Row, NEW j PROVE EnqueuedRow(r, j).part[c].status = "Pending"
  <2>1. r.part[c] \in Part /\ EnqueuedRow(r, j).part[c] = Enqueued(r.part[c])
    BY DEF Row, EnqueuedRow
  <2> QED BY <2>1 DEF Enqueued, Part
<1> QED BY <1>1, <1>2 DEF Settled

\* What the restarted consumer carries it carried before.
LEMMA RestartCarries ==
  ASSUME TypeInv, NEW w \in Workers, worker[w] # Idle, NEW s, Become(w, s),
         Restarts(worker[w], s), NEW m, m = MessageOf(w), NEW c \in Channels, Kept(m, c),
         row'[m] = NoRow <=> row[m] = NoRow,
         ready'[SendCommand(c, m)] = ready[SendCommand(c, m)]
  PROVE  Moves(w, s, m, c)
<1>1. Carries(s, m, c) => Carries(worker[w], m, c)
  BY DEF Restarts, FirstStep, Carries, MessageOf
<1> QED BY <1>1, CarrierHasRow DEF Moves

LEMMA RestartSole ==
  ASSUME TypeInv, SoleInv, NEW w \in Workers, worker[w] # Idle, NEW s, Become(w, s),
         Restarts(worker[w], s), UNCHANGED <<row, ready, job>>
  PROVE  SoleInv'
<1> PICK m : m = MessageOf(w)
  OBVIOUS
<1>1. m \in Msg
  BY BusyFacts DEF TypeInv
<1>2. s # Idle => s.cmd = worker[w].cmd /\ s.step \in {"isExist", "load"} /\ s.snap = NoRow
  BY DEF Restarts, FirstStep
<1>3. ASSUME NEW c \in Channels, Kept(m, c) PROVE Moves(w, s, m, c) /\ Clean(w, s, m, c)
  <2>1. Clean(w, s, m, c)
    BY <1>2 DEF Clean, Unsettled
  <2> QED BY <1>3, <2>1, RestartCarries
<1> QED BY <1>1, <1>2, <1>3, ElsewhereRow, SoleOwn

LEMMA IsExistSole ==
  ASSUME TypeInv, StepsInv, SoleInv, NEW w \in Workers, IsExist(w) PROVE SoleInv'
<1>1. /\ worker[w] # Idle /\ worker[w].step = "isExist" /\ UNCHANGED <<row, ready, job>>
  BY IsExistShape
<1>2. PICK s : /\ Become(w, s)
               /\ s = Idle \/ (Goes(worker[w], s, "add") /\ s.snap = worker[w].snap)
  BY IsExistShape
<1> PICK m : m = MessageOf(w)
  OBVIOUS
<1>3. m \in Msg /\ worker[w].cmd = RequestOf(m) /\ worker[w].cmd.msg = m
  BY <1>1, BusyFacts DEF TypeInv, StepsInv, InPlace, RequestSteps, MessageOf
<1>4. ASSUME NEW c \in Channels, Kept(m, c) PROVE Moves(w, s, m, c) /\ Clean(w, s, m, c)
  <2>1. RequestOf(m) # SendCommand(c, m)
    BY Kinds DEF RequestOf, SendCommand
  <2>2. ~Carries(s, m, c) /\ ~Decided(worker[w], m, c)
    BY <1>1, <1>2, <1>3, <2>1 DEF Carries, Goes, Decided
  <2>3. Clean(w, s, m, c)
    BY <1>1, <1>2, <1>3, <2>2 DEF Clean, Unsettled
  <2> QED BY <1>1, <1>2, <2>2, <2>3 DEF Moves
<1> QED BY <1>1, <1>2, <1>3, <1>4, ElsewhereRow, SoleOwn DEF Goes

LEMMA AddRowSole ==
  ASSUME OneAtATime, TypeInv, StepsInv, SoleInv, NEW w \in Workers, AddRow(w) PROVE SoleInv'
<1>1. worker[w] # Idle /\ worker[w].step = "add" /\ UNCHANGED <<ready, job>>
  BY AddRowShape
<1> PICK m : m = MessageOf(w)
  OBVIOUS
<1>2. m \in Msg /\ worker[w].cmd = RequestOf(m) /\ worker[w].cmd.msg = m
  BY <1>1, BusyFacts DEF TypeInv, StepsInv, InPlace, RequestSteps, MessageOf
<1>3. PICK s :
        /\ Become(w, s)
        /\ \/ /\ row[MessageOf(w)] = NoRow
              /\ row' = [row EXCEPT ![MessageOf(w)] = NewRow]
              /\ Goes(worker[w], s, "save") /\ s.snap = EnqueuedRow(NewRow, NoJob)
           \/ Restarts(worker[w], s) /\ UNCHANGED row
  BY AddRowShape DEF OneAtATime
<1>4. CASE Restarts(worker[w], s) /\ UNCHANGED row
  BY <1>1, <1>3, <1>4, RestartSole
<1>5. CASE /\ row[MessageOf(w)] = NoRow
           /\ row' = [row EXCEPT ![MessageOf(w)] = NewRow]
           /\ Goes(worker[w], s, "save") /\ s.snap = EnqueuedRow(NewRow, NoJob)
  <2>1. NewRow \in Row /\ NewRow # NoRow
    BY RowValues, DispatchAssumption
  <2>2. row'[m] = NewRow /\ row[m] = NoRow
    BY <1>2, <1>5 DEF TypeInv, TypeOK
  <2>3. ASSUME NEW c \in Channels, Kept(m, c) PROVE Moves(w, s, m, c) /\ Clean(w, s, m, c)
    <3>1. ~Settled(NewRow, c) /\ ~Settled(s.snap, c)
      <4>1. ~Settled(NewRow, c) /\ ~Settled(EnqueuedRow(NewRow, NoJob), c)
        BY <2>1, QueuedValues
      <4>2. s.snap = EnqueuedRow(NewRow, NoJob)
        BY <1>5
      <4> QED BY <4>1, <4>2
    <3>2. Moves(w, s, m, c)
      BY <1>1, <1>3, <2>1, <2>2 DEF Moves
    <3> QED BY <2>2, <3>1, <3>2 DEF Clean
  <2>4. Elsewhere(w)
    BY <1>1, <1>5, ElsewhereRow
  <2> QED BY <1>1, <1>2, <1>3, <1>5, <2>3, <2>4, SoleOwn DEF Goes
<1> QED BY <1>3, <1>4, <1>5

LEMMA SaveSole ==
  ASSUME TypeInv, StepsInv, SoleInv, NEW w \in Workers, SavePending(w) PROVE SoleInv'
<1>1. worker[w] # Idle /\ worker[w].step = "save" /\ UNCHANGED <<ready, job>>
  BY SaveShape
<1> PICK m : m = MessageOf(w)
  OBVIOUS
<1>2. m \in Msg /\ worker[w].cmd.msg = m
  BY <1>1, BusyFacts DEF TypeInv, MessageOf
<1>3. PICK s :
        /\ Become(w, s)
        /\ UNCHANGED row \/ row' = [row EXCEPT ![MessageOf(w)] = worker[w].snap]
        /\ \/ s = Idle
           \/ /\ Goes(worker[w], s, "publish") \/ Goes(worker[w], s, "catch")
              /\ s.snap = worker[w].snap
  BY SaveShape
<1>4. worker[w].snap \in Row /\ worker[w].snap # NoRow
  BY <1>1, DispatchAssumption DEF TypeInv, Held, HasSnap
<1>5. row'[m] = row[m] \/ row'[m] = worker[w].snap
  BY <1>2, <1>3 DEF TypeInv, TypeOK
<1>6. ASSUME NEW c \in Channels, Kept(m, c) PROVE Moves(w, s, m, c) /\ Clean(w, s, m, c)
  <2>1. Carries(worker[w], m, c) /\ ~Decided(worker[w], m, c)
    BY <1>1, <1>2 DEF Carries, Decided
  <2>2. row[m] # NoRow /\ row'[m] # NoRow
    BY <1>4, <1>5, <1>6, <2>1, CarrierHasRow
  <2>3. Unsettled(m, c) => ~Settled(worker[w].snap, c) /\ ~Settled(row[m], c)
    BY <1>1, <1>2, <1>4, <2>1, <2>2 DEF Unsettled
  <2>4. Clean(w, s, m, c)
    BY <1>3, <1>5, <2>3 DEF Clean
  <2> QED BY <1>1, <1>3, <2>1, <2>2, <2>4 DEF Moves
<1>7. Elsewhere(w)
  BY <1>1, <1>3, ElsewhereRow
<1> QED BY <1>1, <1>2, <1>3, <1>6, <1>7, SoleOwn DEF Goes

LEMMA PublishSole ==
  ASSUME OneAtATime, TypeInv, StepsInv, SoleInv, NEW w \in Workers, NEW d \in Channels,
         PublishNow(w, d)
  PROVE  SoleInv'
<1>1. /\ worker[w] # Idle /\ worker[w].step = "publish" /\ d \in worker[w].todo
      /\ UNCHANGED <<row, job>>
  BY PublishShape
<1> PICK m : m = MessageOf(w)
  OBVIOUS
<1>2. m \in Msg /\ worker[w].cmd = RequestOf(m) /\ worker[w].cmd.msg = m
  BY <1>1, BusyFacts DEF TypeInv, StepsInv, InPlace, RequestSteps, MessageOf
<1>3. PICK s :
        /\ Become(w, s) /\ Publish({SendCommand(d, MessageOf(w))})
        /\ \/ s = Idle
           \/ /\ Goes(worker[w], s, "publish") /\ s.todo = worker[w].todo \ {d}
              /\ s.snap = worker[w].snap
  BY PublishShape, FaultPays DEF OneAtATime
<1>4. \A x \in Command : ready'[x] = IF x = SendCommand(d, m) THEN ready[x] + 1 ELSE ready[x]
  BY <1>2, <1>3, PublishOne, Kinds
<1>5. ASSUME NEW c \in Channels, Kept(m, c) PROVE Moves(w, s, m, c) /\ Clean(w, s, m, c)
  <2>1. ~Decided(worker[w], m, c) /\ worker[w].cmd # SendCommand(c, m)
    BY <1>1, <1>2, Kinds DEF Decided, RequestOf, SendCommand
  <2>2. Clean(w, s, m, c)
    BY <1>1, <1>2, <1>3, <2>1 DEF Clean, Unsettled
  <2>3. SendCommand(c, m) \in Command
    BY <1>2, Kinds
  <2>4. CASE c = d
    <3>1. Carries(worker[w], m, c) /\ ~Carries(s, m, c)
      BY <1>1, <1>2, <1>3, <2>1, <2>4 DEF Carries, Goes
    <3>2. row'[m] # NoRow
      BY <1>1, <1>5, <3>1, CarrierHasRow
    <3> QED BY <1>1, <1>3, <1>4, <2>2, <2>3, <2>4, <3>1, <3>2 DEF Moves
  <2>5. CASE c # d
    <3>1. Carries(s, m, c) => Carries(worker[w], m, c)
      BY <1>1, <1>2, <1>3, <2>1, <2>5 DEF Carries, Goes
    <3>2. Carries(worker[w], m, c) => row'[m] # NoRow
      BY <1>1, <1>5, CarrierHasRow
    <3>3. ready'[SendCommand(c, m)] = ready[SendCommand(c, m)]
      BY <1>4, <2>3, <2>5 DEF SendCommand
    <3> QED BY <1>1, <1>3, <2>2, <3>1, <3>2, <3>3 DEF Moves
  <2> QED BY <2>4, <2>5
<1>6. Elsewhere(w)
  <2>1. \A n \in Msg \ {m}, c \in Channels :
          SendCommand(c, n) \in Command /\ SendCommand(c, n) # SendCommand(d, m)
    BY Kinds DEF SendCommand
  <2> QED BY <1>1, <1>4, <2>1 DEF Elsewhere
<1> QED BY <1>1, <1>2, <1>3, <1>5, <1>6, SoleOwn DEF Goes

LEMMA CatchSole ==
  ASSUME TypeInv, StepsInv, SoleInv, NEW w \in Workers, CatchDelete(w) PROVE SoleInv'
<1>1. /\ worker[w] # Idle /\ worker[w].step = "catch" /\ UNCHANGED <<ready, job>>
      /\ UNCHANGED row \/ row' = [row EXCEPT ![MessageOf(w)] = NoRow]
  BY CatchShape
<1>2. PICK s : Become(w, s) /\ Restarts(worker[w], s)
  BY CatchShape
<1> PICK m : m = MessageOf(w)
  OBVIOUS
<1>3. m \in Msg /\ worker[w].cmd = RequestOf(m) /\ worker[w].cmd.msg = m
  BY <1>1, BusyFacts DEF TypeInv, StepsInv, InPlace, RequestSteps, MessageOf
<1>4. s # Idle => s.cmd = worker[w].cmd /\ s.step \in {"isExist", "load"} /\ s.snap = NoRow
  BY <1>2 DEF Restarts, FirstStep
<1>5. row'[m] = row[m] \/ row'[m] = NoRow
  BY <1>1, <1>3 DEF TypeInv, TypeOK
<1>6. ASSUME NEW c \in Channels, Kept(m, c) PROVE Moves(w, s, m, c) /\ Clean(w, s, m, c)
  <2>1. RequestOf(m) # SendCommand(c, m)
    BY Kinds DEF RequestOf, SendCommand
  <2>2. ~Carries(s, m, c) /\ Carries(worker[w], m, c)
    BY <1>1, <1>3, <1>4, <2>1 DEF Carries
  <2>3. Clean(w, s, m, c)
    BY <1>4, <1>5 DEF Clean, Unsettled
  <2> QED BY <1>1, <1>2, <2>2, <2>3 DEF Moves
<1>7. Elsewhere(w)
  BY <1>1, ElsewhereRow
<1> QED BY <1>1, <1>2, <1>3, <1>4, <1>6, <1>7, SoleOwn

LEMMA LoadForSendSole ==
  ASSUME TypeInv, SoleInv, NEW w \in Workers, NEW d \in Channels, LoadForSend(w, d)
  PROVE  SoleInv'
<1>1. /\ worker[w] # Idle /\ worker[w].step = "load"
      /\ worker[w].cmd = SendCommand(d, MessageOf(w)) /\ UNCHANGED <<row, ready, job>>
  BY LoadForSendShape
<1>2. PICK s : /\ Become(w, s)
               /\ \/ s = Idle
                  \/ Goes(worker[w], s, "send") /\ s.snap = row[MessageOf(w)]
  BY LoadForSendShape
<1> PICK m : m = MessageOf(w)
  OBVIOUS
<1>3. m \in Msg /\ worker[w].cmd.msg = m
  BY <1>1, BusyFacts DEF TypeInv, MessageOf
<1>4. s # Idle => s.cmd = worker[w].cmd /\ s.step = "send" /\ s.snap = row[m]
  BY <1>2 DEF Goes
<1>5. ASSUME NEW c \in Channels, Kept(m, c) PROVE Moves(w, s, m, c) /\ Clean(w, s, m, c)
  <2>1. Carries(s, m, c) => Carries(worker[w], m, c)
    BY <1>1, <1>3, <1>4 DEF Carries
  <2>2. Carries(s, m, c) => row'[m] # NoRow
    BY <1>1, <1>5, <2>1, CarrierHasRow
  <2>3. Clean(w, s, m, c)
    BY <1>1, <1>4 DEF Clean, Unsettled
  <2> QED BY <1>1, <1>2, <2>1, <2>2, <2>3 DEF Moves
<1>6. Elsewhere(w)
  BY <1>1, ElsewhereRow
<1> QED BY <1>1, <1>2, <1>3, <1>4, <1>5, <1>6, SoleOwn

\* What a consumer holds after it called the provider: its copy, changed in its
\* own channel, and unless it failed there is an outcome.
LEMMA CalledCopies ==
  ASSUME TypeInv, NEW w \in Workers, NEW s, NEW m, NEW d \in Channels, worker[w] # Idle,
         worker[w].snap \in Row, Called(w, s, m, d, worker[w].snap.part[d])
  PROVE  \/ Restarts(worker[w], s)
         \/ /\ Goes(worker[w], s, "record")
            /\ \A c \in Channels \ {d} : s.snap.part[c] = worker[w].snap.part[c]
            /\ \/ ~s.failed
               \/ s.snap.part[d].status = worker[w].snap.part[d].status
<1> PICK o : o = worker[w]
  OBVIOUS
<1> PICK part : part = o.snap.part[d]
  OBVIOUS
<1>1. part \in Part
  BY DEF Row
<1>2. ASSUME NEW p, NEW failed, Recorded(o, s, d, p, failed)
      PROVE  /\ Goes(o, s, "record") /\ s.failed = failed
             /\ \A c \in Channels \ {d} : s.snap.part[c] = o.snap.part[c]
             /\ s.snap.part[d] = p
  <2>1. s.snap = [o.snap EXCEPT !.part[d] = p] /\ o.snap.part \in [Channels -> Part]
    BY <1>2 DEF Recorded, Row
  <2> QED BY <1>2, <2>1 DEF Recorded, Row
<1>3. s = Idle => Restarts(o, s)
  BY DEF Restarts
<1>4. Retry(part).status = part.status
  BY <1>1 DEF Retry, Part
<1>5. Restarts(o, s) \/ \E p : Recorded(o, s, d, p, FALSE) \/ Recorded(o, s, d, Retry(part), TRUE)
  BY <1>3 DEF Called, Answered
<1>6. ASSUME NEW p, Recorded(o, s, d, p, FALSE)
      PROVE  /\ Goes(o, s, "record") /\ ~s.failed
             /\ \A c \in Channels \ {d} : s.snap.part[c] = o.snap.part[c]
  BY <1>2, <1>6
<1>7. ASSUME Recorded(o, s, d, Retry(part), TRUE)
      PROVE  /\ Goes(o, s, "record") /\ s.snap.part[d].status = part.status
             /\ \A c \in Channels \ {d} : s.snap.part[c] = o.snap.part[c]
  BY <1>2, <1>4, <1>7
<1> QED BY <1>5, <1>6, <1>7

LEMMA CallSole ==
  ASSUME TypeInv, SoleInv, NEW w \in Workers, NEW d \in Channels, CallProvider(w, d)
  PROVE  SoleInv'
<1>1. /\ worker[w] # Idle /\ worker[w].step = "send" /\ MessageOf(w) \in Msg
      /\ worker[w].cmd = SendCommand(d, MessageOf(w)) /\ UNCHANGED <<row, ready, job>>
  BY CallShape
<1>2. PICK s : Become(w, s) /\ Called(w, s, MessageOf(w), d, worker[w].snap.part[d])
  BY CallShape
<1> PICK m : m = MessageOf(w)
  OBVIOUS
<1>3. m \in Msg /\ worker[w].cmd.msg = m
  BY <1>1 DEF MessageOf
<1>4. worker[w].snap \in Row /\ worker[w].snap # NoRow
  BY <1>1, DispatchAssumption DEF TypeInv, Held, HasSnap
<1>5. CASE Restarts(worker[w], s)
  BY <1>1, <1>2, <1>5, RestartSole
<1>6. CASE /\ Goes(worker[w], s, "record")
           /\ \A c \in Channels \ {d} : s.snap.part[c] = worker[w].snap.part[c]
           /\ \/ ~s.failed
              \/ s.snap.part[d].status = worker[w].snap.part[d].status
  <2>1. s # Idle /\ s.cmd = worker[w].cmd /\ s.step = "record"
    BY <1>6 DEF Goes
  <2>2. ASSUME NEW c \in Channels, Kept(m, c) PROVE Moves(w, s, m, c) /\ Clean(w, s, m, c)
    <3>1. Carries(s, m, c) => Carries(worker[w], m, c)
      BY <1>1, <1>3, <2>1 DEF Carries
    <3>2. Carries(s, m, c) => row'[m] # NoRow
      BY <1>1, <2>2, <3>1, CarrierHasRow
    <3>3. ~Decided(worker[w], m, c)
      BY <1>1 DEF Decided
    <3>4. Unsettled(m, c) => ~Settled(worker[w].snap, c) /\ (row'[m] # NoRow => ~Settled(row'[m], c))
      BY <1>1, <1>3, <1>4, <3>3 DEF Unsettled
    <3>5. ~Settled(worker[w].snap, c) /\ ~Decided(s, m, c) => ~Settled(s.snap, c)
      <4>1. CASE c # d
        BY <1>6, <4>1 DEF Settled
      <4>2. CASE c = d
        <5>1. ~Decided(s, m, c) => s.failed
          BY <1>1, <2>1, <4>2 DEF Decided
        <5> QED BY <1>6, <4>2, <5>1 DEF Settled
      <4> QED BY <4>1, <4>2
    <3>6. Clean(w, s, m, c)
      BY <3>4, <3>5 DEF Clean
    <3> QED BY <1>1, <1>2, <3>1, <3>2, <3>6 DEF Moves
  <2>3. worker[w].cmd \notin Reports
    BY <1>1, Kinds DEF Reports, SendCommand
  <2>4. Elsewhere(w)
    BY <1>1, ElsewhereRow
  <2> QED BY <1>1, <1>2, <1>3, <2>1, <2>2, <2>3, <2>4, SoleOwn
<1> QED BY <1>1, <1>2, <1>4, <1>5, <1>6, CalledCopies

\* A copy that is written to the row, by a consumer that is then done or starts
\* again: only the outcome of the channel's own consumer may be settled.
LEMMA WriteSole ==
  ASSUME TypeInv, SoleInv, NEW w \in Workers, worker[w] # Idle, worker[w].step = "record",
         NEW s, Become(w, s), Restarts(worker[w], s), UNCHANGED <<ready, job>>,
         UNCHANGED row \/ (/\ row[MessageOf(w)] # NoRow
                           /\ row' = [row EXCEPT ![MessageOf(w)] = worker[w].snap]),
         worker[w].cmd \in Sends /\ ~worker[w].failed => s = Idle
  PROVE  SoleInv'
<1> PICK m : m = MessageOf(w)
  OBVIOUS
<1>1. m \in Msg /\ worker[w].cmd.msg = m /\ worker[w].cmd \in Command
  BY BusyFacts DEF TypeInv, MessageOf
<1>2. worker[w].snap \in Row /\ worker[w].snap # NoRow
  BY DispatchAssumption DEF TypeInv, Held, HasSnap
<1>3. /\ row'[m] = row[m] \/ row'[m] = worker[w].snap
      /\ row'[m] = NoRow <=> row[m] = NoRow
  BY <1>1, <1>2 DEF TypeInv, TypeOK
<1>4. s # Idle => s.cmd = worker[w].cmd /\ s.step \in {"isExist", "load"} /\ s.snap = NoRow
  BY DEF Restarts, FirstStep
<1>5. ASSUME NEW c \in Channels, Kept(m, c) PROVE Moves(w, s, m, c) /\ Clean(w, s, m, c)
  <2>1. Moves(w, s, m, c)
    BY <1>1, <1>3, <1>5, RestartCarries
  <2>2. CASE Decided(worker[w], m, c)
    <3>1. worker[w].cmd = SendCommand(c, m) /\ worker[w].cmd \in Sends /\ ~worker[w].failed
      BY <1>1, <2>2 DEF Decided, SendCommand, Sends
    <3>2. s = Idle /\ Carries(worker[w], m, c)
      BY <1>1, <3>1 DEF Carries
    <3>3. row'[m] # NoRow
      BY <1>3, <1>5, <3>2, CarrierHasRow
    <3> QED BY <2>1, <3>2, <3>3 DEF Clean
  <2>3. CASE ~Decided(worker[w], m, c)
    <3>1. Unsettled(m, c) =>
            ~Settled(worker[w].snap, c) /\ (row[m] # NoRow => ~Settled(row[m], c))
      BY <1>1, <1>2, <2>3 DEF Unsettled
    <3>2. Clean(w, s, m, c)
      BY <1>3, <1>4, <3>1 DEF Clean
    <3> QED BY <2>1, <3>2
  <2> QED BY <2>2, <2>3
<1>6. Elsewhere(w)
  BY <1>1, ElsewhereRow
<1> QED BY <1>1, <1>4, <1>5, <1>6, SoleOwn

LEMMA RecordSole ==
  ASSUME TypeInv, SoleInv, NEW w \in Workers, RecordOutcome(w) PROVE SoleInv'
<1>1. /\ worker[w] # Idle /\ worker[w].step = "record" /\ UNCHANGED <<ready, job>>
      /\ \/ UNCHANGED row
         \/ /\ row[MessageOf(w)] # NoRow
            /\ row' = [row EXCEPT ![MessageOf(w)] = worker[w].snap]
  BY RecordShape
<1>2. PICK s : Become(w, s) /\ IF worker[w].failed THEN Restarts(worker[w], s) ELSE s = Idle
  BY RecordShape
<1>3. Restarts(worker[w], s) /\ (worker[w].cmd \in Sends /\ ~worker[w].failed => s = Idle)
  BY <1>2 DEF Restarts
<1> QED BY <1>1, <1>2, <1>3, WriteSole

LEMMA SaveReportSole ==
  ASSUME TypeInv, SoleInv, NEW w \in Workers, SaveReport(w) PROVE SoleInv'
<1>1. /\ worker[w] # Idle /\ worker[w].step = "record" /\ worker[w].cmd \in Reports
      /\ UNCHANGED <<ready, job>>
  BY SaveReportShape
<1>2. PICK s : /\ Become(w, s)
               /\ \/ /\ row[MessageOf(w)] # NoRow /\ s = Idle
                     /\ row' = [row EXCEPT ![MessageOf(w)] = worker[w].snap]
                  \/ UNCHANGED row /\ Restarts(worker[w], s)
  BY SaveReportShape
<1>3. Restarts(worker[w], s)
  BY <1>2 DEF Restarts
<1>4. worker[w].cmd \notin Sends
  BY <1>1, Kinds DEF Reports, Sends
<1> QED BY <1>1, <1>2, <1>3, <1>4, WriteSole

LEMMA LoadForReportSole ==
  ASSUME TypeInv, SoleInv, NEW w \in Workers, LoadForReport(w) PROVE SoleInv'
<1>1. /\ worker[w] # Idle /\ worker[w].step = "load" /\ worker[w].cmd \in Reports
      /\ UNCHANGED <<row, ready, job>>
  BY LoadForReportShape
<1>2. PICK s : /\ Become(w, s)
               /\ \/ Restarts(worker[w], s)
                  \/ /\ Goes(worker[w], s, "record") /\ row[MessageOf(w)] # NoRow
                     /\ CanReport(row[MessageOf(w)].part["Sms"])
                     /\ s.snap = [row[MessageOf(w)] EXCEPT !.part["Sms"] =
                           Report(row[MessageOf(w)].part["Sms"], worker[w].cmd.delivered)]
  BY LoadForReportShape
<1> PICK m : m = MessageOf(w)
  OBVIOUS
<1>3. m \in Msg /\ worker[w].cmd.msg = m /\ "Sms" \in Channels
  BY <1>1, BusyFacts DEF TypeInv, MessageOf, Reports
<1>4. CASE Restarts(worker[w], s)
  BY <1>1, <1>2, <1>4, RestartSole
<1>5. CASE ~Restarts(worker[w], s)
  <2>1. s # Idle /\ s.cmd = worker[w].cmd /\ s.step = "record" /\ row[m] \in Row
    BY <1>2, <1>3, <1>5 DEF Goes, TypeInv, TypeOK
  <2> PICK part : part = row[m].part["Sms"]
    OBVIOUS
  <2>2. part \in Part /\ part.status = "Sended"
    BY <1>2, <1>3, <1>5, <2>1 DEF Row, CanReport
  <2>3. /\ s.snap.part["Sms"] = Report(part, worker[w].cmd.delivered)
        /\ \A c \in Channels \ {"Sms"} : s.snap.part[c] = row[m].part[c]
    BY <1>2, <1>3, <1>5, <2>1 DEF Row
  <2>4. Settled(s.snap, "Sms")
    BY <2>2, <2>3 DEF Settled, Report, Part
  <2>5. ASSUME NEW c \in Channels, Kept(m, c) PROVE Moves(w, s, m, c) /\ Clean(w, s, m, c)
    <3>1. ~Carries(s, m, c)
      BY <1>1, <2>1, Kinds DEF Carries, Reports, SendCommand
    <3>2. Moves(w, s, m, c)
      BY <1>1, <1>2, <3>1 DEF Moves
    <3>3. Clean(w, s, m, c)
      <4>1. row[m] # NoRow
        BY <2>1, DispatchAssumption
      <4>2. CASE c = "Sms"
        <5>1. ~Unsettled(m, c)
          BY <2>2, <4>1, <4>2 DEF Unsettled, Settled
        <5> QED BY <5>1 DEF Clean
      <4>3. CASE c # "Sms"
        <5>1. Settled(s.snap, c) <=> Settled(row[m], c)
          BY <2>3, <4>3 DEF Settled
        <5> QED BY <1>1, <4>1, <5>1 DEF Clean, Unsettled
      <4> QED BY <4>2, <4>3
    <3> QED BY <3>2, <3>3
  <2>6. Elsewhere(w)
    BY <1>1, ElsewhereRow
  <2> QED BY <1>1, <1>2, <1>3, <2>1, <2>4, <2>5, <2>6, SoleOwn
<1> QED BY <1>4, <1>5

\* Nothing is scheduled, so there is no message a delete may take.
LEMMA DeleteSole ==
  ASSUME OneAtATime, TypeInv, StepsInv, SoleInv, NEW w \in Workers, HandleDelete(w)
  PROVE  SoleInv'
<1>1. ~(DeleteRow(w) \/ DropJob(w))
  BY DeleteShape DEF OneAtATime
<1>2. LoadForDelete(w)
  BY <1>1 DEF HandleDelete
<1>3. worker[w] # Idle /\ UNCHANGED <<row, ready, job>> /\ Become(w, Idle)
  <2>1. \A s : ~(MessageOf(w) \in Due /\ s # Idle /\ s.cmd = worker[w].cmd)
    BY DEF OneAtATime
  <2> QED BY <1>2, <2>1, LoadForDeleteShape
<1>4. Restarts(worker[w], Idle)
  BY DEF Restarts
<1> QED BY <1>3, <1>4, RestartSole

LEMMA ReadFailsSole ==
  ASSUME TypeInv, SoleInv, NEW w \in Workers, ReadFails(w) PROVE SoleInv'
<1>1. worker[w] # Idle /\ UNCHANGED <<row, ready, job>>
  BY ReadFailsShape
<1>2. PICK s : Become(w, s) /\ Restarts(worker[w], s)
  BY ReadFailsShape
<1> QED BY <1>1, <1>2, RestartSole

LEMMA CrashSole ==
  ASSUME TypeInv, SoleInv, NEW w \in Workers, Crash(w) PROVE SoleInv'
<1>1. /\ worker[w] # Idle /\ Become(w, Idle) /\ UNCHANGED <<row, job>>
      /\ \/ \A x \in Command : ready'[x] = ready[x]
         \/ \A x \in Command : ready'[x] = IF x = worker[w].cmd THEN ready[x] + 1 ELSE ready[x]
  BY CrashShape
<1> PICK m : m = MessageOf(w)
  OBVIOUS
<1>2. m \in Msg /\ worker[w].cmd.msg = m
  BY <1>1, BusyFacts DEF TypeInv, MessageOf
<1>3. \A n \in Msg, c \in Channels : SendCommand(c, n) \in Command
  BY Kinds
<1>4. ASSUME NEW c \in Channels, Kept(m, c) PROVE Moves(w, Idle, m, c) /\ Clean(w, Idle, m, c)
  <2>1. ~Carries(Idle, m, c)
    BY DEF Carries
  <2>2. \/ ready'[SendCommand(c, m)] = ready[SendCommand(c, m)]
        \/ /\ ready'[SendCommand(c, m)] = ready[SendCommand(c, m)] + 1
           /\ worker[w].cmd = SendCommand(c, m)
    BY <1>1, <1>2, <1>3
  <2>3. worker[w].cmd = SendCommand(c, m) => Carries(worker[w], m, c) /\ row'[m] # NoRow
    <3>1. worker[w].cmd = SendCommand(c, m) => Carries(worker[w], m, c)
      BY <1>1, <1>2 DEF Carries
    <3> QED BY <1>1, <1>4, <3>1, CarrierHasRow
  <2>4. Clean(w, Idle, m, c)
    BY <1>1 DEF Clean, Unsettled
  <2> QED BY <1>1, <2>1, <2>2, <2>3, <2>4 DEF Moves
<1>5. Elsewhere(w)
  <2>1. \A n \in Msg \ {m}, c \in Channels :
          SendCommand(c, n) \in Command /\ SendCommand(c, n) # worker[w].cmd
    <3>1. \A n, c : SendCommand(c, n).msg = n
      BY DEF SendCommand
    <3> QED BY <1>2, <1>3, <3>1
  <2> QED BY <1>1, <2>1 DEF Elsewhere
<1> QED BY <1>1, <1>2, <1>4, <1>5, SoleOwn

\* A delivery hands the one command in the queue to the one consumer.
LEMMA DeliverSole ==
  ASSUME TypeInv, SoleInv, NEW w \in Workers, NEW cmd \in Command, Deliver(w, cmd)
  PROVE  SoleInv'
<1>1. /\ worker[w] = Idle /\ ready[cmd] > 0 /\ UNCHANGED <<row, job>>
      /\ \A x \in Command : ready'[x] = IF x = cmd THEN ready[x] - 1 ELSE ready[x]
  BY DeliverShape
<1>2. PICK s : Become(w, s) /\ Goes([cmd |-> cmd], s, FirstStep(cmd)) /\ s.snap = NoRow
  BY DeliverShape
<1>3. s # Idle /\ s.cmd = cmd /\ s.step \in {"isExist", "load"} /\ s.snap = NoRow
  BY <1>2 DEF Goes, FirstStep
<1>4. worker'[w] = s /\ \A v \in Workers \ {w} : worker'[v] = worker[v]
  BY <1>2, Becoming
<1>5. NoJobs' /\ ReportsSettle'
  <2>1. NoJobs'
    BY <1>1, <1>3, <1>4 DEF SoleInv, NoJobs
  <2>2. ASSUME NEW v \in Workers, worker'[v] # Idle, worker'[v].step = "record",
               worker'[v].cmd \in Reports
        PROVE  Settled(worker'[v].snap, "Sms")
    BY <1>3, <1>4, <2>2 DEF SoleInv, ReportsSettle
  <2> QED BY <2>1, <2>2 DEF ReportsSettle, Settled
<1>6. ASSUME NEW m \in Msg, NEW c \in Channels PROVE Kept(m, c)'
  <2>1. Sole(m, c) /\ (Unfinished(m, c) => Unsettled(m, c))
    BY DEF SoleInv, Kept
  <2> PICK q : q = SendCommand(c, m)
    OBVIOUS
  <2>2. q \in Command /\ ready[q] \in Nat
    BY CountsNat, Kinds
  <2>3. Carries(s, m, c) => cmd = q /\ ready[q] = 1 /\ ready'[q] = 0 /\ row[m] # NoRow
    <3>1. Carries(s, m, c) => cmd = q
      BY <1>3 DEF Carries
    <3>2. cmd = q => ready[q] = 1 /\ ready'[q] = 0 /\ row[m] # NoRow
      BY <1>1, <2>1, <2>2 DEF Sole
    <3> QED BY <3>1, <3>2
  <2>4. ready'[q] <= ready[q] /\ ready'[q] <= 1
    BY <1>1, <2>1, <2>2 DEF Sole
  <2>5. ready'[q] > 0 => ~Carries(s, m, c) /\ ready[q] > 0
    BY <2>2, <2>3, <2>4, <1>1
  <2>6. Carries(s, m, c) => \A v \in Workers : ~Carries(worker[v], m, c)
    BY <2>1, <2>3 DEF Sole
  <2>7. Sole(m, c)'
    <3>1. ready'[q] > 0 => row'[m] # NoRow /\ \A v \in Workers : ~Carries(worker'[v], m, c)
      BY <1>1, <1>4, <2>1, <2>5 DEF Sole
    <3>2. \A v \in Workers : Carries(worker'[v], m, c) => row'[m] # NoRow
      BY <1>1, <1>4, <2>1, <2>3 DEF Sole
    <3>3. \A u, v \in Workers : Carries(worker'[u], m, c) /\ Carries(worker'[v], m, c) => u = v
      BY <1>4, <2>1, <2>6 DEF Sole
    <3> QED BY <2>4, <3>1, <3>2, <3>3 DEF Sole, Carries, SendCommand
  <2>8. Unfinished(m, c)' => Unfinished(m, c)
    <3>1. (\E v \in Workers : Carries(worker'[v], m, c)) => Unfinished(m, c)
      <4>1. Carries(s, m, c) => ready[q] > 0
        BY <2>3
      <4> QED BY <1>4, <4>1 DEF Unfinished
    <3>2. ready'[q] > 0 => ready[q] > 0
      BY <2>5
    <3> QED BY <1>1, <3>1, <3>2 DEF Unfinished, Carries, SendCommand
  <2>9. Unsettled(m, c) => Unsettled(m, c)'
    <3> SUFFICES ASSUME Unsettled(m, c) PROVE Unsettled(m, c)'
      OBVIOUS
    <3>1. ASSUME NEW v \in Workers, worker'[v] # Idle, worker'[v].cmd.msg = m,
                 worker'[v].snap # NoRow, ~Decided(worker'[v], m, c)
          PROVE  ~Settled(worker'[v].snap, c)
      BY <1>3, <1>4, <3>1 DEF Unsettled
    <3>2. row'[m] # NoRow => ~Settled(row'[m], c)
      BY <1>1 DEF Unsettled
    <3> QED BY <3>1, <3>2 DEF Unsettled, Decided, SendCommand, Settled
  <2> QED BY <2>1, <2>7, <2>8, <2>9 DEF Kept
<1> QED BY <1>5, <1>6 DEF SoleInv

\* What clients do touches none of it.
LEMMA RestSole ==
  ASSUME SoleInv, UNCHANGED <<row, worker, job>>,
         \A m \in Msg, c \in Channels : ready'[SendCommand(c, m)] = ready[SendCommand(c, m)]
  PROVE  SoleInv'
<1>1. NoJobs' /\ ReportsSettle'
  BY DEF SoleInv, NoJobs, ReportsSettle, Settled
<1>2. ASSUME NEW m \in Msg, NEW c \in Channels PROVE Kept(m, c)'
  <2>1. Kept(m, c) /\ ready'[SendCommand(c, m)] = ready[SendCommand(c, m)]
    BY DEF SoleInv
  <2>2. Sole(m, c)'
    BY <2>1 DEF Kept, Sole, Carries, SendCommand
  <2>3. Unfinished(m, c)' <=> Unfinished(m, c)
    BY <2>1 DEF Unfinished, Carries, SendCommand
  <2>4. Unsettled(m, c)' <=> Unsettled(m, c)
    BY DEF Unsettled, Decided, SendCommand, Settled
  <2> QED BY <2>1, <2>2, <2>3, <2>4 DEF Kept
<1> QED BY <1>1, <1>2 DEF SoleInv

LEMMA ClientsSole ==
  ASSUME OneAtATime, TypeInv, SoleInv, Clients PROVE SoleInv'
<1>1. \A c \in Channels, m \in Msg : SendCommand(c, m) \in Command
  BY Kinds
<1>2. ASSUME NEW cmd, Publish({cmd}), \A c \in Channels, m \in Msg : SendCommand(c, m) # cmd,
             UNCHANGED <<row, worker, job>>
      PROVE  SoleInv'
  <2>1. \A m \in Msg, c \in Channels : ready'[SendCommand(c, m)] = ready[SendCommand(c, m)]
    BY <1>1, <1>2, PublishSome
  <2> QED BY <1>2, <2>1, RestSole
<1>3. ASSUME NEW m \in Msg, SubmitMessage(m) PROVE SoleInv'
  <2>1. \A c \in Channels, n \in Msg : SendCommand(c, n) # RequestOf(m)
    BY Kinds DEF RequestOf, SendCommand
  <2> QED BY <1>2, <1>3, <2>1 DEF SubmitMessage
<1>4. ASSUME NEW m \in Msg, DueTimeComes(m) PROVE SoleInv'
  BY <1>4, RestSole DEF DueTimeComes
<1>5. ASSUME NEW cmd \in Deletes, SubmitDelete(cmd) PROVE SoleInv'
  <2>1. \A c \in Channels, n \in Msg : SendCommand(c, n) # cmd
    BY Kinds DEF SendCommand
  <2> QED BY <1>2, <1>5, <2>1 DEF SubmitDelete
<1>6. ASSUME NEW chosen \in SUBSET Msg PROVE ~ReSendFailedSms(chosen)
  <2>1. spent.resends \in Nat
    BY DEF TypeInv, TypeOK
  <2> QED BY <2>1 DEF ReSendFailedSms, OneAtATime
<1>7. ASSUME NEW m \in Msg, NEW id \in Ids, NEW delivered \in BOOLEAN,
             ReportDelivery(m, id, delivered)
      PROVE  SoleInv'
  <2> DEFINE cmd == [type |-> "SmsDelivery", msg |-> m, id |-> id, delivered |-> delivered]
  <2>1. UNCHANGED <<row, worker, job>> /\ Publish({cmd})
    BY <1>7 DEF ReportDelivery
  <2>2. cmd.type = "SmsDelivery"
    OBVIOUS
  <2> HIDE DEF cmd
  <2>3. \A c \in Channels, n \in Msg : SendCommand(c, n) # cmd
    BY <2>2, Kinds DEF SendCommand
  <2> QED BY <1>2, <2>1, <2>3
<1> QED BY <1>3, <1>4, <1>5, <1>6, <1>7 DEF Clients

LEMMA NextSole ==
  ASSUME OneAtATime PROVE TypeInv /\ StepsInv /\ SoleInv /\ [Next]_vars => SoleInv'
<1> SUFFICES ASSUME TypeInv, StepsInv, SoleInv, [Next]_vars PROVE SoleInv'
  OBVIOUS
<1>1. ASSUME NEW w \in Workers, HandleRequest(w) PROVE SoleInv'
  <2>1. ~ScheduleJob(w)
    BY DEF ScheduleJob, At, SoleInv, NoJobs
  <2> QED BY <1>1, <2>1, IsExistSole, AddRowSole, SaveSole, PublishSole, CatchSole DEF HandleRequest
<1>2. ASSUME NEW w \in Workers, Consume(w) PROVE SoleInv'
  BY <1>1, <1>2, LoadForSendSole, CallSole, RecordSole, LoadForReportSole, SaveReportSole,
     DeleteSole DEF Consume, HandleSend, HandleReport
<1>3. ASSUME NEW w \in Workers PROVE ~Disconnect(w)
  BY DEF Disconnect, Fault, OneAtATime
<1>4. CASE Broker
  BY <1>3, <1>4, DeliverSole, ReadFailsSole, CrashSole DEF Broker
<1>5. ASSUME NEW j \in JobIds PROVE ~(RunJob(j) \/ JobFails(j))
  BY DEF RunJob, JobFails, StartJob, JobPublish, EndJob, SoleInv, NoJobs
<1>6. ASSUME NEW m \in Msg PROVE ~DeleteByTag(m)
  BY DEF DeleteByTag, OneAtATime
<1>7. CASE UNCHANGED vars
  BY <1>7, RestSole DEF vars
<1> QED BY <1>2, <1>4, <1>5, <1>6, <1>7, ClientsSole DEF Next

LEMMA InitSole == Init => SoleInv
<1> SUFFICES ASSUME Init PROVE SoleInv
  OBVIOUS
<1>1. NoJobs /\ ReportsSettle
  BY DEF Init, NoJobs, ReportsSettle
<1>2. ASSUME NEW m \in Msg, NEW c \in Channels PROVE Kept(m, c)
  <2>1. \A w \in Workers : ~Carries(worker[w], m, c) /\ worker[w] = Idle
    BY DEF Init, Carries
  <2>2. ready[SendCommand(c, m)] = 0 /\ row[m] = NoRow
    BY Kinds DEF Init
  <2>3. Sole(m, c)
    BY <2>1, <2>2 DEF Sole
  <2>4. Unsettled(m, c)
    BY <2>1, <2>2 DEF Unsettled
  <2> QED BY <2>3, <2>4 DEF Kept
<1> QED BY <1>1, <1>2 DEF SoleInv

\* A row that is replaced is replaced by the copy some consumer of the message holds.
LEMMA RowReplacedBy ==
  ASSUME OneAtATime, TypeInv, StepsInv, SoleInv, [Next]_vars, NEW m \in Msg,
         row[m] # NoRow, row'[m] # NoRow, row'[m] # row[m]
  PROVE  \E w \in Workers :
           /\ worker[w] # Idle /\ worker'[w] # worker[w] /\ worker[w].cmd.msg = m
           /\ row'[m] = worker[w].snap
           /\ \/ worker[w].cmd = RequestOf(m)
              \/ worker[w].step = "record" /\ worker[w].cmd \in Sends \cup Reports
<1>1. PICK w \in Workers : SavePending(w) \/ RecordOutcome(w) \/ SaveReport(w)
  <2>1. ASSUME NEW w \in Workers PROVE ~AddRow(w) /\ ~CatchDelete(w) /\ ~DeleteRow(w)
    BY DEF AddRow, CatchDelete, DeleteRow, RowDeleted, TypeInv, TypeOK
  <2>2. ASSUME NEW w \in Workers
        PROVE  /\ ~IsExist(w) /\ ~ScheduleJob(w) /\ \A c \in Channels : ~PublishNow(w, c)
               /\ \A c \in Channels : ~LoadForSend(w, c) /\ ~CallProvider(w, c)
               /\ ~LoadForReport(w) /\ ~LoadForDelete(w) /\ ~DropJob(w)
    BY DEF IsExist, ScheduleJob, PublishNow, LoadForSend, CallProvider, LoadForReport,
           LoadForDelete, DropJob
  <2>3. ~Broker
    BY DEF Broker, Deliver, ReadFails, Crash, Disconnect
  <2>4. ~Clients
    BY DEF Clients, SubmitMessage, DueTimeComes, SubmitDelete, ReSendFailedSms, ReportDelivery
  <2>5. \A j \in JobIds : ~RunJob(j) /\ ~JobFails(j)
    BY DEF RunJob, JobFails, StartJob, JobPublish, EndJob
  <2>6. \A n \in Msg : ~DeleteByTag(n)
    BY DEF DeleteByTag, OneAtATime
  <2>7. \E w \in Workers : Consume(w)
    BY <2>3, <2>4, <2>5, <2>6 DEF Next, vars
  <2> QED BY <2>1, <2>2, <2>7
          DEF Consume, HandleRequest, HandleSend, HandleReport, HandleDelete
<1>2. /\ worker[w] # Idle /\ worker[w].step \in {"save", "record"}
      /\ row' = [row EXCEPT ![MessageOf(w)] = worker[w].snap]
      /\ \E s : /\ Become(w, s)
                /\ \/ Restarts(worker[w], s) \/ Goes(worker[w], s, "publish")
                   \/ Goes(worker[w], s, "catch")
      /\ worker[w].step = "save" \/ worker[w].cmd \in Sends \cup Reports
  <2>1. \A s : s = Idle => Restarts(worker[w], s)
    BY DEF Restarts
  <2> QED BY <1>1, <2>1, SaveShape, RecordShape, SaveReportShape
<1>3. m = MessageOf(w) /\ row'[m] = worker[w].snap
  BY <1>2 DEF TypeInv, TypeOK
<1>4. worker[w].snap \in Row /\ worker[w].snap # NoRow
  BY <1>2, DispatchAssumption DEF TypeInv, Held, HasSnap
<1>5. worker'[w] # worker[w]
  BY <1>2, <1>4, Becoming DEF Restarts, Goes
<1>6. worker[w].step = "save" => worker[w].cmd = RequestOf(m)
  BY <1>2, <1>3 DEF StepsInv, InPlace, RequestSteps, MessageOf
<1> QED BY <1>2, <1>3, <1>5, <1>6 DEF MessageOf

\* While a channel has one command in flight at a time, its own consumer never
\* takes a settled part back: when a settled channel regresses, the whole row was
\* written by a consumer of another command, from a copy that was read before.
THEOREM DispatchOwnConsumer ==
  ASSUME OneAtATime PROVE Spec => OwnConsumerNeverRegresses
<1>1. ASSUME TypeInv, StepsInv, SoleInv, [Next]_vars, NEW m \in Msg, NEW c \in Channels,
             Regresses(m, c)
      PROVE  \E w \in Workers : /\ worker'[w] # worker[w] /\ worker[w] # Idle
                                /\ ~Owns(worker[w].cmd, c)
  <2>1. row[m] # NoRow /\ row'[m] # NoRow /\ Settled(row[m], c) /\ ~Settled(row'[m], c)
    BY <1>1 DEF Regresses
  <2>2. PICK w \in Workers :
           /\ worker[w] # Idle /\ worker'[w] # worker[w] /\ worker[w].cmd.msg = m
           /\ row'[m] = worker[w].snap
           /\ \/ worker[w].cmd = RequestOf(m)
              \/ worker[w].step = "record" /\ worker[w].cmd \in Sends \cup Reports
    BY <1>1, <2>1, RowReplacedBy
  <2>3. worker[w].cmd \in Command
    BY <1>1, <2>2, BusyFacts DEF TypeInv
  <2>4. worker[w].cmd # SendCommand(c, m)
    <3>1. ~Unsettled(m, c) /\ Kept(m, c)
      BY <1>1, <2>1 DEF Unsettled, SoleInv
    <3>2. ~Carries(worker[w], m, c)
      BY <3>1 DEF Kept, Unfinished
    <3> QED BY <2>2, <3>2 DEF Carries
  <2>5. worker[w].cmd.type # c
    BY <2>2, <2>3, <2>4, Kinds
  <2>6. ~(worker[w].cmd.type = "SmsDelivery" /\ c = "Sms")
    <3> SUFFICES ASSUME worker[w].cmd.type = "SmsDelivery", c = "Sms" PROVE FALSE
      OBVIOUS
    <3>1. worker[w].cmd \in Reports /\ worker[w].step = "record"
      BY <2>2, <2>3, Kinds DEF Sends, RequestOf
    <3>2. Settled(worker[w].snap, "Sms")
      BY <1>1, <2>2, <3>1 DEF SoleInv, ReportsSettle
    <3> QED BY <2>1, <2>2, <3>2
  <2> QED BY <2>2, <2>5, <2>6 DEF Owns
<1>2. TypeInv /\ StepsInv /\ SoleInv /\ [Next]_vars =>
        [\A m \in Msg, c \in Channels :
           Regresses(m, c) =>
             \E w \in Workers : /\ worker'[w] # worker[w] /\ worker[w] # Idle
                                 /\ ~Owns(worker[w].cmd, c)]_vars
  BY <1>1
<1>3. Init => TypeInv /\ StepsInv /\ SoleInv
  <2>1. Init => StepsInv
    BY DEF Init, StepsInv, InPlace
  <2> QED BY <2>1, InitTypeInv, InitSole
<1>4. TypeInv /\ StepsInv /\ SoleInv /\ [Next]_vars => TypeInv' /\ StepsInv' /\ SoleInv'
  BY NextTypeInv, NextSteps, NextSole
<1> QED BY <1>2, <1>3, <1>4, PTL DEF Spec, OwnConsumerNeverRegresses

-----------------------------------------------------------------------------
(* With SMS alone the rows keep the status history of MessageLifecycle     *)

\* A consumer that has read what the row is and will write on the strength of it.
Bound(s) == s # Idle /\ s.step \in {"save", "catch", "send", "record"}

StatusOf(r) == r.part["Sms"].status

IdOf(r) == r.part["Sms"].id

\* What a row shows: its status, and whether it has an id of the provider.
StatusIn(r) == IF r = NoRow THEN "Absent" ELSE StatusOf(r)

Numbered(r) == r # NoRow /\ IdOf(r) # NoId

\* What such a consumer relies on: r is the row of its message.
Stage(s, r) ==
  Bound(s) =>
    /\ r # NoRow
    /\ \/ s.step = "save" /\ StatusOf(r) = "Created" /\ StatusOf(s.snap) = "Pending"
       \/ s.step = "catch" /\ StatusOf(r) = "Created"
       \/ /\ s.step \in {"send", "record"} /\ s.cmd = SendCommand("Sms", s.cmd.msg)
          /\ StatusOf(r) = "Pending"
          /\ s.step = "send" \/ s.failed => StatusOf(s.snap) = "Pending"
          /\ s.step = "record" /\ ~s.failed =>
               StatusOf(s.snap) \in {"Sended", "Invalid", "InvalidDeny"}
       \/ /\ s.step = "record" /\ s.cmd \in Reports
          /\ s.cmd.id # NoId /\ IdOf(r) = s.cmd.id /\ IdOf(s.snap) = s.cmd.id
          /\ StatusOf(r) \in SentStatuses
          /\ StatusOf(s.snap) \in {"Delivered", "UnDelivered"}

StageInv == \A w \in Workers : worker[w] # Idle => Stage(worker[w], row[worker[w].cmd.msg])

OnlySms == Channels = {"Sms"}

LifeInv == TypeInv /\ StepsInv /\ HonestInv /\ SoleInv /\ StageInv

\* What honesty says of a row when SMS is the only channel.
LEMMA HonestId ==
  ASSUME OnlySms, TypeInv, NEW m \in Msg, NEW r \in Row, Honest(r, m), IdOf(r) # NoId
  PROVE  StatusOf(r) \in SentStatuses /\ accepted[m]["Sms"] > 0
<1>1. r.part["Sms"] \in Part /\ accepted[m]["Sms"] \in Nat /\ "Sms" \in Channels
  BY DEF Row, OnlySms, TypeInv, TypeOK
<1>2. HonestSms(r.part["Sms"], m)
  BY <1>1 DEF Honest
<1>3. r.part["Sms"].id \in Nat /\ r.part["Sms"].id # 0
  BY <1>1 DEF Part, IdOf, NoId
<1> QED BY <1>1, <1>2, <1>3 DEF HonestSms, StatusOf, NoId

LEMMA RowUnnumbered ==
  ASSUME OnlySms, LifeInv, NEW m \in Msg, row[m] # NoRow, StatusOf(row[m]) \notin SentStatuses
  PROVE  ~Numbered(row[m])
<1>1. TypeInv /\ row[m] \in Row /\ Honest(row[m], m)
  BY DEF LifeInv, HonestInv, NoPhantomSent, TypeInv, TypeOK
<1> QED BY <1>1, HonestId DEF Numbered

LEMMA SnapHonest ==
  ASSUME LifeInv, NEW w \in Workers, worker[w] # Idle, worker[w].snap \in Row
  PROVE  MessageOf(w) \in Msg /\ Honest(worker[w].snap, MessageOf(w))
<1>1. TypeInv /\ worker[w].snap # NoRow
  BY DispatchAssumption DEF LifeInv
<1> QED BY <1>1, BusyFacts DEF TypeInv, LifeInv, HonestInv

LEMMA SnapUnnumbered ==
  ASSUME OnlySms, LifeInv, NEW w \in Workers, worker[w] # Idle, worker[w].snap \in Row,
         StatusOf(worker[w].snap) \notin SentStatuses
  PROVE  ~Numbered(worker[w].snap)
<1>1. TypeInv
  BY DEF LifeInv
<1> QED BY <1>1, SnapHonest, HonestId DEF Numbered

\* Only the handler of a request saves or goes to delete, only a sender sends.
LEMMA ReportRecords ==
  ASSUME LifeInv, NEW w \in Workers, Bound(worker[w]), worker[w].cmd \in Reports
  PROVE  worker[w].step = "record"
<1>1. InPlace(worker[w]) /\ worker[w].cmd.type = "SmsDelivery"
  BY DEF LifeInv, StepsInv, Reports
<1> QED BY <1>1, Kinds DEF Bound, InPlace, RequestSteps, RequestOf

\* Two of them on one message would rely on two different statuses or carry one
\* command, unless both are about to write a report of the SMS.
LEMMA BoundAlone ==
  ASSUME OnlySms, LifeInv, NEW v \in Workers, NEW w \in Workers, Bound(worker[v]),
         Bound(worker[w]), worker[v].cmd.msg = worker[w].cmd.msg
  PROVE  v = w \/ (worker[v].cmd \in Reports /\ worker[w].cmd \in Reports)
<1> PICK m : m = worker[w].cmd.msg
  OBVIOUS
<1>1. /\ worker[v] # Idle /\ worker[w] # Idle
      /\ Stage(worker[v], row[m]) /\ Stage(worker[w], row[m])
  BY DEF Bound, LifeInv, StageInv
<1>2. m \in Msg /\ "Sms" \in Channels
  BY <1>1, BusyFacts DEF LifeInv, TypeInv, MessageOf, OnlySms
<1>3. ASSUME NEW u \in Workers, Bound(worker[u]), worker[u].cmd.msg = m,
             Stage(worker[u], row[m])
      PROVE  \/ StatusOf(row[m]) \in {"Created", "Pending"} /\ Carries(worker[u], m, "Sms")
             \/ StatusOf(row[m]) \in SentStatuses /\ worker[u].cmd \in Reports
  BY <1>3 DEF Stage, Carries, Bound
<1>4. CASE StatusOf(row[m]) \in {"Created", "Pending"}
  <2>1. Carries(worker[v], m, "Sms") /\ Carries(worker[w], m, "Sms")
    BY <1>1, <1>3, <1>4 DEF SentStatuses
  <2> QED BY <1>2, <2>1 DEF LifeInv, SoleInv, Kept, Sole
<1>5. CASE StatusOf(row[m]) \notin {"Created", "Pending"}
  BY <1>1, <1>3, <1>5
<1> QED BY <1>4, <1>5

\* Another report of the SMS may be written over the row.
StillSent(r, new) == new # NoRow /\ StatusOf(new) \in SentStatuses /\ IdOf(new) = IdOf(r)

\* Only a consumer that relies on a row replaces it, so it disturbs nobody else
\* than those who report on the same SMS, and those rely on no more than that.
LEMMA StageStep ==
  ASSUME OnlySms, LifeInv, NEW w \in Workers, NEW s, Become(w, s), NEW m \in Msg,
         s # Idle => s.cmd.msg = m /\ Stage(s, row'[m]),
         \A n \in Msg \ {m} : row'[n] = row[n],
         \/ row'[m] = row[m] \/ row[m] = NoRow
         \/ /\ worker[w].cmd.msg = m /\ Bound(worker[w])
            /\ worker[w].cmd \in Reports => StillSent(row[m], row'[m])
  PROVE  StageInv'
<1>1. worker'[w] = s /\ \A v \in Workers \ {w} : worker'[v] = worker[v]
  BY Becoming DEF LifeInv
<1>2. ASSUME NEW v \in Workers, worker'[v] # Idle
      PROVE  Stage(worker'[v], row'[worker'[v].cmd.msg])
  <2>1. CASE v = w
    BY <1>1, <1>2, <2>1
  <2>2. CASE v # w
    <3>1. /\ worker'[v] = worker[v] /\ worker[v] # Idle /\ worker[v].cmd.msg \in Msg
          /\ Stage(worker[v], row[worker[v].cmd.msg])
      BY <1>1, <1>2, <2>2, BusyFacts DEF LifeInv, TypeInv, StageInv, MessageOf
    <3>2. CASE worker[v].cmd.msg # m
      BY <3>1, <3>2
    <3>3. CASE worker[v].cmd.msg = m
      <4>1. CASE row'[m] = row[m]
        BY <3>1, <3>3, <4>1
      <4>2. CASE row[m] = NoRow
        BY <3>1, <3>3, <4>2 DEF Stage
      <4>3. CASE /\ worker[w].cmd.msg = m /\ Bound(worker[w])
                 /\ worker[w].cmd \in Reports => StillSent(row[m], row'[m])
        <5>1. CASE ~Bound(worker[v])
          BY <3>1, <5>1 DEF Stage
        <5>2. CASE Bound(worker[v])
          <6>1. worker[v].cmd \in Reports /\ StillSent(row[m], row'[m])
            BY <2>2, <3>3, <4>3, <5>2, BoundAlone
          <6>2. worker[v].cmd # SendCommand("Sms", worker[v].cmd.msg)
            BY <6>1, Kinds DEF Reports, SendCommand
          <6>3. worker[v].step = "record"
            BY <3>1, <3>3, <5>2, <6>1, <6>2, ReportRecords
          <6> QED BY <3>1, <3>3, <5>2, <6>1, <6>2, <6>3 DEF Stage, StillSent
        <5> QED BY <5>1, <5>2
      <4> QED BY <4>1, <4>2, <4>3
    <3> QED BY <3>2, <3>3
  <2> QED BY <2>1, <2>2
<1> QED BY <1>2 DEF StageInv, Stage, Bound, StatusOf, SendCommand

Maps == Lifecycle!Next \/ UNCHANGED Lifecycle!vars

KnownIds == {m \in Msg : row[m] # NoRow /\ row[m].part["Sms"].id # NoId}

LEMMA KnownSame ==
  ASSUME \A m \in Msg : Numbered(row'[m]) <=> Numbered(row[m]) PROVE KnownIds' = KnownIds
BY DEF KnownIds, Numbered, IdOf

LEMMA KnownMore ==
  ASSUME NEW m \in Msg, \A n \in Msg \ {m} : row'[n] = row[n], Numbered(row'[m])
  PROVE  KnownIds' = KnownIds \cup {m}
BY DEF KnownIds, Numbered, IdOf

\* Nothing that a row or a provider shows has changed.
LEMMA MapRest ==
  ASSUME UNCHANGED accepted, \A m \in Msg : StatusIn(row'[m]) = StatusIn(row[m]),
         \A m \in Msg : Numbered(row'[m]) <=> Numbered(row[m])
  PROVE  Maps
BY KnownSame DEF Maps, Lifecycle!vars, KnownIds, StatusIn, StatusOf

LEMMA MapTurn ==
  ASSUME UNCHANGED accepted, NEW m \in Msg, NEW from, NEW to,
         \A n \in Msg \ {m} : row'[n] = row[n], StatusIn(row[m]) = from, StatusIn(row'[m]) = to
  PROVE  Lifecycle!Turn(m, from, to)
         /\ UNCHANGED {n \in Msg : accepted[n]["Sms"] > 0}
BY DEF Lifecycle!Turn, StatusIn, StatusOf

\* What one step must do.
Lives == StageInv' /\ Maps

LEMMA Own ==
  ASSUME TypeInv, NEW w \in Workers, worker[w] # Idle
  PROVE  MessageOf(w) \in Msg /\ MessageOf(w) = worker[w].cmd.msg /\ worker[w].cmd \in Command
BY BusyFacts DEF TypeInv, MessageOf

\* A consumer goes on, is done or starts again, and the row stays as it is.
LEMMA QuietLives ==
  ASSUME OnlySms, LifeInv, NEW w \in Workers, worker[w] # Idle, NEW s, Become(w, s),
         s # Idle => s.cmd = worker[w].cmd, s # Idle => Stage(s, row[MessageOf(w)]),
         UNCHANGED <<row, accepted>>
  PROVE  Lives
<1>1. TypeInv
  BY DEF LifeInv
<1>2. StageInv'
  <2>1. s # Idle => s.cmd.msg = MessageOf(w) /\ Stage(s, row'[MessageOf(w)])
    BY DEF MessageOf
  <2> QED BY <1>1, <2>1, Own, StageStep
<1>3. Maps
  BY MapRest
<1> QED BY <1>2, <1>3 DEF Lives

LEMMA FreeStage == ASSUME NEW s, s.step \notin {"save", "catch", "send", "record"}, NEW r
                   PROVE  Stage(s, r)
BY DEF Stage, Bound

LEMMA RestartStage == ASSUME NEW o, NEW s, Restarts(o, s), NEW r PROVE s # Idle => Stage(s, r)
<1>1. s # Idle => s.step \in {"isExist", "load"}
  BY DEF Restarts, FirstStep
<1> QED BY <1>1, FreeStage

LEMMA RestartLives ==
  ASSUME OnlySms, LifeInv, NEW w \in Workers, worker[w] # Idle, NEW s, Become(w, s),
         Restarts(worker[w], s), UNCHANGED <<row, accepted>>
  PROVE  Lives
<1>1. s # Idle => s.cmd = worker[w].cmd /\ Stage(s, row[MessageOf(w)])
  BY RestartStage DEF Restarts
<1> QED BY <1>1, QuietLives

\* The turns that the history allows a message to take with one write.
Turned(m, old, new) ==
  \/ /\ Numbered(new) <=> Numbered(old)
     /\ \/ StatusIn(old) = StatusIn(new)
        \/ StatusIn(old) = "Absent" /\ StatusIn(new) = "Created"
        \/ StatusIn(old) = "Created" /\ StatusIn(new) \in {"Absent", "Pending"}
        \/ /\ StatusIn(old) = "Pending"
           /\ StatusIn(new) \in {"Invalid", "InvalidDeny", "Sended"}
        \/ /\ Numbered(old) /\ StatusIn(old) \in SentStatuses
           /\ StatusIn(new) \in {"Delivered", "UnDelivered"}
  \/ /\ StatusIn(old) = "Pending" /\ StatusIn(new) = "Sended"
     /\ Numbered(new) /\ accepted[m]["Sms"] > 0

LEMMA TurnMaps ==
  ASSUME NEW m \in Msg, UNCHANGED accepted, \A n \in Msg \ {m} : row'[n] = row[n],
         Turned(m, row[m], row'[m])
  PROVE  Maps
<1> PICK from : from = StatusIn(row[m])
  OBVIOUS
<1> PICK to : to = StatusIn(row'[m])
  OBVIOUS
<1>1. Lifecycle!Turn(m, from, to) /\ UNCHANGED {n \in Msg : accepted[n]["Sms"] > 0}
  BY MapTurn
<1>2. CASE Numbered(row'[m]) <=> Numbered(row[m])
  <2>1. KnownIds' = KnownIds
    BY <1>2, KnownSame
  <2>2. CASE from = "Absent" /\ to = "Created"
    BY <1>1, <2>1, <2>2 DEF Maps, Lifecycle!Next, Lifecycle!Create, KnownIds
  <2>3. CASE from = "Created" /\ to \in {"Absent", "Pending"}
    BY <1>1, <2>1, <2>3 DEF Maps, Lifecycle!Next, Lifecycle!Withdraw, Lifecycle!Enqueue, KnownIds
  <2>4. CASE from = "Pending" /\ to \in {"Invalid", "InvalidDeny", "Sended"}
    BY <1>1, <2>1, <2>4 DEF Maps, Lifecycle!Next, Lifecycle!Settle, KnownIds
  <2>5. CASE /\ Numbered(row[m]) /\ from \in SentStatuses
             /\ to \in {"Delivered", "UnDelivered"}
    <3>1. row[m] # NoRow /\ row[m].part["Sms"].id # NoId
      BY <2>5 DEF Numbered, IdOf
    <3>2. Lifecycle!Confirm(m)
      BY <1>1, <2>1, <2>5, <3>1 DEF Lifecycle!Confirm, KnownIds, SentStatuses
    <3> QED BY <3>2 DEF Maps, Lifecycle!Next
  <2>6. CASE from = to
    BY <1>2, <2>6, MapRest
  <2>7. \/ from = to
        \/ from = "Absent" /\ to = "Created"
        \/ from = "Created" /\ to \in {"Absent", "Pending"}
        \/ from = "Pending" /\ to \in {"Invalid", "InvalidDeny", "Sended"}
        \/ /\ Numbered(row[m]) /\ from \in SentStatuses
           /\ to \in {"Delivered", "UnDelivered"}
    BY DEF Turned
  <2> QED BY <2>2, <2>3, <2>4, <2>5, <2>6, <2>7
<1>3. CASE /\ from = "Pending" /\ to = "Sended"
           /\ Numbered(row'[m]) /\ accepted[m]["Sms"] > 0
  <2>1. KnownIds' = KnownIds \cup {m}
    BY <1>3, KnownMore
  <2>2. Lifecycle!Acknowledge(m)
    BY <1>1, <1>3, <2>1 DEF Lifecycle!Acknowledge, KnownIds
  <2> QED BY <2>2 DEF Maps, Lifecycle!Next
<1> QED BY <1>2, <1>3 DEF Turned

\* The row of its message is replaced, by a consumer that may.
LEMMA WriteLives ==
  ASSUME OnlySms, LifeInv, NEW w \in Workers, worker[w] # Idle, NEW s, Become(w, s),
         s # Idle => s.cmd = worker[w].cmd, NEW new,
         row' = [row EXCEPT ![MessageOf(w)] = new], s # Idle => Stage(s, new),
         \/ row[MessageOf(w)] = NoRow
         \/ /\ Bound(worker[w])
            /\ worker[w].cmd \in Reports => StillSent(row[MessageOf(w)], new),
         UNCHANGED accepted, Turned(MessageOf(w), row[MessageOf(w)], new)
  PROVE  Lives
<1> PICK m : m = MessageOf(w)
  OBVIOUS
<1>1. TypeInv
  BY DEF LifeInv
<1>2. m \in Msg /\ m = worker[w].cmd.msg
  BY <1>1, Own
<1>3. row'[m] = new /\ \A n \in Msg \ {m} : row'[n] = row[n]
  BY <1>1, <1>2 DEF TypeInv, TypeOK
<1>4. StageInv'
  <2>1. s # Idle => s.cmd.msg = m /\ Stage(s, row'[m])
    BY <1>2, <1>3
  <2> QED BY <1>2, <1>3, <2>1, StageStep
<1>5. Maps
  BY <1>2, <1>3, TurnMaps
<1> QED BY <1>4, <1>5 DEF Lives

LEMMA IsExistLives == ASSUME OnlySms, LifeInv, NEW w \in Workers, IsExist(w) PROVE Lives
<1>1. TypeInv
  BY DEF LifeInv
<1>2. worker[w] # Idle /\ UNCHANGED <<row, accepted>>
  BY <1>1, IsExistShape
<1>3. PICK s : /\ Become(w, s)
               /\ s = Idle \/ (Goes(worker[w], s, "add") /\ s.snap = worker[w].snap)
  BY <1>1, IsExistShape
<1>4. s # Idle => s.cmd = worker[w].cmd /\ Stage(s, row[MessageOf(w)])
  BY <1>3, FreeStage DEF Goes
<1> QED BY <1>2, <1>3, <1>4, QuietLives

\* A new row is created, and its copy is enqueued.
LEMMA AddRowLives ==
  ASSUME OneAtATime, OnlySms, LifeInv, NEW w \in Workers, AddRow(w) PROVE Lives
<1>1. TypeInv
  BY DEF LifeInv
<1>2. worker[w] # Idle /\ UNCHANGED accepted
  BY <1>1, AddRowShape
<1>3. PICK s :
        /\ Become(w, s)
        /\ \/ /\ row[MessageOf(w)] = NoRow
              /\ row' = [row EXCEPT ![MessageOf(w)] = NewRow]
              /\ Goes(worker[w], s, "save") /\ s.snap = EnqueuedRow(NewRow, NoJob)
           \/ Restarts(worker[w], s) /\ UNCHANGED row
  BY <1>1, AddRowShape DEF OneAtATime
<1>4. CASE Restarts(worker[w], s) /\ UNCHANGED row
  BY <1>2, <1>3, <1>4, RestartLives
<1>5. CASE /\ row[MessageOf(w)] = NoRow
           /\ row' = [row EXCEPT ![MessageOf(w)] = NewRow]
           /\ Goes(worker[w], s, "save") /\ s.snap = EnqueuedRow(NewRow, NoJob)
  <2>1. NewRow \in Row /\ NewRow # NoRow /\ "Sms" \in Channels
    BY RowValues, DispatchAssumption DEF OnlySms
  <2>2. StatusOf(NewRow) = "Created" /\ StatusOf(EnqueuedRow(NewRow, NoJob)) = "Pending"
    BY <2>1 DEF StatusOf, NewRow, NewPart, EnqueuedRow, Enqueued
  <2>3. s # Idle /\ s.cmd = worker[w].cmd /\ Stage(s, NewRow)
    BY <1>5, <2>1, <2>2 DEF Goes, Stage
  <2>4. ~Numbered(NewRow) /\ ~Numbered(NoRow)
    BY <2>1 DEF Numbered, IdOf, NewRow, NewPart
  <2>5. Turned(MessageOf(w), row[MessageOf(w)], NewRow)
    BY <1>5, <2>1, <2>2, <2>4 DEF Turned, StatusIn
  <2> QED BY <1>2, <1>3, <1>5, <2>3, <2>5, WriteLives
<1> QED BY <1>3, <1>4, <1>5

\* The row becomes the enqueued copy, or the handler goes to delete it.
LEMMA SaveLives == ASSUME OnlySms, LifeInv, NEW w \in Workers, SavePending(w) PROVE Lives
<1>1. TypeInv
  BY DEF LifeInv
<1>2. /\ worker[w] # Idle /\ worker[w].step = "save" /\ Bound(worker[w])
      /\ UNCHANGED accepted
  BY <1>1, SaveShape DEF Bound
<1>3. PICK s :
        /\ Become(w, s)
        /\ \/ /\ row' = [row EXCEPT ![MessageOf(w)] = worker[w].snap]
              /\ s = Idle \/ Goes(worker[w], s, "publish")
           \/ UNCHANGED row /\ Goes(worker[w], s, "catch")
  BY <1>1, SaveShape
<1>4. /\ worker[w].snap \in Row /\ worker[w].snap # NoRow /\ row[MessageOf(w)] # NoRow
      /\ StatusOf(row[MessageOf(w)]) = "Created" /\ StatusOf(worker[w].snap) = "Pending"
  <2>1. worker[w].snap \in Row /\ worker[w].snap # NoRow
    BY <1>1, <1>2, DispatchAssumption DEF TypeInv, Held, HasSnap
  <2>2. Stage(worker[w], row[MessageOf(w)])
    BY <1>2 DEF LifeInv, StageInv, MessageOf
  <2> QED BY <1>2, <2>1, <2>2 DEF Stage
<1>5. CASE /\ row' = [row EXCEPT ![MessageOf(w)] = worker[w].snap]
           /\ s = Idle \/ Goes(worker[w], s, "publish")
  <2>1. s # Idle => s.cmd = worker[w].cmd /\ Stage(s, worker[w].snap)
    BY <1>5, FreeStage DEF Goes
  <2>2. ~Numbered(row[MessageOf(w)]) /\ ~Numbered(worker[w].snap)
    BY <1>1, <1>2, <1>4, Own, RowUnnumbered, SnapUnnumbered DEF SentStatuses
  <2>3. Turned(MessageOf(w), row[MessageOf(w)], worker[w].snap)
    BY <1>4, <2>2 DEF Turned, StatusIn
  <2>4. worker[w].cmd \notin Reports
    BY <1>2, ReportRecords
  <2> QED BY <1>2, <1>3, <1>5, <2>1, <2>3, <2>4, WriteLives
<1>6. CASE UNCHANGED row /\ Goes(worker[w], s, "catch")
  <2>1. s # Idle /\ s.cmd = worker[w].cmd /\ Stage(s, row[MessageOf(w)])
    BY <1>4, <1>6 DEF Goes, Stage
  <2> QED BY <1>2, <1>3, <1>6, <2>1, QuietLives
<1> QED BY <1>3, <1>5, <1>6

LEMMA PublishLives ==
  ASSUME OneAtATime, OnlySms, LifeInv, NEW w \in Workers, NEW d \in Channels, PublishNow(w, d)
  PROVE  Lives
<1>1. TypeInv
  BY DEF LifeInv
<1>2. worker[w] # Idle /\ UNCHANGED <<row, accepted>>
  BY <1>1, PublishShape
<1>3. PICK s : Become(w, s) /\ (s = Idle \/ Goes(worker[w], s, "publish"))
  BY <1>1, PublishShape, FaultPays DEF OneAtATime
<1>4. s # Idle => s.cmd = worker[w].cmd /\ Stage(s, row[MessageOf(w)])
  BY <1>3, FreeStage DEF Goes
<1> QED BY <1>2, <1>3, <1>4, QuietLives

\* The row of a request that could not be queued is deleted while it is new.
LEMMA CatchLives == ASSUME OnlySms, LifeInv, NEW w \in Workers, CatchDelete(w) PROVE Lives
<1>1. TypeInv
  BY DEF LifeInv
<1>2. /\ worker[w] # Idle /\ worker[w].step = "catch" /\ Bound(worker[w])
      /\ UNCHANGED accepted
      /\ UNCHANGED row \/ row' = [row EXCEPT ![MessageOf(w)] = NoRow]
  BY <1>1, CatchShape DEF Bound
<1>3. PICK s : Become(w, s) /\ Restarts(worker[w], s)
  BY <1>1, CatchShape
<1>4. CASE UNCHANGED row
  BY <1>2, <1>3, <1>4, RestartLives
<1>5. CASE row' = [row EXCEPT ![MessageOf(w)] = NoRow]
  <2>1. Stage(worker[w], row[MessageOf(w)])
    BY <1>2 DEF LifeInv, StageInv, MessageOf
  <2>2. StatusIn(row[MessageOf(w)]) = "Created" /\ StatusIn(NoRow) = "Absent"
    BY <1>2, <2>1 DEF Stage, StatusIn
  <2>3. ~Numbered(row[MessageOf(w)]) /\ ~Numbered(NoRow)
    BY <1>1, <1>2, <2>1, Own, RowUnnumbered DEF Stage, SentStatuses, Numbered
  <2>4. Turned(MessageOf(w), row[MessageOf(w)], NoRow)
    BY <2>2, <2>3 DEF Turned
  <2>5. s # Idle => s.cmd = worker[w].cmd /\ Stage(s, NoRow)
    BY <1>3, RestartStage DEF Restarts
  <2>6. worker[w].cmd \notin Reports
    BY <1>2, ReportRecords
  <2> QED BY <1>2, <1>3, <1>5, <2>4, <2>5, <2>6, WriteLives
<1> QED BY <1>2, <1>4, <1>5

LEMMA LoadForSendLives ==
  ASSUME OnlySms, LifeInv, NEW w \in Workers, NEW d \in Channels, LoadForSend(w, d) PROVE Lives
<1>1. TypeInv
  BY DEF LifeInv
<1>2. /\ worker[w] # Idle /\ worker[w].cmd = SendCommand(d, MessageOf(w))
      /\ UNCHANGED <<row, accepted>>
  BY <1>1, LoadForSendShape
<1>3. PICK s : /\ Become(w, s)
               /\ \/ s = Idle
                  \/ /\ Goes(worker[w], s, "send") /\ s.snap = row[MessageOf(w)]
                     /\ ~NothingToSend(d, MessageOf(w))
  BY <1>1, LoadForSendShape
<1>4. d = "Sms" /\ MessageOf(w) = worker[w].cmd.msg
  BY DEF OnlySms, MessageOf
<1>5. s # Idle => s.cmd = worker[w].cmd /\ Stage(s, row[MessageOf(w)])
  <2> SUFFICES ASSUME s # Idle PROVE s.cmd = worker[w].cmd /\ Stage(s, row[MessageOf(w)])
    OBVIOUS
  <2>1. /\ s.cmd = worker[w].cmd /\ s.step = "send" /\ s.snap = row[MessageOf(w)]
        /\ row[MessageOf(w)] # NoRow /\ StatusOf(row[MessageOf(w)]) = "Pending"
    BY <1>3, <1>4 DEF Goes, NothingToSend, StatusOf
  <2> QED BY <1>2, <1>4, <2>1 DEF Stage
<1> QED BY <1>2, <1>3, <1>5, QuietLives

\* What a consumer holds of its SMS after it called the provider.
LEMMA CalledStage ==
  ASSUME OnlySms, TypeInv, NEW w \in Workers, NEW s, NEW m, worker[w] # Idle,
         worker[w].snap \in Row, StatusOf(worker[w].snap) = "Pending",
         Called(w, s, m, "Sms", worker[w].snap.part["Sms"])
  PROVE  \/ Restarts(worker[w], s)
         \/ /\ Goes(worker[w], s, "record")
            /\ s.failed => StatusOf(s.snap) = "Pending"
            /\ ~s.failed => StatusOf(s.snap) \in {"Sended", "Invalid", "InvalidDeny"}
<1> PICK o : o = worker[w]
  OBVIOUS
<1> PICK part : part = o.snap.part["Sms"]
  OBVIOUS
<1>1. part \in Part /\ part.status = "Pending"
  BY DEF Row, OnlySms, StatusOf
<1>2. ASSUME NEW p, NEW failed, Recorded(o, s, "Sms", p, failed)
      PROVE  Goes(o, s, "record") /\ s.failed = failed /\ StatusOf(s.snap) = p.status
  <2>1. s.snap = [o.snap EXCEPT !.part["Sms"] = p] /\ o.snap.part \in [Channels -> Part]
    BY <1>2 DEF Recorded, Row
  <2>2. s.snap.part["Sms"] = p
    BY <2>1 DEF Row, OnlySms
  <2> QED BY <1>2, <2>2 DEF Recorded, StatusOf
<1>3. s = Idle => Restarts(o, s)
  BY DEF Restarts
<1>4. /\ ValidatorDeny("Sms", part).status = "InvalidDeny" /\ Invalid(part).status = "Invalid"
      /\ \A id : Send("Sms", part, id).status = "Sended"
      /\ Retry(part).status = "Pending"
  BY <1>1 DEF ValidatorDeny, Invalid, Send, Retry, Part
<1>5. \/ Restarts(o, s)
      \/ \E p : Recorded(o, s, "Sms", p, FALSE) /\ p.status \in {"Sended", "Invalid", "InvalidDeny"}
      \/ \E p : Recorded(o, s, "Sms", p, TRUE) /\ p.status = "Pending"
  BY <1>3, <1>4 DEF Called, Answered
<1> QED BY <1>2, <1>5

\* A provider that takes the SMS is reached while the row says Pending.
LEMMA CallLives ==
  ASSUME OnlySms, LifeInv, NEW w \in Workers, NEW d \in Channels, CallProvider(w, d) PROVE Lives
<1>1. TypeInv /\ d = "Sms"
  BY DEF LifeInv, OnlySms
<1>2. /\ worker[w] # Idle /\ worker[w].step = "send" /\ MessageOf(w) \in Msg
      /\ worker[w].cmd = SendCommand("Sms", MessageOf(w)) /\ UNCHANGED row
  BY <1>1, CallShape
<1>3. PICK s : /\ Become(w, s)
               /\ Called(w, s, MessageOf(w), "Sms", worker[w].snap.part["Sms"])
  BY <1>1, CallShape
<1> PICK m : m = MessageOf(w)
  OBVIOUS
<1>4. /\ worker[w].snap \in Row /\ row[m] # NoRow
      /\ StatusOf(row[m]) = "Pending" /\ StatusOf(worker[w].snap) = "Pending"
      /\ m = worker[w].cmd.msg
  <2>1. Stage(worker[w], row[m]) /\ Bound(worker[w]) /\ m = worker[w].cmd.msg
    BY <1>2 DEF LifeInv, StageInv, MessageOf, Bound
  <2>2. worker[w].snap \in Row
    BY <1>1, <1>2 DEF TypeInv, Held, HasSnap
  <2> QED BY <1>2, <2>1, <2>2 DEF Stage
<1>5. \/ Restarts(worker[w], s)
      \/ /\ Goes(worker[w], s, "record")
         /\ s.failed => StatusOf(s.snap) = "Pending"
         /\ ~s.failed => StatusOf(s.snap) \in {"Sended", "Invalid", "InvalidDeny"}
  BY <1>1, <1>2, <1>3, <1>4, CalledStage
<1>6. s # Idle => s.cmd = worker[w].cmd /\ Stage(s, row[m])
  <2>1. CASE Restarts(worker[w], s)
    BY <2>1, RestartStage DEF Restarts
  <2>2. CASE /\ Goes(worker[w], s, "record")
             /\ s.failed => StatusOf(s.snap) = "Pending"
             /\ ~s.failed => StatusOf(s.snap) \in {"Sended", "Invalid", "InvalidDeny"}
    <3>1. s.cmd = worker[w].cmd /\ s.step = "record" /\ s.cmd = SendCommand("Sms", s.cmd.msg)
      BY <1>2, <1>4, <2>2 DEF Goes
    <3> QED BY <1>4, <2>2, <3>1 DEF Stage
  <2> QED BY <1>5, <2>1, <2>2
<1>7. StageInv'
  <2>1. s # Idle => s.cmd.msg = m /\ Stage(s, row'[m])
    BY <1>2, <1>4, <1>6
  <2> QED BY <1>2, <1>3, <2>1, StageStep
<1>8. Maps
  <2>1. CASE accepted' = accepted
    BY <1>2, <2>1, MapRest
  <2>2. CASE ProviderAccepts(m, "Sms")
    <3>1. /\ accepted'[m]["Sms"] = accepted[m]["Sms"] + 1 /\ accepted[m]["Sms"] \in Nat
          /\ \A n \in Msg \ {m} : accepted'[n] = accepted[n]
      BY <1>1, <1>2, <2>2, AcceptedOne, CountsNat
    <3>2. {n \in Msg : accepted'[n]["Sms"] > 0} = {n \in Msg : accepted[n]["Sms"] > 0} \cup {m}
      BY <1>2, <3>1
    <3>3. Lifecycle!Reach(m)
      BY <1>2, <1>4, <3>2 DEF Lifecycle!Reach, StatusOf
    <3> QED BY <1>2, <3>3 DEF Maps, Lifecycle!Next
  <2>3. accepted' = accepted \/ ProviderAccepts(m, "Sms")
    BY <1>3, CalledShape
  <2> QED BY <2>1, <2>2, <2>3
<1> QED BY <1>7, <1>8 DEF Lives

\* The outcome is booked, with an id only if the provider took the SMS.
LEMMA RecordLives == ASSUME OnlySms, LifeInv, NEW w \in Workers, RecordOutcome(w) PROVE Lives
<1>1. TypeInv
  BY DEF LifeInv
<1>2. /\ worker[w] # Idle /\ worker[w].step = "record" /\ worker[w].cmd \in Sends
      /\ UNCHANGED accepted /\ Bound(worker[w])
      /\ UNCHANGED row \/ row' = [row EXCEPT ![MessageOf(w)] = worker[w].snap]
  BY <1>1, RecordShape DEF Bound
<1>3. PICK s : Become(w, s) /\ Restarts(worker[w], s)
  <2>1. PICK s : Become(w, s) /\ IF worker[w].failed THEN Restarts(worker[w], s) ELSE s = Idle
    BY <1>1, RecordShape
  <2> QED BY <2>1 DEF Restarts
<1>4. CASE UNCHANGED row
  BY <1>2, <1>3, <1>4, RestartLives
<1>5. CASE row' = [row EXCEPT ![MessageOf(w)] = worker[w].snap]
  <2> PICK snap : snap = worker[w].snap
    OBVIOUS
  <2>1. snap \in Row /\ snap # NoRow
    BY <1>1, <1>2, DispatchAssumption DEF TypeInv, Held, HasSnap
  <2>2. worker[w].cmd \notin Reports
    BY <1>2, Kinds DEF Sends, Reports
  <2>3. /\ row[MessageOf(w)] # NoRow /\ StatusOf(row[MessageOf(w)]) = "Pending"
        /\ StatusOf(snap) \in {"Pending", "Sended", "Invalid", "InvalidDeny"}
    <3>1. Stage(worker[w], row[MessageOf(w)])
      BY <1>2 DEF LifeInv, StageInv, MessageOf
    <3> QED BY <1>2, <2>2, <3>1 DEF Stage
  <2>4. MessageOf(w) \in Msg /\ ~Numbered(row[MessageOf(w)])
    BY <1>1, <1>2, <2>3, Own, RowUnnumbered DEF SentStatuses
  <2>5. Numbered(snap) => StatusOf(snap) \in SentStatuses /\ accepted[MessageOf(w)]["Sms"] > 0
    BY <1>1, <1>2, <2>1, SnapHonest, HonestId DEF Numbered
  <2>6. Turned(MessageOf(w), row[MessageOf(w)], snap)
    BY <2>1, <2>3, <2>4, <2>5 DEF Turned, StatusIn, SentStatuses
  <2>7. s # Idle => s.cmd = worker[w].cmd /\ Stage(s, snap)
    BY <1>3, RestartStage DEF Restarts
  <2> QED BY <1>2, <1>3, <1>5, <2>2, <2>6, <2>7, WriteLives
<1> QED BY <1>2, <1>4, <1>5

LEMMA LoadForReportLives ==
  ASSUME OnlySms, LifeInv, NEW w \in Workers, LoadForReport(w) PROVE Lives
<1>1. TypeInv
  BY DEF LifeInv
<1>2. /\ worker[w] # Idle /\ worker[w].cmd \in Reports
      /\ UNCHANGED <<row, accepted>>
  BY <1>1, LoadForReportShape
<1> PICK r : r = row[MessageOf(w)]
  OBVIOUS
<1>3. PICK s : /\ Become(w, s)
               /\ \/ Restarts(worker[w], s)
                  \/ /\ Goes(worker[w], s, "record") /\ r # NoRow
                     /\ r.part["Sms"].id = worker[w].cmd.id
                     /\ CanReport(r.part["Sms"])
                     /\ s.snap = [r EXCEPT !.part["Sms"] =
                           Report(r.part["Sms"], worker[w].cmd.delivered)]
  BY <1>1, LoadForReportShape
<1>4. CASE Restarts(worker[w], s)
  BY <1>2, <1>3, <1>4, RestartLives
<1>5. CASE ~Restarts(worker[w], s)
  <2>1. r \in Row /\ r # NoRow /\ "Sms" \in Channels
    BY <1>1, <1>2, <1>3, <1>5, Own DEF TypeInv, TypeOK, OnlySms
  <2> PICK part : part = r.part["Sms"]
    OBVIOUS
  <2>2. part \in Part /\ part.status = "Sended" /\ part.id = worker[w].cmd.id
    BY <1>3, <1>5, <2>1 DEF Row, CanReport
  <2>3. s.snap.part["Sms"] = Report(part, worker[w].cmd.delivered)
    BY <1>3, <1>5, <2>1 DEF Row
  <2>4. StatusOf(s.snap) \in {"Delivered", "UnDelivered"} /\ IdOf(s.snap) = worker[w].cmd.id
    BY <2>2, <2>3 DEF StatusOf, IdOf, Report, Part
  <2>5. s # Idle /\ s.cmd = worker[w].cmd /\ s.step = "record"
    BY <1>3, <1>5 DEF Goes
  <2>6. worker[w].cmd.id # NoId
    BY <1>2 DEF Reports, Ids, NoId
  <2>7. Stage(s, r)
    BY <1>2, <2>1, <2>2, <2>4, <2>5, <2>6 DEF Stage, StatusOf, IdOf, SentStatuses
  <2> QED BY <1>2, <1>3, <2>5, <2>7, QuietLives
<1> QED BY <1>4, <1>5

LEMMA SaveReportLives == ASSUME OnlySms, LifeInv, NEW w \in Workers, SaveReport(w) PROVE Lives
<1>1. TypeInv
  BY DEF LifeInv
<1>2. /\ worker[w] # Idle /\ worker[w].step = "record" /\ worker[w].cmd \in Reports
      /\ UNCHANGED accepted /\ Bound(worker[w])
  BY <1>1, SaveReportShape DEF Bound
<1>3. PICK s : /\ Become(w, s)
               /\ \/ s = Idle /\ row' = [row EXCEPT ![MessageOf(w)] = worker[w].snap]
                  \/ UNCHANGED row /\ Restarts(worker[w], s)
  BY <1>1, SaveReportShape
<1>4. CASE UNCHANGED row /\ Restarts(worker[w], s)
  BY <1>2, <1>3, <1>4, RestartLives
<1>5. CASE s = Idle /\ row' = [row EXCEPT ![MessageOf(w)] = worker[w].snap]
  <2>1. worker[w].snap \in Row /\ worker[w].snap # NoRow
    BY <1>1, <1>2, DispatchAssumption DEF TypeInv, Held, HasSnap
  <2>2. worker[w].cmd # SendCommand("Sms", worker[w].cmd.msg)
    BY <1>2, Kinds DEF Reports, SendCommand
  <2>3. /\ row[MessageOf(w)] # NoRow /\ StatusOf(row[MessageOf(w)]) \in SentStatuses
        /\ StatusOf(worker[w].snap) \in {"Delivered", "UnDelivered"}
        /\ IdOf(row[MessageOf(w)]) # NoId /\ IdOf(worker[w].snap) = IdOf(row[MessageOf(w)])
    <3>1. Stage(worker[w], row[MessageOf(w)])
      BY <1>2 DEF LifeInv, StageInv, MessageOf
    <3> QED BY <1>2, <2>2, <3>1 DEF Stage
  <2>4. Turned(MessageOf(w), row[MessageOf(w)], worker[w].snap)
    BY <2>1, <2>3 DEF Turned, StatusIn, Numbered
  <2>5. StillSent(row[MessageOf(w)], worker[w].snap)
    BY <2>1, <2>3 DEF StillSent, SentStatuses
  <2> QED BY <1>2, <1>3, <1>5, <2>4, <2>5, WriteLives
<1> QED BY <1>3, <1>4, <1>5

LEMMA DeleteLives ==
  ASSUME OneAtATime, OnlySms, LifeInv, NEW w \in Workers, HandleDelete(w) PROVE Lives
<1>1. TypeInv /\ StepsInv
  BY DEF LifeInv
<1>2. LoadForDelete(w)
  BY <1>1, DeleteShape DEF OneAtATime, HandleDelete
<1>3. worker[w] # Idle /\ UNCHANGED <<row, accepted>> /\ Become(w, Idle)
  <2>1. \A s : ~(MessageOf(w) \in Due /\ s # Idle /\ s.cmd = worker[w].cmd)
    BY DEF OneAtATime
  <2> QED BY <1>1, <1>2, <2>1, LoadForDeleteShape
<1> QED BY <1>3, RestartLives DEF Restarts

LEMMA BrokerLives == ASSUME OneAtATime, OnlySms, LifeInv, Broker PROVE Lives
<1>1. TypeInv
  BY DEF LifeInv
<1>2. ASSUME NEW w \in Workers, ReadFails(w) PROVE Lives
  <2>1. worker[w] # Idle /\ UNCHANGED <<row, accepted>>
    BY <1>1, <1>2, ReadFailsShape
  <2>2. PICK s : Become(w, s) /\ Restarts(worker[w], s)
    BY <1>1, <1>2, ReadFailsShape
  <2> QED BY <2>1, <2>2, RestartLives
<1>3. ASSUME NEW w \in Workers, Crash(w) PROVE Lives
  <2>1. worker[w] # Idle /\ Become(w, Idle) /\ UNCHANGED <<row, accepted>>
    BY <1>1, <1>3, CrashShape
  <2> QED BY <2>1, RestartLives DEF Restarts
<1>4. ASSUME NEW w \in Workers, NEW cmd \in Command, Deliver(w, cmd) PROVE Lives
  <2>1. worker[w] = Idle /\ UNCHANGED <<row, accepted>>
    BY <1>1, <1>4, DeliverShape
  <2>2. PICK s : Become(w, s) /\ Goes([cmd |-> cmd], s, FirstStep(cmd))
    BY <1>1, <1>4, DeliverShape
  <2>3. cmd.msg \in Msg
    BY DEF Command, Requests, Sends, Deletes, Reports
  <2>4. StageInv'
    <3>1. s.cmd.msg = cmd.msg /\ s.step \in {"isExist", "load"}
      BY <2>2 DEF Goes, FirstStep
    <3>2. Stage(s, row'[cmd.msg])
      BY <3>1, FreeStage
    <3> QED BY <2>1, <2>2, <2>3, <3>1, <3>2, StageStep
  <2>5. Maps
    BY <2>1, MapRest
  <2> QED BY <2>4, <2>5 DEF Lives
<1>5. ASSUME NEW w \in Workers PROVE ~Disconnect(w)
  BY DEF Disconnect, Fault, OneAtATime
<1> QED BY <1>2, <1>3, <1>4, <1>5 DEF Broker

\* Nobody moves.
LEMMA RestLives ==
  ASSUME OnlySms, LifeInv, UNCHANGED <<row, worker, accepted>> PROVE Lives
<1>1. StageInv'
  BY DEF LifeInv, StageInv, Stage, Bound, StatusOf, IdOf, SendCommand
<1>2. Maps
  BY MapRest
<1> QED BY <1>1, <1>2 DEF Lives

LEMMA ClientsLive == ASSUME OneAtATime, OnlySms, LifeInv, Clients PROVE Lives
<1>1. UNCHANGED <<row, worker, accepted>>
  BY DEF Clients, SubmitMessage, SubmitDelete, DueTimeComes, ReSendFailedSms, ReportDelivery
<1> QED BY <1>1, RestLives

LEMMA NextLives ==
  ASSUME OneAtATime, OnlySms PROVE LifeInv /\ [Next]_vars => Lives
<1> SUFFICES ASSUME LifeInv, [Next]_vars PROVE Lives
  OBVIOUS
<1>1. NoJobs
  BY DEF LifeInv, SoleInv
<1>2. ASSUME NEW w \in Workers, HandleRequest(w) PROVE Lives
  <2>1. ~ScheduleJob(w)
    BY <1>1 DEF ScheduleJob, At, NoJobs
  <2> QED BY <1>2, <2>1, IsExistLives, AddRowLives, SaveLives, PublishLives, CatchLives
          DEF HandleRequest
<1>3. ASSUME NEW w \in Workers, Consume(w) PROVE Lives
  BY <1>2, <1>3, LoadForSendLives, CallLives, RecordLives, LoadForReportLives, SaveReportLives,
     DeleteLives DEF Consume, HandleSend, HandleReport
<1>4. ASSUME NEW j \in JobIds PROVE ~(RunJob(j) \/ JobFails(j))
  BY <1>1 DEF RunJob, JobFails, StartJob, JobPublish, EndJob, NoJobs
<1>5. ASSUME NEW m \in Msg PROVE ~DeleteByTag(m)
  BY DEF DeleteByTag, OneAtATime
<1>6. CASE UNCHANGED vars
  BY <1>6, RestLives DEF vars
<1> QED BY <1>3, <1>4, <1>5, <1>6, BrokerLives, ClientsLive DEF Next

LEMMA InitLife == ASSUME OnlySms, Init PROVE LifeInv /\ Lifecycle!Init
<1>1. TypeInv /\ StepsInv /\ SoleInv
  BY InitTypeInv, InitSole DEF Init, StepsInv, InPlace
<1>2. HonestInv
  BY DEF Init, HonestInv, NoPhantomSent, FreshSnaps, At
<1>3. StageInv
  BY DEF Init, StageInv
<1>4. Lifecycle!Init
  <2>1. \A m \in Msg : accepted[m]["Sms"] = 0 /\ row[m] = NoRow
    BY DEF Init, OnlySms
  <2> QED BY <2>1 DEF Lifecycle!Init
<1> QED BY <1>1, <1>2, <1>3, <1>4 DEF LifeInv

\* With SMS alone and one command in flight at a time the dispatch implements the
\* abstract history of a message: each step of handlers, consumers, broker, clients
\* and faults is a turn of that history or leaves it as it is, also when reports
\* repeat and contradict each other, and when an answer of the gateway says nothing.
THEOREM DispatchImplementsLifecycle ==
  ASSUME OneAtATime, OnlySms PROVE Spec => ImplementsLifecycle
<1>1. Init => LifeInv /\ Lifecycle!Init
  BY InitLife
<1>2. LifeInv /\ [Next]_vars => LifeInv'
  <2> SUFFICES ASSUME LifeInv, [Next]_vars PROVE LifeInv'
    OBVIOUS
  <2>1. TypeInv' /\ StepsInv' /\ HonestInv' /\ SoleInv'
    BY NextTypeInv, NextSteps, NextHonestInv, NextSole DEF LifeInv
  <2>2. StageInv'
    BY NextLives DEF Lives
  <2> QED BY <2>1, <2>2 DEF LifeInv
<1>3. LifeInv /\ [Next]_vars => [Lifecycle!Next]_(Lifecycle!vars)
  BY NextLives DEF Lives, Maps
<1> QED BY <1>1, <1>2, <1>3, PTL DEF Spec, ImplementsLifecycle, Lifecycle!Spec

-----------------------------------------------------------------------------
(* A scheduled message keeps the job its row names                         *)

Names(r) == r # NoRow /\ r.jobId # NoJob

OwnedBy(r, m, jobs) == Names(r) => jobs[r.jobId] # NoJob /\ jobs[r.jobId].msg = m

\* The job a row or a copy of it names is a job of that message.
Owners ==
  /\ \A m \in Msg : OwnedBy(row[m], m, job)
  /\ \A w \in Workers : worker[w] # Idle => OwnedBy(worker[w].snap, worker[w].cmd.msg, job)

Undisturbed(m) == HandledOnce(m) /\ spent.kinds \cap Lossy = {}

HandlerOf(s, m) == s # Idle /\ s.cmd = RequestOf(m)

\* One copy of the request is queued or handled, and before it there is no row.
OneCopy(m) ==
  /\ ready[RequestOf(m)] <= 1
  /\ ready[RequestOf(m)] > 0 => \A w \in Workers : ~HandlerOf(worker[w], m)
  /\ \A v, w \in Workers : HandlerOf(worker[v], m) /\ HandlerOf(worker[w], m) => v = w
  /\ spent.requests[m] = 0 =>
       /\ ready[RequestOf(m)] = 0 /\ row[m] = NoRow
       /\ \A w \in Workers : ~HandlerOf(worker[w], m)

Underway(m) ==
  \/ spent.requests[m] = 0 \/ ready[RequestOf(m)] > 0
  \/ \E w \in Workers : HandlerOf(worker[w], m)

Dropped(m, jobs) == \E j \in JobIds : jobs[j] # NoJob /\ jobs[j].msg = m /\ ~jobs[j].live

MayName(s, m) == s # Idle /\ s.cmd.msg = m /\ Names(s.snap) =>
                   s.step \in {"save", "catch"} /\ m \in Due

\* While the request is under way only its handler knows the job.
Unnamed(m) ==
  /\ ~Dropped(m, job) /\ ~Names(row[m])
  /\ \A w \in Workers : MayName(worker[w], m)

TagDeletes(s, m) ==
  /\ s # Idle /\ s.cmd.msg = m
  /\ s.step = "delete" /\ s.cmd.type = "DeleteMessageByTag"

DropsLate(s, m) ==
  /\ s # Idle /\ s.cmd.msg = m /\ Names(s.snap)
  /\ s.step = "dropJob" /\ s.cmd.type # "DeleteMessageByTag"

\* A job is deleted after the row, or by tag and the row is next.
LastNamed(m) ==
  /\ Dropped(m, job) /\ row[m] # NoRow => \E w \in Workers : TagDeletes(worker[w], m)
  /\ \A w \in Workers : DropsLate(worker[w], m) => row[m] = NoRow

Remembered(m) == OneCopy(m) /\ (Underway(m) => Unnamed(m)) /\ LastNamed(m)

NameInv ==
  /\ JobsForDue /\ Owners
  /\ \A m \in Msg : Undisturbed(m) => Remembered(m)

\* Jobs keep the message they are for.
JobsGrow == \A j \in JobIds : job[j] # NoJob => job'[j] # NoJob /\ job'[j].msg = job[j].msg

LEMMA OwnedKept ==
  ASSUME JobsGrow, NEW r \in Row \cup {NoRow}, NEW m, OwnedBy(r, m, job) PROVE OwnedBy(r, m, job')
BY DEF JobsGrow, OwnedBy, Names, Row

LEMMA ChargedKinds ==
  ASSUME TypeInv, Charged
  PROVE  spent'.requests = spent.requests /\ spent.kinds \subseteq spent'.kinds
<1>1. spent \in [faults : Nat, resends : Nat, deletes : Nat, requests : [Msg -> Nat],
                 kinds : SUBSET FaultKinds]
  BY DEF TypeInv, TypeOK
<1>2. ASSUME NEW kind, Fault(kind)
      PROVE  spent'.requests = spent.requests /\ spent.kinds \subseteq spent'.kinds
  <2>1. spent' = [spent EXCEPT !.faults = spent.faults + 1, !.kinds = spent.kinds \cup {kind}]
    BY <1>2 DEF Fault
  <2> QED BY <1>1, <2>1
<1> QED BY <1>2 DEF Charged

\* Spending on faults takes no message back among the undisturbed.
LEMMA DisturbedStays ==
  ASSUME TypeInv, Charged, NEW m \in Msg
  PROVE  (Undisturbed(m)' => Undisturbed(m)) /\ spent'.requests = spent.requests
BY ChargedKinds DEF Undisturbed, HandledOnce, Lossy

LEMMA LossyFault ==
  ASSUME TypeInv, NEW kind \in {"database", "crash", "disconnect"}, Fault(kind), NEW m
  PROVE  ~Undisturbed(m)'
<1>1. spent \in [faults : Nat, resends : Nat, deletes : Nat, requests : [Msg -> Nat],
                 kinds : SUBSET FaultKinds]
  BY DEF TypeInv, TypeOK
<1>2. spent' = [spent EXCEPT !.faults = spent.faults + 1, !.kinds = spent.kinds \cup {kind}]
  BY DEF Fault
<1>3. kind \in spent'.kinds
  BY <1>1, <1>2
<1> QED BY <1>3 DEF Undisturbed, HandledOnce, Lossy

\* While the request is under way nothing is named, so the last clause says nothing.
LEMMA UnnamedLast == ASSUME NEW m, Unnamed(m) PROVE LastNamed(m)
BY DEF Unnamed, LastNamed, MayName, DropsLate

LEMMA UnderwayBack ==
  ASSUME TypeInv, NEW w \in Workers, worker[w] # Idle, NEW s, Become(w, s),
         s # Idle => s.cmd = worker[w].cmd, NEW m,
         ready'[RequestOf(m)] = ready[RequestOf(m)], spent'.requests = spent.requests
  PROVE  /\ Underway(m)' => Underway(m)
         /\ \A v \in Workers : HandlerOf(worker'[v], m) => HandlerOf(worker[v], m)
<1>1. worker'[w] = s /\ \A v \in Workers \ {w} : worker'[v] = worker[v]
  BY Becoming
<1>2. \A v \in Workers : HandlerOf(worker'[v], m) => HandlerOf(worker[v], m)
  BY <1>1 DEF HandlerOf
<1> QED BY <1>2 DEF Underway, HandlerOf, RequestOf

\* Copies do not multiply, and only the handler makes a row.
LEMMA OneCopyStep ==
  ASSUME TypeInv, NEW w \in Workers, worker[w] # Idle, NEW s, Become(w, s),
         s # Idle => s.cmd = worker[w].cmd, NEW m,
         ready'[RequestOf(m)] = ready[RequestOf(m)], spent'.requests = spent.requests,
         row[m] = NoRow /\ row'[m] # NoRow => HandlerOf(worker[w], m), OneCopy(m)
  PROVE  OneCopy(m)'
<1>1. \A v \in Workers : HandlerOf(worker'[v], m) => HandlerOf(worker[v], m)
  BY UnderwayBack
<1>2. spent.requests[m] = 0 => row'[m] = NoRow
  BY DEF OneCopy
<1> QED BY <1>1, <1>2 DEF OneCopy, HandlerOf, RequestOf

\* A step of a consumer leaves the other messages as they are.
LEMMA RememberedElsewhere ==
  ASSUME TypeInv, NEW w \in Workers, worker[w] # Idle, NEW s, Become(w, s),
         s # Idle => s.cmd = worker[w].cmd, NEW m \in Msg \ {MessageOf(w)},
         row'[m] = row[m], ready'[RequestOf(m)] = ready[RequestOf(m)],
         spent'.requests = spent.requests, Dropped(m, job') => Dropped(m, job), Remembered(m)
  PROVE  Remembered(m)'
<1>1. worker'[w] = s /\ \A v \in Workers \ {w} : worker'[v] = worker[v]
  BY Becoming
<1>2. OneCopy(m)'
  BY OneCopyStep DEF Remembered
<1>3. worker[w].cmd.msg # m /\ (s # Idle => s.cmd.msg # m)
  BY DEF MessageOf
<1>4. Underway(m)' => Underway(m)
  BY UnderwayBack
<1>5. Unnamed(m) => Unnamed(m)'
  <2> SUFFICES ASSUME Unnamed(m) PROVE Unnamed(m)'
    OBVIOUS
  <2>1. \A v \in Workers : MayName(worker'[v], m)
    BY <1>1, <1>3 DEF Unnamed, MayName
  <2>2. ~Dropped(m, job') /\ ~Names(row'[m])
    BY DEF Unnamed
  <2> QED BY <2>1, <2>2 DEF Unnamed, MayName, Dropped, Names
<1>6. LastNamed(m)'
  <2>1. \A v \in Workers : TagDeletes(worker[v], m) => TagDeletes(worker'[v], m)
    BY <1>1, <1>3 DEF TagDeletes
  <2>2. \A v \in Workers : DropsLate(worker'[v], m) => DropsLate(worker[v], m)
    BY <1>1, <1>3 DEF DropsLate
  <2>3. Dropped(m, job') /\ row'[m] # NoRow => \E v \in Workers : TagDeletes(worker'[v], m)
    BY <2>1 DEF Remembered, LastNamed
  <2>4. \A v \in Workers : DropsLate(worker'[v], m) => row'[m] = NoRow
    BY <2>2 DEF Remembered, LastNamed
  <2> QED BY <2>3, <2>4 DEF LastNamed, TagDeletes, DropsLate, Dropped, Names
<1> QED BY <1>2, <1>4, <1>5, <1>6 DEF Remembered

\* A step of consumer w, which becomes s, on the message m of its command.
Handles(w, s, m) ==
  /\ worker[w] # Idle /\ Become(w, s) /\ (s # Idle => s.cmd = worker[w].cmd)
  /\ m = MessageOf(w) /\ \A n \in Msg \ {m} : row'[n] = row[n]
  /\ \A n \in Msg : ready'[RequestOf(n)] = ready[RequestOf(n)]
  /\ Charged

\* Jobs are kept, and those of the other messages are not deleted.
JobsElsewhere(m) ==
  JobsGrow /\ \A n \in Msg \ {m} : Dropped(n, job') => Dropped(n, job)

\* What the row and the copy name afterwards are jobs of the message.
NamesOwn(s, m) ==
  OwnedBy(row'[m], m, job') /\ (s # Idle => OwnedBy(s.snap, m, job'))

OwnRemembered(m) == (Underway(m) => Unnamed(m)) /\ LastNamed(m)

LEMMA HandlesFacts ==
  ASSUME TypeInv, NEW w \in Workers, NEW s, NEW m, Handles(w, s, m)
  PROVE  /\ m \in Msg /\ worker[w].cmd.msg = m /\ worker[w].cmd \in Command
         /\ worker'[w] = s /\ \A v \in Workers \ {w} : worker'[v] = worker[v]
         /\ s # Idle => s.cmd = worker[w].cmd /\ s.cmd.msg = m
         /\ worker[w] # Idle /\ worker[w] \in Busy /\ Charged
<1>1. worker[w] # Idle /\ Become(w, s) /\ m = MessageOf(w) /\ Charged
      /\ (s # Idle => s.cmd = worker[w].cmd)
  BY DEF Handles
<1>2. m \in Msg /\ worker[w].cmd.msg = m /\ worker[w].cmd \in Command /\ worker[w] \in Busy
  BY <1>1, BusyFacts DEF TypeInv, MessageOf
<1>3. worker'[w] = s /\ \A v \in Workers \ {w} : worker'[v] = worker[v]
  BY <1>1, Becoming
<1> QED BY <1>1, <1>2, <1>3

LEMMA OwnersStep ==
  ASSUME TypeInv, Owners, NEW w \in Workers, NEW s, NEW m, Handles(w, s, m),
         JobsGrow, NamesOwn(s, m)
  PROVE  Owners'
<1>1. /\ m \in Msg /\ worker'[w] = s /\ \A v \in Workers \ {w} : worker'[v] = worker[v]
      /\ s # Idle => s.cmd.msg = m
  BY HandlesFacts
<1>2. ASSUME NEW n \in Msg PROVE OwnedBy(row'[n], n, job')
  <2>1. CASE n = m
    BY <2>1 DEF NamesOwn
  <2>2. CASE n # m
    <3>1. row'[n] = row[n] /\ row[n] \in Row \cup {NoRow} /\ OwnedBy(row[n], n, job)
      BY <2>2 DEF Handles, Owners, TypeInv, TypeOK
    <3>2. OwnedBy(row[n], n, job')
      BY <3>1, OwnedKept
    <3> QED BY <3>1, <3>2
  <2> QED BY <2>1, <2>2
<1>3. ASSUME NEW v \in Workers, worker'[v] # Idle
      PROVE  OwnedBy(worker'[v].snap, worker'[v].cmd.msg, job')
  <2>1. CASE v = w
    BY <1>1, <1>3, <2>1 DEF NamesOwn
  <2>2. CASE v # w
    <3>1. worker'[v] = worker[v] /\ worker[v] \in Busy
      BY <1>1, <1>3, <2>2, BusyFacts DEF TypeInv
    <3>2. worker[v].snap \in Row \cup {NoRow}
          /\ OwnedBy(worker[v].snap, worker[v].cmd.msg, job)
      BY <1>3, <3>1 DEF Busy, Owners
    <3>3. OwnedBy(worker[v].snap, worker[v].cmd.msg, job')
      BY <3>2, OwnedKept
    <3> QED BY <3>1, <3>3
  <2> QED BY <2>1, <2>2
<1> QED BY <1>2, <1>3 DEF Owners, OwnedBy, Names

LEMMA NameStep ==
  ASSUME TypeInv, NameInv, NEW w \in Workers, NEW s, NEW m, Handles(w, s, m),
         JobsElsewhere(m), NamesOwn(s, m),
         s # Idle /\ s.step = "schedule" => m \in Due,
         row[m] = NoRow /\ row'[m] # NoRow => HandlerOf(worker[w], m),
         Undisturbed(m)' /\ Remembered(m) => OwnRemembered(m)'
  PROVE  NameInv'
<1>1. /\ m \in Msg /\ worker'[w] = s /\ \A v \in Workers \ {w} : worker'[v] = worker[v]
      /\ s # Idle => s.cmd = worker[w].cmd /\ s.cmd.msg = m
      /\ worker[w] # Idle /\ Charged
  BY HandlesFacts
<1>2. JobsForDue'
  <2>1. ASSUME NEW v \in Workers, worker'[v] # Idle, worker'[v].step = "schedule"
        PROVE  worker'[v].cmd.msg \in Due
    <3>1. CASE v = w
      BY <1>1, <2>1, <3>1
    <3>2. CASE v # w
      BY <1>1, <2>1, <3>2 DEF NameInv, JobsForDue, MessageOf
    <3> QED BY <3>1, <3>2
  <2> QED BY <2>1 DEF JobsForDue, MessageOf
<1>3. Owners'
  BY OwnersStep DEF NameInv, JobsElsewhere
<1>4. ASSUME NEW n \in Msg, Undisturbed(n)' PROVE Remembered(n)'
  <2>1. Undisturbed(n) /\ spent'.requests = spent.requests
    BY <1>1, <1>4, DisturbedStays
  <2>2. Remembered(n)
    BY <2>1 DEF NameInv
  <2>3. Become(w, s) /\ ready'[RequestOf(n)] = ready[RequestOf(n)] /\ m = MessageOf(w)
    BY DEF Handles
  <2>4. CASE n = m
    <3>1. OneCopy(m)'
      <4>1. OneCopy(m)
        BY <2>2, <2>4 DEF Remembered
      <4> QED BY <1>1, <2>1, <2>3, <2>4, <4>1, OneCopyStep
    <3>2. OwnRemembered(m)'
      BY <1>4, <2>2, <2>4
    <3>3. Remembered(m)'
      BY <3>1, <3>2 DEF Remembered, OwnRemembered
    <3> QED BY <2>4, <3>3
  <2>5. CASE n # m
    <3>1. row'[n] = row[n] /\ (Dropped(n, job') => Dropped(n, job))
      BY <2>5 DEF Handles, JobsElsewhere
    <3> QED BY <1>1, <2>1, <2>2, <2>3, <2>5, <3>1, RememberedElsewhere
  <2> QED BY <2>4, <2>5
<1> QED BY <1>2, <1>3, <1>4 DEF NameInv

\* No job is deleted.
JobsRemain == JobsGrow /\ \A n \in Msg : Dropped(n, job') => Dropped(n, job)

LEMMA SameJobsRemain == UNCHANGED job => JobsRemain
BY DEF JobsRemain, JobsGrow

LEMMA UnnamedStep ==
  ASSUME TypeInv, NEW w \in Workers, NEW s, NEW m, Handles(w, s, m), JobsRemain, Unnamed(m),
         ~Names(row'[m]), MayName(s, m)
  PROVE  Unnamed(m)'
<1>1. m \in Msg /\ worker'[w] = s /\ \A v \in Workers \ {w} : worker'[v] = worker[v]
  BY HandlesFacts
<1>2. \A v \in Workers : MayName(worker'[v], m)
  BY <1>1 DEF Unnamed
<1>3. ~Dropped(m, job')
  BY <1>1 DEF Unnamed, JobsRemain
<1> QED BY <1>2, <1>3 DEF Unnamed, MayName, Dropped, Names

LEMMA LastNamedStep ==
  ASSUME TypeInv, NEW w \in Workers, NEW s, NEW m, Handles(w, s, m), JobsRemain, LastNamed(m),
         row[m] = NoRow => row'[m] = NoRow,
         TagDeletes(worker[w], m) => row'[m] = NoRow,
         DropsLate(s, m) => row'[m] = NoRow
  PROVE  LastNamed(m)'
<1>1. m \in Msg /\ worker'[w] = s /\ \A v \in Workers \ {w} : worker'[v] = worker[v]
  BY HandlesFacts
<1>2. Dropped(m, job') /\ row'[m] # NoRow => \E v \in Workers : TagDeletes(worker'[v], m)
  <2> SUFFICES ASSUME Dropped(m, job'), row'[m] # NoRow
               PROVE  \E v \in Workers : TagDeletes(worker'[v], m)
    OBVIOUS
  <2>1. Dropped(m, job) /\ row[m] # NoRow
    BY <1>1 DEF JobsRemain
  <2>2. PICK v \in Workers : TagDeletes(worker[v], m)
    BY <2>1 DEF LastNamed
  <2>3. v # w
    BY <2>2
  <2> QED BY <1>1, <2>2, <2>3
<1>3. \A v \in Workers : DropsLate(worker'[v], m) => row'[m] = NoRow
  BY <1>1 DEF LastNamed
<1> QED BY <1>2, <1>3 DEF LastNamed, TagDeletes, DropsLate, Dropped, Names

\* A step that neither deletes nor makes a row.
LEMMA NameQuiet ==
  ASSUME TypeInv, NameInv, NEW w \in Workers, NEW s, NEW m, Handles(w, s, m),
         JobsRemain, NamesOwn(s, m),
         s # Idle /\ s.step = "schedule" => m \in Due,
         row[m] = NoRow => row'[m] = NoRow,
         worker[w].step # "delete",
         s # Idle /\ s.step = "dropJob" => s.cmd.type = "DeleteMessageByTag",
         OneCopy(m) /\ Underway(m)' /\ Unnamed(m) => ~Names(row'[m]) /\ MayName(s, m)
  PROVE  NameInv'
<1>1. /\ m \in Msg /\ worker[w] # Idle /\ Charged
      /\ s # Idle => s.cmd = worker[w].cmd
      /\ Become(w, s) /\ ready'[RequestOf(m)] = ready[RequestOf(m)]
  <2>1. m \in Msg /\ worker[w] # Idle /\ Charged /\ (s # Idle => s.cmd = worker[w].cmd)
    BY HandlesFacts
  <2> QED BY <2>1 DEF Handles
<1>2. JobsElsewhere(m)
  BY DEF JobsElsewhere, JobsRemain
<1>3. Undisturbed(m)' /\ Remembered(m) => OwnRemembered(m)'
  <2> SUFFICES ASSUME Undisturbed(m)', Remembered(m) PROVE OwnRemembered(m)'
    OBVIOUS
  <2>1. spent'.requests = spent.requests
    BY <1>1, DisturbedStays
  <2>2. Underway(m)' => Unnamed(m)
    <3>1. Underway(m)' => Underway(m)
      BY <1>1, <2>1, UnderwayBack
    <3> QED BY <3>1 DEF Remembered
  <2>3. Underway(m)' => Unnamed(m)'
    BY <2>2, UnnamedStep DEF Remembered
  <2>4. LastNamed(m)'
    <3>1. ~TagDeletes(worker[w], m) /\ ~DropsLate(s, m)
      BY DEF TagDeletes, DropsLate
    <3> QED BY <3>1, LastNamedStep DEF Remembered
  <2> QED BY <2>3, <2>4 DEF OwnRemembered
<1> QED BY <1>2, <1>3, NameStep

LEMMA OwnNames ==
  ASSUME TypeInv, Owners, NEW w \in Workers, worker[w] # Idle, NEW m, m = MessageOf(w)
  PROVE  OwnedBy(row[m], m, job) /\ OwnedBy(worker[w].snap, m, job) /\ OwnedBy(NoRow, m, job)
<1>1. m \in Msg /\ worker[w].cmd.msg = m
  BY BusyFacts DEF TypeInv, MessageOf
<1> QED BY <1>1 DEF Owners, OwnedBy, Names

\* A consumer that is done, or starts again, whatever it deleted or wrote.
LEMMA RestartNames ==
  ASSUME TypeInv, NameInv, NEW w \in Workers, NEW s, NEW m, Handles(w, s, m), UNCHANGED job,
         Restarts(worker[w], s), worker[w].step # "delete",
         row'[m] = row[m] \/ row'[m] = NoRow
  PROVE  NameInv'
<1>1. s # Idle => s.snap = NoRow /\ s.step \in {"isExist", "load"}
  BY DEF Restarts, FirstStep
<1>2. worker[w] # Idle /\ m = MessageOf(w)
  BY DEF Handles
<1>3. NamesOwn(s, m)
  <2>1. OwnedBy(row[m], m, job) /\ OwnedBy(NoRow, m, job)
    BY <1>2, OwnNames DEF NameInv
  <2> QED BY <1>1, <2>1 DEF NamesOwn
<1>4. Unnamed(m) => ~Names(row'[m]) /\ MayName(s, m)
  BY <1>1 DEF Unnamed, MayName, Names
<1> QED BY <1>1, <1>3, <1>4, SameJobsRemain, NameQuiet

\* If a names a job, b names the same.
SameName(a, b) == Names(a) => Names(b) /\ a.jobId = b.jobId

LEMMA HandlesRow ==
  ASSUME TypeInv, NEW w \in Workers, worker[w] # Idle, NEW s, Become(w, s),
         s # Idle => s.cmd = worker[w].cmd, NEW m, m = MessageOf(w), NEW new,
         UNCHANGED row \/ row' = [row EXCEPT ![m] = new],
         \A n \in Msg : ready'[RequestOf(n)] = ready[RequestOf(n)], Charged
  PROVE  Handles(w, s, m) /\ (row'[m] = row[m] \/ row'[m] = new)
<1>1. m \in Msg /\ row \in [Msg -> Row \cup {NoRow}]
  BY BusyFacts DEF TypeInv, TypeOK
<1>2. \A n \in Msg \ {m} : row'[n] = row[n]
  BY <1>1
<1> QED BY <1>1, <1>2 DEF Handles

\* A step that only carries names on, of a consumer that did not schedule.
LEMMA QuietNames ==
  ASSUME TypeInv, NameInv, NEW w \in Workers, NEW s, NEW m, Handles(w, s, m), UNCHANGED job,
         worker[w].step \notin {"save", "catch", "delete"},
         s # Idle => s.step # "schedule",
         s # Idle /\ s.step = "dropJob" => s.cmd.type = "DeleteMessageByTag",
         s # Idle => SameName(s.snap, row[m]) \/ SameName(s.snap, worker[w].snap),
         SameName(row'[m], row[m]) \/ SameName(row'[m], worker[w].snap),
         row[m] = NoRow => row'[m] = NoRow
  PROVE  NameInv'
<1>1. worker[w] # Idle /\ m = MessageOf(w)
  BY DEF Handles
<1>2. worker[w].cmd.msg = m
  BY HandlesFacts
<1>3. OwnedBy(row[m], m, job) /\ OwnedBy(worker[w].snap, m, job)
  BY <1>1, OwnNames DEF NameInv
<1>4. NamesOwn(s, m)
  BY <1>3 DEF NamesOwn, OwnedBy, SameName
<1>5. Unnamed(m) => ~Names(row[m]) /\ ~Names(worker[w].snap)
  BY <1>1, <1>2 DEF Unnamed, MayName
<1>6. Unnamed(m) => ~Names(row'[m]) /\ MayName(s, m)
  BY <1>5 DEF SameName, MayName
<1> QED BY <1>4, <1>6, SameJobsRemain, NameQuiet

LEMMA SameNames ==
  ASSUME NEW r \in Row, NEW c, NEW p, NEW q, q = [r EXCEPT !.part[c] = p]
  PROVE  SameName(q, r)
<1>1. q.jobId = r.jobId /\ r # NoRow
  BY DispatchAssumption DEF Row
<1> QED BY <1>1 DEF SameName, Names

LEMMA IsExistNames ==
  ASSUME TypeInv, NameInv, NEW w \in Workers, IsExist(w) PROVE NameInv'
<1>1. /\ worker[w] # Idle /\ worker[w].step = "isExist"
      /\ UNCHANGED <<row, ready, job, spent>>
  BY IsExistShape
<1>2. PICK s : /\ Become(w, s)
               /\ s = Idle \/ (Goes(worker[w], s, "add") /\ s.snap = worker[w].snap)
  BY IsExistShape
<1> PICK m : m = MessageOf(w)
  OBVIOUS
<1>3. s # Idle => s.cmd = worker[w].cmd /\ s.step = "add" /\ s.snap = worker[w].snap
  BY <1>2 DEF Goes
<1>4. Handles(w, s, m)
  BY <1>1, <1>2, <1>3, HandlesRow DEF Charged
<1>5. SameName(row'[m], row[m]) /\ (s # Idle => SameName(s.snap, worker[w].snap))
  BY <1>1, <1>3 DEF SameName
<1> QED BY <1>1, <1>3, <1>4, <1>5, QuietNames

LEMMA LoadForSendNames ==
  ASSUME TypeInv, NameInv, NEW w \in Workers, NEW c \in Channels, LoadForSend(w, c)
  PROVE  NameInv'
<1>1. /\ worker[w] # Idle /\ worker[w].step = "load"
      /\ UNCHANGED <<row, ready, job, spent>>
  BY LoadForSendShape
<1>2. PICK s : /\ Become(w, s)
               /\ s = Idle \/ (Goes(worker[w], s, "send") /\ s.snap = row[MessageOf(w)])
  BY LoadForSendShape
<1> PICK m : m = MessageOf(w)
  OBVIOUS
<1>3. s # Idle => s.cmd = worker[w].cmd /\ s.step = "send" /\ s.snap = row[m]
  BY <1>2 DEF Goes
<1>4. Handles(w, s, m)
  BY <1>1, <1>2, <1>3, HandlesRow DEF Charged
<1>5. SameName(row'[m], row[m]) /\ (s # Idle => SameName(s.snap, row[m]))
  BY <1>1, <1>3 DEF SameName
<1> QED BY <1>1, <1>3, <1>4, <1>5, QuietNames

LEMMA PublishNames ==
  ASSUME TypeInv, NameInv, NEW w \in Workers, NEW c \in Channels, PublishNow(w, c)
  PROVE  NameInv'
<1>1. worker[w] # Idle /\ worker[w].step = "publish" /\ UNCHANGED <<row, job>>
  BY PublishShape
<1>2. PICK s :
        /\ Become(w, s)
        /\ \/ /\ Publish({SendCommand(c, MessageOf(w))}) /\ UNCHANGED spent
              /\ s = Idle \/ (Goes(worker[w], s, "publish") /\ s.snap = worker[w].snap)
           \/ /\ Goes(worker[w], s, "catch") /\ s.snap = worker[w].snap
              /\ \/ Fault("publish") /\ UNCHANGED ready
                 \/ Fault("lostConfirm") /\ Publish({SendCommand(c, MessageOf(w))})
  BY PublishShape
<1> PICK m : m = MessageOf(w)
  OBVIOUS
<1>3. s # Idle => /\ s.cmd = worker[w].cmd /\ s.step \in {"publish", "catch"}
                  /\ s.snap = worker[w].snap
  BY <1>2 DEF Goes
<1>4. Charged /\ (UNCHANGED ready \/ Publish({SendCommand(c, MessageOf(w))}))
  BY <1>2 DEF Charged
<1>5. \A n \in Msg : ready'[RequestOf(n)] = ready[RequestOf(n)]
  <2>1. MessageOf(w) \in Msg
    BY <1>1, BusyFacts DEF TypeInv
  <2>2. ASSUME NEW n \in Msg
        PROVE  RequestOf(n) \in Command /\ RequestOf(n) # SendCommand(c, MessageOf(w))
    BY <2>1, Kinds DEF RequestOf, SendCommand
  <2> QED BY <1>4, <2>1, <2>2, Kinds, PublishOne
<1>6. Handles(w, s, m)
  BY <1>1, <1>2, <1>3, <1>4, <1>5, HandlesRow
<1>7. SameName(row'[m], row[m]) /\ (s # Idle => SameName(s.snap, worker[w].snap))
  BY <1>1, <1>3 DEF SameName
<1> QED BY <1>1, <1>3, <1>6, <1>7, QuietNames

LEMMA CatchNames ==
  ASSUME TypeInv, NameInv, NEW w \in Workers, CatchDelete(w) PROVE NameInv'
<1>1. /\ worker[w] # Idle /\ worker[w].step = "catch" /\ UNCHANGED <<ready, job>>
      /\ \/ row' = [row EXCEPT ![MessageOf(w)] = NoRow] /\ UNCHANGED spent
         \/ Fault("database") /\ UNCHANGED row
  BY CatchShape
<1>2. PICK s : Become(w, s) /\ Restarts(worker[w], s)
  BY CatchShape
<1> PICK m : m = MessageOf(w)
  OBVIOUS
<1>3. s # Idle => s.cmd = worker[w].cmd
  BY <1>2 DEF Restarts
<1>4. Handles(w, s, m) /\ (row'[m] = row[m] \/ row'[m] = NoRow)
  BY <1>1, <1>2, <1>3, HandlesRow DEF Charged
<1> QED BY <1>1, <1>2, <1>4, RestartNames

LEMMA AddRowNames ==
  ASSUME TypeInv, StepsInv, NameInv, NEW w \in Workers, AddRow(w) PROVE NameInv'
<1>1. worker[w] # Idle /\ worker[w].step = "add" /\ UNCHANGED <<ready, job>>
  BY AddRowShape
<1>2. PICK s :
        /\ Become(w, s)
        /\ \/ /\ row[MessageOf(w)] = NoRow
              /\ row' = [row EXCEPT ![MessageOf(w)] = NewRow] /\ UNCHANGED spent
              /\ \/ /\ MessageOf(w) \in Due /\ Goes(worker[w], s, "schedule")
                    /\ s.snap = NewRow
                 \/ /\ MessageOf(w) \notin Due /\ Goes(worker[w], s, "save")
                    /\ s.snap = EnqueuedRow(NewRow, NoJob)
           \/ /\ Restarts(worker[w], s) /\ UNCHANGED row
              /\ UNCHANGED spent \/ Fault("database")
  BY AddRowShape
<1> PICK m : m = MessageOf(w)
  OBVIOUS
<1>3. s # Idle => s.cmd = worker[w].cmd
  BY <1>2 DEF Goes, Restarts
<1>4. Handles(w, s, m)
  BY <1>1, <1>2, <1>3, HandlesRow DEF Charged
<1>5. CASE Restarts(worker[w], s) /\ UNCHANGED row
  BY <1>1, <1>4, <1>5, RestartNames
<1>6. CASE ~(Restarts(worker[w], s) /\ UNCHANGED row)
  <2>1. /\ row' = [row EXCEPT ![m] = NewRow]
        /\ s # Idle /\ (s.snap = NewRow \/ s.snap = EnqueuedRow(NewRow, NoJob))
        /\ s.step = "schedule" => m \in Due
        /\ s.step # "dropJob"
    BY <1>2, <1>6 DEF Goes
  <2>2. m \in Msg /\ worker[w].cmd.msg = m /\ Become(w, s)
    BY <1>4, <1>2, HandlesFacts
  <2>3. row'[m] = NewRow
    BY <2>1, <2>2 DEF TypeInv, TypeOK
  <2>4. ~Names(row'[m]) /\ ~Names(s.snap)
    BY <2>1, <2>3, RowValues DEF Names
  <2>5. HandlerOf(worker[w], m)
    BY <1>1, <2>2 DEF StepsInv, InPlace, RequestSteps, HandlerOf
  <2>6. NamesOwn(s, m)
    BY <2>4 DEF NamesOwn, OwnedBy
  <2>7. JobsRemain /\ JobsElsewhere(m)
    BY <1>1, SameJobsRemain DEF JobsRemain, JobsElsewhere
  <2>8. Remembered(m) => OwnRemembered(m)'
    <3>1. Remembered(m) => Unnamed(m)
      BY <2>5 DEF Remembered, Underway
    <3>2. MayName(s, m)
      BY <2>4 DEF MayName
    <3>3. Unnamed(m) => Unnamed(m)'
      BY <1>4, <2>4, <2>7, <3>2, UnnamedStep
    <3>4. Unnamed(m)' => LastNamed(m)'
      BY DEF Unnamed, LastNamed, MayName, DropsLate
    <3> QED BY <3>1, <3>3, <3>4 DEF OwnRemembered
  <2> QED BY <1>4, <2>1, <2>5, <2>6, <2>7, <2>8, NameStep
<1> QED BY <1>5, <1>6

\* A new job is nobody's loss.
LEMMA NewJobKept ==
  ASSUME TypeInv, NEW j \in JobIds, job[j] = NoJob, NEW m \in Msg, JobBecomes(j, JobFor(m))
  PROVE  JobsRemain /\ job'[j] # NoJob /\ job'[j].msg = m
<1>1. job'[j] = JobFor(m) /\ \A i \in JobIds \ {j} : job'[i] = job[i]
  BY DEF TypeInv, TypeOK, JobBecomes
<1>2. JobFor(m).msg = m /\ JobFor(m).live /\ JobFor(m) # NoJob
  <2>1. JobFor(m) \in Job
    BY DEF JobFor, Job
  <2> QED BY <2>1, DispatchAssumption DEF JobFor
<1>3. JobsGrow
  BY <1>1 DEF JobsGrow
<1>4. ASSUME NEW n \in Msg, Dropped(n, job') PROVE Dropped(n, job)
  <2>1. PICK i \in JobIds : job'[i] # NoJob /\ job'[i].msg = n /\ ~job'[i].live
    BY <1>4 DEF Dropped
  <2>2. i # j
    BY <1>1, <1>2, <2>1
  <2> QED BY <1>1, <2>1, <2>2 DEF Dropped
<1> QED BY <1>1, <1>2, <1>3, <1>4 DEF JobsRemain

LEMMA ScheduleNames ==
  ASSUME TypeInv, NameInv, NEW w \in Workers, ScheduleJob(w) PROVE NameInv'
<1>1. worker[w] # Idle /\ worker[w].step = "schedule" /\ UNCHANGED <<row, ready>>
  BY ScheduleShape
<1>2. PICK s :
        /\ Become(w, s)
        /\ \/ /\ UNCHANGED spent /\ Goes(worker[w], s, "save")
              /\ \E j \in JobIds : /\ job[j] = NoJob
                                   /\ job' = [job EXCEPT ![j] = JobFor(MessageOf(w))]
                                   /\ s.snap = EnqueuedRow(worker[w].snap, j)
           \/ /\ Fault("job") /\ UNCHANGED job /\ Goes(worker[w], s, "catch")
              /\ s.snap = worker[w].snap
  BY ScheduleShape
<1> PICK m : m = MessageOf(w)
  OBVIOUS
<1>3. /\ s # Idle /\ s.cmd = worker[w].cmd /\ s.step \in {"save", "catch"}
      /\ UNCHANGED spent \/ Fault("job")
  BY <1>2 DEF Goes
<1>4. Handles(w, s, m)
  BY <1>1, <1>2, <1>3, HandlesRow DEF Charged
<1>5. CASE UNCHANGED job /\ s.snap = worker[w].snap
  <2>1. SameName(row'[m], row[m]) /\ SameName(s.snap, worker[w].snap)
    BY <1>1, <1>5 DEF SameName
  <2> QED BY <1>1, <1>3, <1>4, <1>5, <2>1, QuietNames
<1>6. CASE ~(UNCHANGED job /\ s.snap = worker[w].snap)
  <2>1. PICK j \in JobIds : /\ job[j] = NoJob
                            /\ job' = [job EXCEPT ![j] = JobFor(m)]
                            /\ s.snap = EnqueuedRow(worker[w].snap, j)
    BY <1>2, <1>6
  <2>2. m \in Msg /\ m \in Due
    BY <1>1, <1>4, HandlesFacts DEF NameInv, JobsForDue
  <2>3. worker[w].snap \in Row
    BY <1>1 DEF TypeInv, Held, HasSnap
  <2>4. s.snap.jobId = j
    BY <2>1, <2>3, RowValues
  <2>5. JobBecomes(j, JobFor(m))
    BY <2>1 DEF JobBecomes
  <2>6. JobsRemain /\ job'[j] # NoJob /\ job'[j].msg = m
    BY <2>1, <2>2, <2>5, NewJobKept
  <2>7. NamesOwn(s, m)
    <3>1. row[m] \in Row \cup {NoRow} /\ OwnedBy(row[m], m, job)
      BY <2>2 DEF NameInv, Owners, TypeInv, TypeOK
    <3>2. OwnedBy(row[m], m, job')
      BY <2>6, <3>1, OwnedKept DEF JobsRemain
    <3> QED BY <1>1, <2>4, <2>6, <3>2 DEF NamesOwn, OwnedBy
  <2>8. MayName(s, m)
    BY <1>3, <2>2 DEF MayName
  <2>9. Unnamed(m) => ~Names(row'[m])
    BY <1>1 DEF Unnamed
  <2> QED BY <1>1, <1>3, <1>4, <2>2, <2>6, <2>7, <2>8, <2>9, NameQuiet
<1> QED BY <1>5, <1>6

LEMMA SaveNames ==
  ASSUME TypeInv, StepsInv, NameInv, NEW w \in Workers, SavePending(w) PROVE NameInv'
<1>1. worker[w] # Idle /\ worker[w].step = "save" /\ UNCHANGED <<ready, job>>
  BY SaveShape
<1>2. PICK s :
        /\ Become(w, s)
        /\ \/ /\ row[MessageOf(w)] # NoRow /\ UNCHANGED spent
              /\ row' = [row EXCEPT ![MessageOf(w)] = worker[w].snap]
              /\ \/ MessageOf(w) \in Due /\ s = Idle
                 \/ /\ MessageOf(w) \notin Due /\ Goes(worker[w], s, "publish")
                    /\ s.snap = worker[w].snap
           \/ /\ UNCHANGED row /\ Goes(worker[w], s, "catch")
              /\ s.snap = worker[w].snap
              /\ (row[MessageOf(w)] = NoRow /\ UNCHANGED spent) \/ Fault("database")
  BY SaveShape
<1> PICK m : m = MessageOf(w)
  OBVIOUS
<1>3. s # Idle => /\ s.cmd = worker[w].cmd /\ s.step \in {"publish", "catch"}
                  /\ s.snap = worker[w].snap
  BY <1>2 DEF Goes
<1>4. Handles(w, s, m) /\ (row'[m] = row[m] \/ row'[m] = worker[w].snap)
  BY <1>1, <1>2, <1>3, HandlesRow DEF Charged
<1>5. m \in Msg /\ worker[w].cmd.msg = m /\ worker'[w] = s
      /\ \A v \in Workers \ {w} : worker'[v] = worker[v]
  BY <1>4, HandlesFacts
<1>6. NamesOwn(s, m)
  <2>1. OwnedBy(row[m], m, job) /\ OwnedBy(worker[w].snap, m, job)
    BY <1>1, OwnNames DEF NameInv
  <2> QED BY <1>1, <1>3, <1>4, <2>1 DEF NamesOwn
<1>7. OneCopy(m) /\ Underway(m)' => s # Idle
  <2> SUFFICES ASSUME OneCopy(m), s = Idle PROVE ~Underway(m)'
    OBVIOUS
  <2>1. HandlerOf(worker[w], m)
    BY <1>1, <1>5 DEF StepsInv, InPlace, RequestSteps, HandlerOf
  <2>2. spent.requests[m] # 0 /\ ~(ready[RequestOf(m)] > 0)
        /\ \A v \in Workers \ {w} : ~HandlerOf(worker[v], m)
    BY <2>1 DEF OneCopy
  <2>3. spent'.requests = spent.requests
    BY <1>4, <1>5, DisturbedStays, HandlesFacts
  <2>4. \A v \in Workers : ~HandlerOf(worker'[v], m)
    BY <1>5, <2>2 DEF HandlerOf
  <2> QED BY <1>1, <2>2, <2>3, <2>4 DEF Underway, HandlerOf, RequestOf
<1>8. Unnamed(m) /\ s # Idle => ~Names(row'[m]) /\ MayName(s, m)
  <2> SUFFICES ASSUME Unnamed(m), s # Idle PROVE ~Names(row'[m]) /\ MayName(s, m)
    OBVIOUS
  <2>1. ~Names(row[m]) /\ (Names(worker[w].snap) => m \in Due)
    BY <1>1, <1>5 DEF Unnamed, MayName
  <2>2. CASE s.step = "catch"
    <3>1. row'[m] = row[m]
      BY <1>2, <2>2 DEF Goes
    <3> QED BY <1>3, <2>1, <2>2, <3>1 DEF MayName
  <2>3. CASE s.step = "publish"
    <3>1. m \notin Due
      BY <1>2, <2>3 DEF Goes
    <3> QED BY <1>3, <1>4, <2>1, <3>1 DEF MayName
  <2> QED BY <1>3, <2>2, <2>3
<1>9. row[m] = NoRow => row'[m] = NoRow
  BY <1>2, <1>4
<1> QED BY <1>1, <1>3, <1>4, <1>6, <1>7, <1>8, <1>9, SameJobsRemain, NameQuiet

LEMMA CallNames ==
  ASSUME TypeInv, NameInv, NEW w \in Workers, NEW c \in Channels, CallProvider(w, c)
  PROVE  NameInv'
<1>1. /\ worker[w] # Idle /\ worker[w].step = "send" /\ MessageOf(w) \in Msg
      /\ UNCHANGED <<row, ready, job>>
  BY CallShape
<1>2. PICK s : Become(w, s) /\ Called(w, s, MessageOf(w), c, worker[w].snap.part[c])
  BY CallShape
<1> PICK m : m = MessageOf(w)
  OBVIOUS
<1>3. /\ s = Idle \/ Restarts(worker[w], s) \/ Goes(worker[w], s, "record")
      /\ Charged
  BY <1>2, CalledShape
<1>4. s # Idle => s.cmd = worker[w].cmd /\ s.step \in {"isExist", "load", "record"}
  BY <1>3 DEF Goes, Restarts, FirstStep
<1>5. Handles(w, s, m)
  BY <1>1, <1>2, <1>3, <1>4, HandlesRow
<1>6. worker[w].snap \in Row
  BY <1>1 DEF TypeInv, Held, HasSnap
<1>7. s # Idle => SameName(s.snap, worker[w].snap)
  <2>1. Restarts(worker[w], s) /\ s # Idle => SameName(s.snap, worker[w].snap)
    BY DEF Restarts, SameName, Names
  <2>2. ASSUME NEW p, NEW failed, Recorded(worker[w], s, c, p, failed)
        PROVE  SameName(s.snap, worker[w].snap)
    BY <1>6, <2>2, SameNames DEF Recorded
  <2>3. s = Idle \/ Restarts(worker[w], s) \/ \E p, failed : Recorded(worker[w], s, c, p, failed)
    BY <1>2 DEF Called, Answered
  <2> QED BY <2>1, <2>2, <2>3
<1>8. SameName(row'[m], row[m])
  BY <1>1 DEF SameName
<1> QED BY <1>1, <1>4, <1>5, <1>7, <1>8, QuietNames

\* A copy that is written carries the name on.
LEMMA WriteNames ==
  ASSUME TypeInv, NameInv, NEW w \in Workers, worker[w] # Idle, worker[w].step = "record",
         NEW s, Become(w, s), Restarts(worker[w], s), UNCHANGED <<ready, job>>, Charged,
         UNCHANGED row \/ (/\ row[MessageOf(w)] # NoRow
                           /\ row' = [row EXCEPT ![MessageOf(w)] = worker[w].snap])
  PROVE  NameInv'
<1> PICK m : m = MessageOf(w)
  OBVIOUS
<1>1. s # Idle => s.cmd = worker[w].cmd /\ s.step \in {"isExist", "load"} /\ s.snap = NoRow
  BY DEF Restarts, FirstStep
<1>2. Handles(w, s, m) /\ (row'[m] = row[m] \/ row'[m] = worker[w].snap)
  BY <1>1, HandlesRow
<1>3. s # Idle => SameName(s.snap, worker[w].snap)
  BY <1>1 DEF SameName, Names
<1>4. SameName(row'[m], row[m]) \/ SameName(row'[m], worker[w].snap)
  BY <1>2 DEF SameName
<1>5. row[m] = NoRow => row'[m] = NoRow
  BY <1>2
<1> QED BY <1>1, <1>2, <1>3, <1>4, <1>5, QuietNames

LEMMA RecordNames ==
  ASSUME TypeInv, NameInv, NEW w \in Workers, RecordOutcome(w) PROVE NameInv'
<1>1. /\ worker[w] # Idle /\ worker[w].step = "record" /\ UNCHANGED <<ready, job>>
      /\ \/ /\ row[MessageOf(w)] # NoRow /\ UNCHANGED spent
            /\ row' = [row EXCEPT ![MessageOf(w)] = worker[w].snap]
         \/ UNCHANGED row /\ (UNCHANGED spent \/ Fault("database"))
  BY RecordShape
<1>2. PICK s : Become(w, s) /\ IF worker[w].failed THEN Restarts(worker[w], s) ELSE s = Idle
  BY RecordShape
<1>3. Restarts(worker[w], s) /\ Charged
  BY <1>1, <1>2 DEF Restarts, Charged
<1> QED BY <1>1, <1>2, <1>3, WriteNames

LEMMA SaveReportNames ==
  ASSUME TypeInv, NameInv, NEW w \in Workers, SaveReport(w) PROVE NameInv'
<1>1. worker[w] # Idle /\ worker[w].step = "record" /\ UNCHANGED <<ready, job>>
  BY SaveReportShape
<1>2. PICK s : /\ Become(w, s)
               /\ \/ /\ row[MessageOf(w)] # NoRow /\ UNCHANGED spent /\ s = Idle
                     /\ row' = [row EXCEPT ![MessageOf(w)] = worker[w].snap]
                  \/ /\ UNCHANGED row /\ (UNCHANGED spent \/ Fault("database"))
                     /\ Restarts(worker[w], s)
  BY SaveReportShape
<1>3. Restarts(worker[w], s) /\ Charged
  BY <1>2 DEF Restarts, Charged
<1>4. \/ UNCHANGED row
      \/ /\ row[MessageOf(w)] # NoRow
         /\ row' = [row EXCEPT ![MessageOf(w)] = worker[w].snap]
  BY <1>2
<1> QED BY <1>1, <1>2, <1>3, <1>4, WriteNames

LEMMA LoadForReportNames ==
  ASSUME TypeInv, NameInv, NEW w \in Workers, LoadForReport(w) PROVE NameInv'
<1>1. /\ worker[w] # Idle /\ worker[w].step = "load" /\ worker[w].cmd \in Reports
      /\ UNCHANGED <<row, ready, job, spent>>
  BY LoadForReportShape
<1>2. PICK s : /\ Become(w, s)
               /\ \/ Restarts(worker[w], s)
                  \/ /\ Goes(worker[w], s, "record") /\ row[MessageOf(w)] # NoRow
                     /\ s.snap = [row[MessageOf(w)] EXCEPT !.part["Sms"] =
                           Report(row[MessageOf(w)].part["Sms"], worker[w].cmd.delivered)]
  BY LoadForReportShape
<1> PICK m : m = MessageOf(w)
  OBVIOUS
<1>3. s # Idle => s.cmd = worker[w].cmd /\ s.step \in {"isExist", "load", "record"}
  BY <1>2 DEF Goes, Restarts, FirstStep
<1>4. Handles(w, s, m)
  BY <1>1, <1>2, <1>3, HandlesRow DEF Charged
<1>5. m \in Msg /\ "Sms" \in Channels
  BY <1>1, <1>4, HandlesFacts DEF Reports
<1>6. SameName(row'[m], row[m])
  BY <1>1 DEF SameName
<1>7. s # Idle => SameName(s.snap, row[m])
  <2>1. Restarts(worker[w], s) /\ s # Idle => SameName(s.snap, row[m])
    BY DEF Restarts, SameName, Names
  <2>2. ASSUME row[m] # NoRow, NEW p, s.snap = [row[m] EXCEPT !.part["Sms"] = p]
        PROVE  SameName(s.snap, row[m])
    <3>1. row[m] \in Row
      BY <1>5, <2>2 DEF TypeInv, TypeOK
    <3> QED BY <2>2, <3>1, SameNames
  <2> QED BY <1>2, <2>1, <2>2
<1> QED BY <1>1, <1>3, <1>4, <1>6, <1>7, QuietNames

LEMMA LoadForDeleteNames ==
  ASSUME TypeInv, NameInv, NEW w \in Workers, LoadForDelete(w) PROVE NameInv'
<1> PICK m : m = MessageOf(w)
  OBVIOUS
<1>1. /\ worker[w] # Idle /\ worker[w].step = "load" /\ worker[w] \in Busy
      /\ UNCHANGED <<row, ready, job, spent>>
  BY BusyFacts DEF LoadForDelete, At, TypeInv
<1> DEFINE next == IF ByTag(w) THEN "dropJob" ELSE "delete"
           loaded == WithSnap(worker[w], next, row[m])
<1>2. Become(w, Idle) \/ Become(w, loaded)
  BY DEF LoadForDelete, Ack, WithSnap
<1>3. Goes(worker[w], loaded, next) /\ loaded.snap = row[m]
  BY <1>1, SnapChanged
<1> HIDE DEF loaded
<1>4. PICK s : Become(w, s) /\ (s = Idle \/ s = loaded)
  BY <1>2
<1>5. s # Idle => /\ s.cmd = worker[w].cmd /\ s.snap = row[m]
                  /\ s.step = "dropJob" => s.cmd.type = "DeleteMessageByTag"
                  /\ s.step # "schedule"
  BY <1>3, <1>4 DEF Goes, ByTag
<1>6. Handles(w, s, m)
  BY <1>1, <1>4, <1>5, HandlesRow DEF Charged
<1>7. SameName(row'[m], row[m]) /\ (s # Idle => SameName(s.snap, row[m]))
  BY <1>1, <1>5 DEF SameName
<1> QED BY <1>1, <1>5, <1>6, <1>7, QuietNames

LEMMA DeleteRowShape ==
  ASSUME TypeInv, NEW w \in Workers, DeleteRow(w)
  PROVE  /\ worker[w] # Idle /\ worker[w].step = "delete" /\ worker[w] \in Busy
         /\ UNCHANGED <<ready, job>>
         /\ UNCHANGED row \/ row' = [row EXCEPT ![MessageOf(w)] = NoRow]
         /\ UNCHANGED spent \/ Fault("database")
         /\ row'[MessageOf(w)] = NoRow \/ Fault("database")
         /\ \E s : /\ Become(w, s)
                   /\ \/ Restarts(worker[w], s)
                      \/ /\ Goes(worker[w], s, "dropJob") /\ s.snap = worker[w].snap
                         /\ row'[MessageOf(w)] = NoRow
<1>1. worker[w] # Idle /\ worker[w].step = "delete" /\ worker[w] \in Busy
      /\ MessageOf(w) \in Msg
  BY BusyFacts DEF DeleteRow, At, TypeInv
<1>2. /\ UNCHANGED <<ready, job>>
      /\ UNCHANGED row \/ row' = [row EXCEPT ![MessageOf(w)] = NoRow]
      /\ UNCHANGED spent \/ Fault("database")
  BY DEF DeleteRow, RowDeleted
<1>3. row' = [row EXCEPT ![MessageOf(w)] = NoRow] => row'[MessageOf(w)] = NoRow
  BY <1>1 DEF TypeInv, TypeOK
<1>4. row'[MessageOf(w)] = NoRow \/ Fault("database")
  BY <1>3 DEF DeleteRow, RowDeleted
<1>5. /\ Goes(worker[w], [worker[w] EXCEPT !.step = "dropJob"], "dropJob")
      /\ [worker[w] EXCEPT !.step = "dropJob"].snap = worker[w].snap
  BY <1>1, StepChanged
<1>6. \/ Throw(w) \/ Ack(w)
      \/ /\ Become(w, [worker[w] EXCEPT !.step = "dropJob"])
         /\ row'[MessageOf(w)] = NoRow
  BY <1>3 DEF DeleteRow, RowDeleted, GoTo
<1>7. Throw(w) \/ Ack(w) => \E s : Become(w, s) /\ Restarts(worker[w], s)
  BY <1>1, ThrowShape
<1> QED BY <1>1, <1>2, <1>4, <1>5, <1>6, <1>7

LEMMA DeleteRowNames ==
  ASSUME TypeInv, NameInv, NEW w \in Workers, DeleteRow(w) PROVE NameInv'
<1> PICK m : m = MessageOf(w)
  OBVIOUS
<1>1. /\ worker[w] # Idle /\ worker[w].step = "delete" /\ UNCHANGED <<ready, job>>
      /\ UNCHANGED row \/ row' = [row EXCEPT ![m] = NoRow]
      /\ UNCHANGED spent \/ Fault("database")
      /\ row'[m] = NoRow \/ Fault("database")
  BY DeleteRowShape
<1>2. PICK s : /\ Become(w, s)
               /\ \/ Restarts(worker[w], s)
                  \/ Goes(worker[w], s, "dropJob") /\ s.snap = worker[w].snap
  BY DeleteRowShape
<1>3. s # Idle => /\ s.cmd = worker[w].cmd /\ s.step # "schedule"
                  /\ s.snap = NoRow \/ s.snap = worker[w].snap
  BY <1>2 DEF Goes, Restarts, FirstStep
<1>4. Handles(w, s, m) /\ (row'[m] = row[m] \/ row'[m] = NoRow)
  BY <1>1, <1>2, <1>3, HandlesRow DEF Charged
<1>5. m \in Msg /\ worker[w].cmd.msg = m
  BY <1>4, HandlesFacts
<1>6. NamesOwn(s, m)
  <2>1. OwnedBy(row[m], m, job) /\ OwnedBy(worker[w].snap, m, job) /\ OwnedBy(NoRow, m, job)
    BY <1>1, OwnNames DEF NameInv
  <2> QED BY <1>1, <1>3, <1>4, <2>1 DEF NamesOwn
<1>7. JobsRemain /\ JobsElsewhere(m)
  BY <1>1, SameJobsRemain DEF JobsRemain, JobsElsewhere
<1>8. Undisturbed(m)' /\ Remembered(m) => OwnRemembered(m)'
  <2> SUFFICES ASSUME Undisturbed(m)', Remembered(m) PROVE OwnRemembered(m)'
    OBVIOUS
  <2>1. row'[m] = NoRow
    BY <1>1, LossyFault
  <2>2. Charged
    BY <1>1 DEF Charged
  <2>3. Underway(m)' => Underway(m)
    BY <1>1, <1>2, <1>3, <1>5, <2>2, DisturbedStays, UnderwayBack
  <2>4. Unnamed(m) => MayName(s, m)
    BY <1>1, <1>3, <1>5 DEF Unnamed, MayName, Names
  <2>5. Unnamed(m) => Unnamed(m)'
    <3>1. ~Names(row'[m])
      BY <2>1 DEF Names
    <3> QED BY <1>4, <1>7, <2>4, <3>1, UnnamedStep
  <2>6. LastNamed(m)'
    BY <1>4, <1>7, <2>1, LastNamedStep DEF Remembered
  <2> QED BY <2>3, <2>5, <2>6 DEF Remembered, OwnRemembered
<1> QED BY <1>3, <1>4, <1>6, <1>7, <1>8, NameStep

\* What deleting a job in Hangfire changes.
LEMMA DropJobShape ==
  ASSUME TypeInv, NEW w \in Workers, DropJob(w)
  PROVE  /\ worker[w] # Idle /\ worker[w].step = "dropJob" /\ worker[w].snap \in Row
         /\ UNCHANGED <<row, ready>> /\ (UNCHANGED spent \/ Fault("job"))
         /\ \/ UNCHANGED job
            \/ /\ worker[w].snap.jobId # NoJob
               /\ job' = [job EXCEPT ![worker[w].snap.jobId].live = FALSE]
         /\ \E s : /\ Become(w, s)
                   /\ \/ ~ByTag(w) /\ s = Idle
                      \/ ByTag(w) /\ Goes(worker[w], s, "delete") /\ s.snap = worker[w].snap
<1>1. worker[w] # Idle /\ worker[w].step = "dropJob" /\ worker[w] \in Busy
  BY BusyFacts DEF DropJob, At, TypeInv
<1>2. worker[w].snap \in Row
  BY <1>1 DEF TypeInv, Held, HasSnap
<1>3. /\ UNCHANGED <<row, ready>> /\ (UNCHANGED spent \/ Fault("job"))
      /\ \/ UNCHANGED job
         \/ /\ worker[w].snap.jobId # NoJob
            /\ job' = [job EXCEPT ![worker[w].snap.jobId].live = FALSE]
  BY DEF DropJob
<1>4. /\ Goes(worker[w], [worker[w] EXCEPT !.step = "delete"], "delete")
      /\ [worker[w] EXCEPT !.step = "delete"].snap = worker[w].snap
  BY <1>1, StepChanged
<1>5. \/ ByTag(w) /\ Become(w, [worker[w] EXCEPT !.step = "delete"])
      \/ ~ByTag(w) /\ Become(w, Idle)
  BY DEF DropJob, GoTo, Ack
<1> QED BY <1>1, <1>2, <1>3, <1>4, <1>5

\* Only the job the copy names is deleted, and it is one of this message.
LEMMA DropJobElsewhere ==
  ASSUME TypeInv, NameInv, NEW w \in Workers, DropJob(w), NEW m, m = MessageOf(w)
  PROVE  /\ JobsElsewhere(m)
         /\ UNCHANGED job \/ Names(worker[w].snap)
<1>1. /\ worker[w] # Idle /\ worker[w].snap \in Row /\ worker[w].snap # NoRow
      /\ \/ UNCHANGED job
         \/ /\ worker[w].snap.jobId # NoJob
            /\ job' = [job EXCEPT ![worker[w].snap.jobId].live = FALSE]
  BY DropJobShape, DispatchAssumption
<1>2. CASE UNCHANGED job
  BY <1>2, SameJobsRemain DEF JobsRemain, JobsElsewhere
<1>3. CASE /\ worker[w].snap.jobId # NoJob
           /\ job' = [job EXCEPT ![worker[w].snap.jobId].live = FALSE]
  <2> PICK j : j = worker[w].snap.jobId
    OBVIOUS
  <2>1. Names(worker[w].snap) /\ j \in JobIds
    BY <1>1, <1>3 DEF Names, Row
  <2>2. OwnedBy(worker[w].snap, m, job)
    BY <1>1, OwnNames DEF NameInv
  <2>3. job[j] # NoJob /\ job[j].msg = m
    BY <2>1, <2>2 DEF OwnedBy
  <2>4. \A i \in JobIds : SameJob(job'[i], job[i])
    BY <1>3, <2>1, <2>3, JobDropped
  <2>5. JobsGrow
    BY <2>4 DEF JobsGrow, SameJob
  <2>6. \A i \in JobIds \ {j} : job'[i] = job[i]
    BY <1>3 DEF TypeInv, TypeOK
  <2>7. ASSUME NEW n \in Msg \ {m}, Dropped(n, job') PROVE Dropped(n, job)
    <3>1. PICK i \in JobIds : job'[i] # NoJob /\ job'[i].msg = n /\ ~job'[i].live
      BY <2>7 DEF Dropped
    <3>2. i # j
      BY <2>1, <2>3, <2>5, <3>1 DEF JobsGrow
    <3> QED BY <2>6, <3>1, <3>2 DEF Dropped
  <2> QED BY <2>1, <2>5, <2>7 DEF JobsElsewhere
<1> QED BY <1>1, <1>2, <1>3

LEMMA DropJobNames ==
  ASSUME TypeInv, NameInv, NEW w \in Workers, DropJob(w) PROVE NameInv'
<1> PICK m : m = MessageOf(w)
  OBVIOUS
<1>1. /\ worker[w] # Idle /\ worker[w].step = "dropJob" /\ worker[w].snap \in Row
      /\ UNCHANGED <<row, ready>> /\ (UNCHANGED spent \/ Fault("job"))
  BY DropJobShape
<1>2. PICK s : /\ Become(w, s)
               /\ \/ ~ByTag(w) /\ s = Idle
                  \/ ByTag(w) /\ Goes(worker[w], s, "delete") /\ s.snap = worker[w].snap
  BY DropJobShape
<1>3. s # Idle => /\ s.cmd = worker[w].cmd /\ s.step = "delete" /\ s.snap = worker[w].snap
  BY <1>2 DEF Goes
<1>4. Handles(w, s, m)
  BY <1>1, <1>2, <1>3, HandlesRow DEF Charged
<1>5. /\ m \in Msg /\ worker[w].cmd.msg = m /\ worker'[w] = s
      /\ \A v \in Workers \ {w} : worker'[v] = worker[v]
  BY <1>4, HandlesFacts
<1>6. JobsElsewhere(m) /\ (UNCHANGED job \/ Names(worker[w].snap))
  BY DropJobElsewhere
<1>7. NamesOwn(s, m)
  <2>1. OwnedBy(row[m], m, job) /\ OwnedBy(worker[w].snap, m, job)
    BY <1>1, OwnNames DEF NameInv
  <2>2. row[m] \in Row \cup {NoRow} /\ JobsGrow
    BY <1>5, <1>6 DEF TypeInv, TypeOK, JobsElsewhere
  <2>3. OwnedBy(row[m], m, job') /\ OwnedBy(worker[w].snap, m, job')
    BY <1>1, <2>1, <2>2, OwnedKept
  <2> QED BY <1>1, <1>3, <2>3 DEF NamesOwn
<1>8. Undisturbed(m)' /\ Remembered(m) => OwnRemembered(m)'
  <2> SUFFICES ASSUME Undisturbed(m)', Remembered(m) PROVE OwnRemembered(m)'
    OBVIOUS
  <2>1. Charged
    BY <1>1 DEF Charged
  <2>2. Underway(m)' => Underway(m)
    BY <1>1, <1>2, <1>3, <1>5, <2>1, DisturbedStays, UnderwayBack
  <2>3. Unnamed(m) => ~Names(worker[w].snap) /\ ~Names(row[m])
    BY <1>1, <1>5 DEF Unnamed, MayName
  <2>4. Unnamed(m) => Unnamed(m)'
    <3> SUFFICES ASSUME Unnamed(m) PROVE Unnamed(m)'
      OBVIOUS
    <3>1. JobsRemain
      BY <1>6, <2>3, SameJobsRemain
    <3>2. ~Names(row'[m]) /\ MayName(s, m)
      BY <1>1, <1>3, <2>3 DEF MayName
    <3> QED BY <1>4, <3>1, <3>2, UnnamedStep
  <2>5. LastNamed(m)'
    <3>1. Dropped(m, job') /\ row'[m] # NoRow => \E v \in Workers : TagDeletes(worker'[v], m)
      <4> SUFFICES ASSUME Dropped(m, job'), row[m] # NoRow
                   PROVE  \E v \in Workers : TagDeletes(worker'[v], m)
        BY <1>1
      <4>1. CASE ByTag(w)
        <5>1. s # Idle /\ s.cmd = worker[w].cmd /\ s.step = "delete"
          BY <1>2, <1>3, <4>1 DEF Goes
        <5>2. TagDeletes(worker'[w], m)
          BY <1>5, <4>1, <5>1 DEF TagDeletes, ByTag
        <5> QED BY <5>2
      <4>2. CASE ~ByTag(w)
        <5>1. ~DropsLate(worker[w], m)
          BY DEF Remembered, LastNamed
        <5>2. ~Names(worker[w].snap)
          BY <1>1, <1>5, <4>2, <5>1 DEF DropsLate, ByTag
        <5>3. Dropped(m, job)
          BY <1>6, <5>2
        <5>4. PICK v \in Workers : TagDeletes(worker[v], m)
          BY <5>3 DEF Remembered, LastNamed
        <5>5. v # w
          BY <1>1, <5>4 DEF TagDeletes
        <5> QED BY <1>5, <5>4, <5>5
      <4> QED BY <4>1, <4>2
    <3>2. \A v \in Workers : DropsLate(worker'[v], m) => row'[m] = NoRow
      <4>1. ~DropsLate(s, m)
        BY <1>3 DEF DropsLate
      <4> QED BY <1>1, <1>5, <4>1 DEF Remembered, LastNamed
    <3> QED BY <3>1, <3>2 DEF LastNamed, TagDeletes, DropsLate, Dropped, Names
  <2> QED BY <2>2, <2>4, <2>5 DEF Remembered, OwnRemembered
<1> QED BY <1>1, <1>3, <1>4, <1>6, <1>7, <1>8, NameStep

\* A step after which every message counts as disturbed.
LEMMA LossyNames ==
  ASSUME TypeInv, NameInv, NEW w \in Workers, worker[w] # Idle, NEW s, Become(w, s),
         s # Idle => s.cmd = worker[w].cmd,
         s # Idle => /\ s.step = "schedule" => worker[w].step = "schedule"
                     /\ s.snap = NoRow \/ s.snap = worker[w].snap,
         UNCHANGED <<row, job>>, NEW kind \in {"database", "crash", "disconnect"}, Fault(kind)
  PROVE  NameInv'
<1>1. worker'[w] = s /\ \A v \in Workers \ {w} : worker'[v] = worker[v]
  BY Becoming
<1>2. JobsForDue'
  <2>1. ASSUME NEW v \in Workers, worker'[v] # Idle, worker'[v].step = "schedule"
        PROVE  worker'[v].cmd.msg \in Due
    BY <1>1, <2>1 DEF NameInv, JobsForDue, MessageOf
  <2> QED BY <2>1 DEF JobsForDue, MessageOf
<1>3. Owners'
  <2>1. \A n \in Msg : OwnedBy(row'[n], n, job')
    BY DEF NameInv, Owners
  <2>2. ASSUME NEW v \in Workers, worker'[v] # Idle
        PROVE  OwnedBy(worker'[v].snap, worker'[v].cmd.msg, job')
    <3>1. OwnedBy(NoRow, worker'[v].cmd.msg, job')
      BY DEF OwnedBy, Names
    <3> QED BY <1>1, <2>2, <3>1 DEF NameInv, Owners
  <2> QED BY <2>1, <2>2 DEF Owners, OwnedBy, Names
<1>4. ASSUME NEW n \in Msg PROVE ~Undisturbed(n)'
  BY LossyFault
<1> QED BY <1>2, <1>3, <1>4 DEF NameInv

LEMMA ReadFailsNames ==
  ASSUME TypeInv, NameInv, NEW w \in Workers, ReadFails(w) PROVE NameInv'
<1>1. worker[w] # Idle /\ UNCHANGED <<row, job>> /\ Fault("database")
  BY ReadFailsShape
<1>2. PICK s : Become(w, s) /\ Restarts(worker[w], s)
  BY ReadFailsShape
<1>3. s # Idle => s.cmd = worker[w].cmd /\ s.step # "schedule" /\ s.snap = NoRow
  BY <1>2 DEF Restarts, FirstStep
<1> QED BY <1>1, <1>2, <1>3, LossyNames

LEMMA CrashNames ==
  ASSUME TypeInv, NameInv, NEW w \in Workers, Crash(w) PROVE NameInv'
<1>1. worker[w] # Idle /\ Become(w, Idle) /\ UNCHANGED <<row, job>> /\ Fault("crash")
  BY CrashShape
<1> QED BY <1>1, LossyNames

LEMMA DisconnectNames ==
  ASSUME TypeInv, NameInv, NEW w \in Workers, Disconnect(w) PROVE NameInv'
<1>1. worker[w] # Idle /\ UNCHANGED <<row, job>> /\ Fault("disconnect")
  BY DisconnectShape
<1>2. PICK s : /\ Become(w, s) /\ Goes(worker[w], s, worker[w].step)
               /\ s.snap = worker[w].snap
  BY DisconnectShape
<1>3. s.cmd = worker[w].cmd /\ s.step = worker[w].step
  BY <1>2 DEF Goes
<1> QED BY <1>1, <1>2, <1>3, LossyNames

\* What happens to the request of n when no consumer moves: nothing, or one
\* more copy of it is published and counted.
SameRequest(n) ==
  ready'[RequestOf(n)] = ready[RequestOf(n)] /\ spent'.requests[n] = spent.requests[n]

OneRequest(n) ==
  /\ ready'[RequestOf(n)] = ready[RequestOf(n)] + 1
  /\ spent'.requests[n] = spent.requests[n] + 1 /\ row'[n] = row[n]

LEMMA FirstRequest ==
  ASSUME TypeInv, UNCHANGED worker, NEW n \in Msg, OneRequest(n), Undisturbed(n)',
         spent.kinds \subseteq spent'.kinds
  PROVE  Undisturbed(n) /\ Underway(n) /\ (OneCopy(n) => OneCopy(n)')
<1>1. spent.requests[n] \in Nat /\ ready[RequestOf(n)] \in Nat
  BY Kinds DEF TypeInv, TypeOK
<1>2. spent.requests[n] = 0
  BY <1>1 DEF OneRequest, Undisturbed, HandledOnce
<1>3. Undisturbed(n) /\ Underway(n)
  BY <1>2 DEF Undisturbed, HandledOnce, Underway
<1>4. ASSUME OneCopy(n) PROVE OneCopy(n)'
  <2>1. ready[RequestOf(n)] = 0 /\ \A w \in Workers : ~HandlerOf(worker[w], n)
    BY <1>2, <1>4 DEF OneCopy
  <2>2. ready'[RequestOf(n)] = 1 /\ spent'.requests[n] = 1
    BY <1>2, <2>1 DEF OneRequest
  <2> QED BY <2>1, <2>2 DEF OneCopy, HandlerOf, RequestOf
<1> QED BY <1>3, <1>4

LEMMA RestNames ==
  ASSUME TypeInv, NameInv, UNCHANGED worker, JobsRemain,
         \A n \in Msg : row'[n] = row[n] \/ row'[n] = NoRow,
         spent.kinds \subseteq spent'.kinds, \A n \in Msg : SameRequest(n) \/ OneRequest(n)
  PROVE  NameInv'
<1>1. JobsForDue'
  BY DEF NameInv, JobsForDue, MessageOf
<1>2. Owners'
  <2>1. ASSUME NEW n \in Msg PROVE OwnedBy(row'[n], n, job')
    <3>1. row[n] \in Row \cup {NoRow} /\ OwnedBy(row[n], n, job) /\ JobsGrow
      BY DEF TypeInv, TypeOK, NameInv, Owners, JobsRemain
    <3>2. OwnedBy(row[n], n, job') /\ OwnedBy(NoRow, n, job')
      BY <3>1, OwnedKept DEF OwnedBy, Names
    <3> QED BY <3>2
  <2>2. ASSUME NEW v \in Workers, worker[v] # Idle
        PROVE  OwnedBy(worker[v].snap, worker[v].cmd.msg, job')
    <3>1. worker[v].snap \in Row \cup {NoRow} /\ JobsGrow
      BY <2>2, BusyFacts DEF Busy, TypeInv, JobsRemain
    <3>2. OwnedBy(worker[v].snap, worker[v].cmd.msg, job)
      BY <2>2 DEF NameInv, Owners
    <3> QED BY <3>1, <3>2, OwnedKept
  <2> QED BY <2>1, <2>2 DEF Owners, OwnedBy, Names
<1>3. ASSUME NEW n \in Msg, Undisturbed(n)' PROVE Remembered(n)'
  <2>1. /\ Undisturbed(n) /\ (Underway(n)' => Underway(n))
        /\ OneCopy(n) => OneCopy(n)'
    <3>1. CASE SameRequest(n)
      <4>1. Undisturbed(n)
        BY <1>3, <3>1 DEF SameRequest, Undisturbed, HandledOnce
      <4>2. Underway(n)' => Underway(n)
        BY <3>1 DEF SameRequest, Underway, HandlerOf, RequestOf
      <4>3. OneCopy(n) => OneCopy(n)'
        BY <3>1 DEF SameRequest, OneCopy, HandlerOf, RequestOf
      <4> QED BY <4>1, <4>2, <4>3
    <3>2. CASE OneRequest(n)
      BY <1>3, <3>2, FirstRequest
    <3> QED BY <3>1, <3>2
  <2>2. Remembered(n)
    BY <2>1 DEF NameInv
  <2>3. Dropped(n, job') => Dropped(n, job)
    BY DEF JobsRemain
  <2>4. Unnamed(n) => Unnamed(n)'
    <3> SUFFICES ASSUME Unnamed(n) PROVE Unnamed(n)'
      OBVIOUS
    <3>1. ~Names(row'[n]) /\ ~Dropped(n, job')
      BY <2>3 DEF Unnamed, Names
    <3> QED BY <3>1 DEF Unnamed, MayName, Dropped, Names
  <2>5. LastNamed(n)'
    <3>1. row'[n] # NoRow => row[n] # NoRow
      OBVIOUS
    <3>2. Dropped(n, job') /\ row'[n] # NoRow => \E w \in Workers : TagDeletes(worker'[w], n)
      BY <2>2, <2>3, <3>1 DEF Remembered, LastNamed
    <3>3. \A w \in Workers : DropsLate(worker'[w], n) => row'[n] = NoRow
      BY <2>2, <3>1 DEF Remembered, LastNamed
    <3> QED BY <3>2, <3>3 DEF LastNamed, TagDeletes, DropsLate, Dropped, Names
  <2> QED BY <2>1, <2>2, <2>4, <2>5 DEF Remembered
<1> QED BY <1>1, <1>2, <1>3 DEF NameInv

LEMMA ClientsNames ==
  ASSUME TypeInv, NameInv, Clients PROVE NameInv'
<1>1. /\ spent \in [faults : Nat, resends : Nat, deletes : Nat, requests : [Msg -> Nat],
                    kinds : SUBSET FaultKinds]
      /\ \A n \in Msg : RequestOf(n) \in Command
  BY Kinds DEF TypeInv, TypeOK
<1>2. ASSUME UNCHANGED <<row, worker, job>>, spent'.kinds = spent.kinds,
             \A n \in Msg : SameRequest(n) \/ OneRequest(n)
      PROVE  NameInv'
  BY <1>2, SameJobsRemain, RestNames
<1>3. ASSUME NEW cmds, Publish(cmds), \A n \in Msg : RequestOf(n) \notin cmds,
             spent'.requests = spent.requests
      PROVE  \A n \in Msg : SameRequest(n)
  BY <1>1, <1>3, PublishSome DEF SameRequest
<1>4. ASSUME NEW m \in Msg, SubmitMessage(m) PROVE NameInv'
  <2>1. /\ UNCHANGED <<row, worker, job>> /\ Publish({RequestOf(m)})
        /\ spent' = [spent EXCEPT !.requests[m] = spent.requests[m] + 1]
    BY <1>4 DEF SubmitMessage
  <2>2. /\ spent'.kinds = spent.kinds /\ spent'.requests[m] = spent.requests[m] + 1
        /\ \A n \in Msg \ {m} : spent'.requests[n] = spent.requests[n]
    BY <1>1, <2>1
  <2>3. \A x \in Command : ready'[x] = IF x = RequestOf(m) THEN ready[x] + 1 ELSE ready[x]
    BY <1>1, <2>1, PublishOne
  <2>4. OneRequest(m)
    BY <1>1, <2>1, <2>2, <2>3 DEF OneRequest
  <2>5. ASSUME NEW n \in Msg \ {m} PROVE SameRequest(n)
    <3>1. RequestOf(n) # RequestOf(m)
      BY DEF RequestOf
    <3> QED BY <1>1, <2>2, <2>3, <3>1 DEF SameRequest
  <2> QED BY <1>2, <2>1, <2>2, <2>4, <2>5
<1>5. ASSUME NEW m \in Msg, DueTimeComes(m) PROVE NameInv'
  <2>1. UNCHANGED <<row, worker, job, ready, spent>>
    BY <1>5 DEF DueTimeComes
  <2>2. \A n \in Msg : SameRequest(n)
    BY <2>1 DEF SameRequest
  <2> QED BY <1>2, <2>1, <2>2
<1>6. ASSUME NEW cmd \in Deletes, SubmitDelete(cmd) PROVE NameInv'
  <2>1. /\ UNCHANGED <<row, worker, job>> /\ Publish({cmd})
        /\ spent' = [spent EXCEPT !.deletes = spent.deletes + 1]
    BY <1>6 DEF SubmitDelete
  <2>2. spent'.kinds = spent.kinds /\ spent'.requests = spent.requests
    BY <1>1, <2>1
  <2>3. \A n \in Msg : RequestOf(n) \notin {cmd}
    BY Kinds DEF RequestOf
  <2> QED BY <1>2, <1>3, <2>1, <2>2, <2>3
<1>7. ASSUME NEW chosen \in SUBSET Msg, ReSendFailedSms(chosen) PROVE NameInv'
  <2>1. /\ UNCHANGED <<row, worker, job>> /\ Publish({SendCommand("Sms", m) : m \in chosen})
        /\ spent' = [spent EXCEPT !.resends = spent.resends + 1]
    BY <1>7 DEF ReSendFailedSms
  <2>2. spent'.kinds = spent.kinds /\ spent'.requests = spent.requests
    BY <1>1, <2>1
  <2>3. \A n \in Msg : RequestOf(n) \notin {SendCommand("Sms", m) : m \in chosen}
    BY DEF RequestOf, SendCommand
  <2> QED BY <1>2, <1>3, <2>1, <2>2, <2>3
<1>8. ASSUME NEW m \in Msg, NEW id \in Ids, NEW delivered \in BOOLEAN,
             ReportDelivery(m, id, delivered)
      PROVE  NameInv'
  <2> DEFINE cmd == [type |-> "SmsDelivery", msg |-> m, id |-> id, delivered |-> delivered]
  <2>1. UNCHANGED <<row, worker, job, spent>> /\ Publish({cmd})
    BY <1>8 DEF ReportDelivery
  <2>2. cmd.type = "SmsDelivery"
    OBVIOUS
  <2> HIDE DEF cmd
  <2>3. \A n \in Msg : RequestOf(n) \notin {cmd}
    BY <2>2 DEF RequestOf
  <2> QED BY <1>2, <1>3, <2>1, <2>3
<1> QED BY <1>4, <1>5, <1>6, <1>7, <1>8 DEF Clients

\* A job that runs stays the job it is.
LEMMA JobsNames ==
  ASSUME TypeInv, NameInv, NEW j \in JobIds, RunJob(j) \/ JobFails(j) PROVE NameInv'
<1>1. job[j] # NoJob /\ UNCHANGED <<row, worker>>
  BY DEF RunJob, JobFails, StartJob, JobPublish, EndJob
<1>2. job[j] \in Job /\ job[j].msg \in Msg
  BY <1>1 DEF TypeInv, TypeOK, Job
<1>3. ASSUME NEW new \in Job, JobBecomes(j, new), new.msg = job[j].msg, new.live = job[j].live
      PROVE  JobsRemain
  <2>1. job'[j] = new /\ \A i \in JobIds \ {j} : job'[i] = job[i]
    BY <1>3 DEF TypeInv, TypeOK, JobBecomes
  <2>2. new # NoJob
    BY DispatchAssumption
  <2>3. JobsGrow
    BY <1>3, <2>1, <2>2 DEF JobsGrow
  <2>4. ASSUME NEW n \in Msg, Dropped(n, job') PROVE Dropped(n, job)
    BY <1>1, <1>3, <2>1, <2>4 DEF Dropped
  <2> QED BY <2>3, <2>4 DEF JobsRemain
<1>4. JobsRemain
  <2>1. CASE StartJob(j)
    <3> DEFINE new == [job[j] EXCEPT !.phase = "running"]
    <3>1. new \in Job /\ new.msg = job[j].msg /\ new.live = job[j].live
      BY <1>2 DEF Job
    <3>2. JobBecomes(j, new)
      BY <2>1 DEF StartJob, JobBecomes
    <3> QED BY <1>3, <3>1, <3>2
  <2>2. CASE EndJob(j)
    <3> DEFINE new == [job[j] EXCEPT !.phase = "over"]
    <3>1. new \in Job /\ new.msg = job[j].msg /\ new.live = job[j].live
      BY <1>2 DEF Job
    <3>2. JobBecomes(j, new)
      BY <2>2 DEF EndJob, JobBecomes
    <3> QED BY <1>3, <3>1, <3>2
  <2>3. CASE JobFails(j)
    <3> DEFINE new == [job[j] EXCEPT !.phase = "scheduled", !.todo = Channels]
    <3>1. new \in Job /\ new.msg = job[j].msg /\ new.live = job[j].live
      BY <1>2 DEF Job
    <3>2. job' = [job EXCEPT ![j] = new]
      BY <2>3 DEF JobFails
    <3>3. JobBecomes(j, new)
      BY <3>2 DEF JobBecomes
    <3> QED BY <1>3, <3>1, <3>3
  <2>4. ASSUME NEW c \in Channels, JobPublish(j, c) PROVE JobsRemain
    <3> DEFINE new == [job[j] EXCEPT !.todo = job[j].todo \ {c}]
    <3>1. new \in Job /\ new.msg = job[j].msg /\ new.live = job[j].live
      BY <1>2 DEF Job
    <3>2. JobBecomes(j, new)
      BY <2>4 DEF JobPublish, JobBecomes
    <3> QED BY <1>3, <3>1, <3>2
  <2> QED BY <2>1, <2>2, <2>3, <2>4 DEF RunJob
<1>5. Charged /\ \A n \in Msg : ready'[RequestOf(n)] = ready[RequestOf(n)]
  <2>1. CASE StartJob(j) \/ EndJob(j)
    BY <2>1 DEF StartJob, EndJob, Charged
  <2>2. CASE JobFails(j)
    BY <2>2 DEF JobFails, Charged
  <2>3. ASSUME NEW c \in Channels, JobPublish(j, c)
        PROVE  Charged /\ \A n \in Msg : ready'[RequestOf(n)] = ready[RequestOf(n)]
    <3>1. UNCHANGED spent /\ Publish({SendCommand(c, job[j].msg)})
      BY <2>3 DEF JobPublish
    <3>2. \A n \in Msg : RequestOf(n) \in Command /\ RequestOf(n) # SendCommand(c, job[j].msg)
      BY Kinds DEF RequestOf, SendCommand
    <3> QED BY <3>1, <3>2, PublishSome DEF Charged
  <2> QED BY <2>1, <2>2, <2>3 DEF RunJob
<1>6. spent'.requests = spent.requests /\ spent.kinds \subseteq spent'.kinds
  BY <1>2, <1>5, ChargedKinds
<1>7. \A n \in Msg : SameRequest(n)
  BY <1>5, <1>6 DEF SameRequest
<1> QED BY <1>1, <1>4, <1>6, <1>7, RestNames

LEMMA ByTagNames ==
  ASSUME TypeInv, NameInv, NEW m \in Msg, DeleteByTag(m) PROVE NameInv'
<1>1. /\ UNCHANGED <<ready, worker, job>> /\ row' = [row EXCEPT ![m] = NoRow]
      /\ spent' = [spent EXCEPT !.deletes = spent.deletes + 1]
  BY DEF DeleteByTag, RowDeleted
<1>2. spent'.requests = spent.requests /\ spent'.kinds = spent.kinds
  BY <1>1 DEF TypeInv, TypeOK
<1>3. \A n \in Msg : row'[n] = row[n] \/ row'[n] = NoRow
  BY <1>1 DEF TypeInv, TypeOK
<1>4. \A n \in Msg : SameRequest(n)
  BY <1>1, <1>2 DEF SameRequest
<1> QED BY <1>1, <1>2, <1>3, <1>4, SameJobsRemain, RestNames

\* A delivery is handled by a consumer that knows no row yet.
LEMMA DeliverNames ==
  ASSUME TypeInv, NameInv, NEW w \in Workers, NEW cmd \in Command, Deliver(w, cmd)
  PROVE  NameInv'
<1>1. /\ worker[w] = Idle /\ ready[cmd] > 0 /\ UNCHANGED <<row, job, spent>>
      /\ \A x \in Command : ready'[x] = IF x = cmd THEN ready[x] - 1 ELSE ready[x]
  BY DeliverShape
<1>2. PICK s : Become(w, s) /\ Goes([cmd |-> cmd], s, FirstStep(cmd)) /\ s.snap = NoRow
  BY DeliverShape
<1>3. s # Idle /\ s.cmd = cmd /\ s.step \in {"isExist", "load"} /\ s.snap = NoRow
  BY <1>2 DEF Goes, FirstStep
<1>4. worker'[w] = s /\ \A v \in Workers \ {w} : worker'[v] = worker[v]
  BY <1>2, Becoming
<1>5. JobsForDue'
  <2>1. ASSUME NEW v \in Workers, worker'[v] # Idle, worker'[v].step = "schedule"
        PROVE  worker'[v].cmd.msg \in Due
    BY <1>3, <1>4, <2>1 DEF NameInv, JobsForDue, MessageOf
  <2> QED BY <2>1 DEF JobsForDue, MessageOf
<1>6. Owners'
  <2>1. ASSUME NEW v \in Workers, worker'[v] # Idle
        PROVE  OwnedBy(worker'[v].snap, worker'[v].cmd.msg, job')
    <3>1. OwnedBy(NoRow, worker'[v].cmd.msg, job')
      BY DEF OwnedBy, Names
    <3> QED BY <1>1, <1>3, <1>4, <2>1, <3>1 DEF NameInv, Owners
  <2>2. \A n \in Msg : OwnedBy(row'[n], n, job')
    BY <1>1 DEF NameInv, Owners
  <2> QED BY <2>1, <2>2 DEF Owners, OwnedBy, Names
<1>7. ASSUME NEW n \in Msg, Undisturbed(n)' PROVE Remembered(n)'
  <2>1. Remembered(n)
    BY <1>1, <1>7 DEF NameInv, Undisturbed, HandledOnce
  <2> PICK q : q = RequestOf(n)
    OBVIOUS
  <2>2. q \in Command /\ ready[q] \in Nat
    BY Kinds DEF TypeInv, TypeOK
  <2>3. HandlerOf(s, n) => cmd = q
    BY <1>3 DEF HandlerOf
  <2>4. cmd = q => /\ ready[q] = 1 /\ ready'[q] = 0 /\ spent.requests[n] # 0
                   /\ \A v \in Workers : ~HandlerOf(worker[v], n)
    BY <1>1, <2>1, <2>2 DEF Remembered, OneCopy
  <2>5. cmd # q => ready'[q] = ready[q] /\ ~HandlerOf(s, n)
    BY <1>1, <2>2, <2>3
  <2>6. OneCopy(n)'
    <3>1. /\ ready'[q] <= 1
          /\ ready'[q] > 0 => \A v \in Workers : ~HandlerOf(worker'[v], n)
      BY <1>4, <2>1, <2>2, <2>4, <2>5 DEF Remembered, OneCopy
    <3>2. \A u, v \in Workers : HandlerOf(worker'[u], n) /\ HandlerOf(worker'[v], n) => u = v
      BY <1>4, <2>1, <2>4, <2>5 DEF Remembered, OneCopy
    <3>3. spent.requests[n] = 0 => /\ ready'[q] = 0 /\ row[n] = NoRow
                                   /\ \A v \in Workers : ~HandlerOf(worker'[v], n)
      BY <1>4, <2>1, <2>4, <2>5 DEF Remembered, OneCopy
    <3> QED BY <1>1, <3>1, <3>2, <3>3 DEF OneCopy, HandlerOf, RequestOf
  <2>7. Underway(n)' => Underway(n)
    <3>1. cmd = q => Underway(n)
      BY <2>4 DEF Underway
    <3>2. cmd # q /\ Underway(n)' => Underway(n)
      BY <1>1, <1>4, <2>5 DEF Underway, HandlerOf, RequestOf
    <3> QED BY <3>1, <3>2
  <2>8. Unnamed(n) => Unnamed(n)'
    <3> SUFFICES ASSUME Unnamed(n) PROVE Unnamed(n)'
      OBVIOUS
    <3>1. \A v \in Workers : MayName(worker'[v], n)
      BY <1>3, <1>4 DEF Unnamed, MayName, Names
    <3>2. ~Dropped(n, job') /\ ~Names(row'[n])
      BY <1>1 DEF Unnamed
    <3> QED BY <3>1, <3>2 DEF Unnamed, MayName, Dropped, Names
  <2>9. LastNamed(n)'
    <3>1. Dropped(n, job') /\ row'[n] # NoRow => \E v \in Workers : TagDeletes(worker'[v], n)
      <4>1. \A v \in Workers : TagDeletes(worker[v], n) => TagDeletes(worker'[v], n)
        BY <1>1, <1>4 DEF TagDeletes
      <4> QED BY <1>1, <2>1, <4>1 DEF Remembered, LastNamed
    <3>2. \A v \in Workers : DropsLate(worker'[v], n) => row'[n] = NoRow
      <4>1. ~DropsLate(s, n)
        BY <1>3 DEF DropsLate
      <4> QED BY <1>1, <1>4, <2>1, <4>1 DEF Remembered, LastNamed
    <3> QED BY <3>1, <3>2 DEF LastNamed, TagDeletes, DropsLate, Dropped, Names
  <2> QED BY <2>1, <2>6, <2>7, <2>8, <2>9 DEF Remembered
<1> QED BY <1>5, <1>6, <1>7 DEF NameInv

LEMMA NextNames ==
  TypeInv /\ StepsInv /\ NameInv /\ [Next]_vars => NameInv'
<1> SUFFICES ASSUME TypeInv, StepsInv, NameInv, [Next]_vars PROVE NameInv'
  OBVIOUS
<1>1. ASSUME NEW w \in Workers, Consume(w) PROVE NameInv'
  BY <1>1, IsExistNames, AddRowNames, ScheduleNames, SaveNames, PublishNames, CatchNames,
     LoadForSendNames, CallNames, RecordNames, LoadForReportNames, SaveReportNames,
     LoadForDeleteNames, DeleteRowNames, DropJobNames
     DEF Consume, HandleRequest, HandleSend, HandleReport, HandleDelete
<1>2. CASE Broker
  BY <1>2, DeliverNames, ReadFailsNames, CrashNames, DisconnectNames DEF Broker
<1>3. CASE UNCHANGED vars
  <2>1. UNCHANGED <<row, worker, job, ready, spent>>
    BY <1>3 DEF vars
  <2>2. \A n \in Msg : SameRequest(n)
    BY <2>1 DEF SameRequest
  <2> QED BY <2>1, <2>2, SameJobsRemain, RestNames
<1> QED BY <1>1, <1>2, <1>3, ClientsNames, JobsNames, ByTagNames DEF Next

LEMMA InitNames == Init => NameInv
<1> SUFFICES ASSUME Init PROVE NameInv
  OBVIOUS
<1>1. JobsForDue /\ Owners
  BY DEF Init, JobsForDue, Owners, OwnedBy, Names
<1>2. ASSUME NEW m \in Msg PROVE Remembered(m)
  <2>1. /\ ready[RequestOf(m)] = 0 /\ row[m] = NoRow /\ ~Dropped(m, job)
        /\ \A w \in Workers : worker[w] = Idle
    BY Kinds DEF Init, Dropped
  <2>2. OneCopy(m)
    BY <2>1 DEF OneCopy, HandlerOf
  <2>3. Unnamed(m)
    BY <2>1 DEF Unnamed, Names, MayName
  <2> QED BY <2>2, <2>3, UnnamedLast DEF Remembered
<1> QED BY <1>1, <1>2 DEF NameInv

LEMMA NamesImply == TypeInv /\ NameInv => NothingForgotten
<1> SUFFICES ASSUME TypeInv, NameInv, NEW m \in Msg, HandledOnce(m), row[m] # NoRow,
                    row[m].jobId # NoJob, spent.kinds \cap Lossy = {}, ~job[row[m].jobId].live
             PROVE  DeletePending(m)
  BY DEF NothingForgotten
<1>1. row[m].jobId \in JobIds
  BY DEF TypeInv, TypeOK, Row
<1>2. job[row[m].jobId] # NoJob /\ job[row[m].jobId].msg = m
  BY DEF NameInv, Owners, OwnedBy, Names
<1>3. Dropped(m, job)
  BY <1>1, <1>2 DEF Dropped
<1>4. LastNamed(m)
  BY DEF NameInv, Undisturbed, Remembered
<1>5. PICK w \in Workers : TagDeletes(worker[w], m)
  BY <1>3, <1>4 DEF LastNamed
<1>6. worker[w] # Idle /\ worker[w].cmd \in Command /\ worker[w].cmd.msg = m
      /\ worker[w].cmd.type = "DeleteMessageByTag"
  BY <1>5, BusyFacts DEF TagDeletes, TypeInv
<1>7. worker[w].cmd \in Deletes
  BY <1>6, DispatchAssumption DEF Command, Requests, Sends, Reports, ChannelNames
<1> QED BY <1>6, <1>7 DEF DeletePending

\* A scheduled message whose request is handled once is not forgotten: as long as
\* no save failed and no process died, the job its row names is alive, or a delete
\* by tag that took the job first is about to take the row.
THEOREM DispatchNothingForgotten == Spec => []NothingForgotten
<1>1. Init => TypeInv /\ StepsInv /\ NameInv
  <2>1. Init => StepsInv
    BY DEF Init, StepsInv, InPlace
  <2> QED BY <2>1, InitTypeInv, InitNames
<1>2. TypeInv /\ StepsInv /\ NameInv /\ [Next]_vars => (TypeInv /\ StepsInv /\ NameInv)'
  BY NextTypeInv, NextSteps, NextNames
<1> QED BY <1>1, <1>2, NamesImply, PTL DEF Spec
=============================================================================
