---------------------------- MODULE Users_proofs ----------------------------
(***************************************************************************)
(* Proofs about Users: the tables stay consistent whatever the handlers    *)
(* write, a handler changes a row its command does not name only if the    *)
(* row has changed since it read it, and a command that no other overlaps  *)
(* does what it asks, with one retry at most that no fault explains.       *)
(***************************************************************************)
EXTENDS Users, TLAPS

\* What the type invariant needs to know of a handler's copy: whoever is going
\* to insert or update devices does so for an owner that has a row.
OwnerOK(h) ==
  /\ h.step = "start" => h.add = {} /\ ~h.insert
  /\ h.step = "load" => h.cmd \notin Invalids
  /\ h.step = "reread" => h.owner \in UserIds /\ email[h.owner] # "absent"
  /\ h.step = "update" =>
       h.owner \in UserIds /\ email[h.owner] # "absent" /\ h.cmd \in Fills
  /\ h.step = "save" =>
       /\ \A d \in h.add : h.copy[d] \in Tokens
       /\ h.insert => h.owner \in UserIds
       /\ h.add # {} => h.owner \in UserIds /\ (h.insert \/ email[h.owner] # "absent")

\* The copy a handler works on agrees with the rows that have not changed.
InStep(h, d) ==
  /\ h.step = "reread" =>
       /\ h.copy[d] = None /\ d \in DevicesOf(h.owner) => Names(h.cmd, d)
       /\ h.copy[d] # None =>
            \/ h.cmd \in Upserts /\ d = h.cmd.id
            \/ d \in DevicesOf(h.owner)
  /\ h.step = "update" =>
       (h.copy[d] # None => device[d] = [user |-> h.owner, token |-> h.copy[d]])
  /\ h.step = "save" => (d \in h.del \cup h.add => Names(h.cmd, d))

Owners == \A n \in Handlers : handler[n] # Idle => OwnerOK(handler[n])

Copies ==
  \A n \in Handlers : handler[n] # Idle =>
    \A d \in DeviceIds : d \notin stale[n] => InStep(handler[n], d)

UInv == TypeOK /\ Owners /\ Copies

-----------------------------------------------------------------------------
(* Facts about the operators                                               *)

LEMMA HandlerShape ==
  ASSUME NEW h, h \in Handler \cup {Idle}, h # Idle
  PROVE  /\ h \in Handler /\ h.cmd \in Command /\ h.owner \in UserIds \cup {None}
         /\ h.copy \in Copy /\ h.add \in SUBSET DeviceIds /\ h.del \in SUBSET DeviceIds
         /\ h.before \in Table /\ h.attempt \in 0..MaxAttempts
         /\ h.insert \in BOOLEAN /\ h.alone \in BOOLEAN
BY DEF Handler

LEMMA AtHandler ==
  ASSUME TypeOK, NEW n \in Handlers, NEW s, At(n, s)
  PROVE  handler[n] \in Handler /\ handler[n] # Idle /\ handler[n].step = s
BY DEF TypeOK, At

\* Every handler record has a step other than Idle's.
LEMMA NotIdle ==
  ASSUME NEW h \in Handler
  PROVE  h # Idle
<1>1. h.step \in {"start", "load", "reread", "save", "update", "over", "lost"}
  BY DEF Handler
<1>2. Idle.step = "idle"
  BY DEF Idle
<1> QED BY <1>1, <1>2

LEMMA FreshType ==
  ASSUME NEW cmd \in Command, NEW a \in 0..MaxAttempts, NEW b \in Table, NEW o \in BOOLEAN
  PROVE  /\ Fresh(cmd, a, b, o) \in Handler
         /\ Fresh(cmd, a, b, o).add = {} /\ ~Fresh(cmd, a, b, o).insert
         /\ Fresh(cmd, a, b, o).step \in {"start", "load"}
         /\ Fresh(cmd, a, b, o).step = "load" => Fresh(cmd, a, b, o).cmd \notin Invalids
<1>1. cmd \in Phones \cup Fills => cmd \notin Invalids
  BY DEF Phones, Fills, Invalids
<1> QED BY <1>1 DEF Fresh, FirstStep, Handler, NoCopy, Copy

LEMMA EndOfType ==
  ASSUME TypeOK, NEW n \in Handlers, handler[n] \in Handler, NEW s \in {"over", "lost"}
  PROVE  EndOf(n, s) \in Handler /\ EndOf(n, s).step = s
<1>1. handler[n].cmd \in Command /\ handler[n].alone \in BOOLEAN
  BY DEF Handler
<1>2. NoCopy \in Table
  BY DEF NoCopy, Table
<1>3. 0 \in 0..MaxAttempts
  BY UsersAssumption
<1>4. Fresh(handler[n].cmd, 0, NoCopy, handler[n].alone) \in Handler
  BY <1>1, <1>2, <1>3, FreshType
<1> QED BY <1>4 DEF EndOf, Handler

\* An exception leaves a handler at its beginning or ended.
LEMMA ThrowType ==
  ASSUME TypeOK, NEW n \in Handlers, handler[n] \in Handler
  PROVE  /\ AfterThrow(n) \in Handler
         /\ AfterThrow(n).add = {} /\ ~AfterThrow(n).insert
         /\ AfterThrow(n).step \in {"start", "load", "over", "lost"}
         /\ AfterThrow(n).step = "load" => AfterThrow(n).cmd \notin Invalids
<1> DEFINE h == handler[n]
<1>1. /\ h.cmd \in Command /\ h.alone \in BOOLEAN /\ h.before \in Table
      /\ h.attempt \in 0..MaxAttempts
  BY DEF Handler
<1>2. \A s \in {"over", "lost"} : EndOf(n, s) \in Handler /\ EndOf(n, s).step = s
  BY EndOfType
<1>3. \A s \in {"over", "lost"} : EndOf(n, s).add = {} /\ ~EndOf(n, s).insert
  BY DEF EndOf, Fresh
<1>4. CASE h.cmd \in Fills
  BY <1>2, <1>3, <1>4 DEF AfterThrow
<1>5. CASE h.cmd \notin Fills /\ h.attempt < MaxAttempts
  <2>1. h.attempt + 1 \in 0..MaxAttempts
    BY <1>1, <1>5, UsersAssumption
  <2>2. AfterThrow(n) = Fresh(h.cmd, h.attempt + 1, h.before, h.alone)
    BY <1>5 DEF AfterThrow
  <2> QED BY <1>1, <2>1, <2>2, FreshType
<1>6. CASE h.cmd \notin Fills /\ ~(h.attempt < MaxAttempts)
  <2>1. AfterThrow(n) = EndOf(n, "lost")
    BY <1>6 DEF AfterThrow
  <2> QED BY <2>1, <1>2, <1>3
<1> QED BY <1>4, <1>5, <1>6

\* The device list of a user, as a handler reads it.
LEMMA CopyOfUser ==
  ASSUME TypeOK, NEW u \in UserIds
  PROVE  /\ CopyOf(u) \in Copy
         /\ \A d \in DeviceIds :
              /\ CopyOf(u)[d] # None <=> d \in DevicesOf(u)
              /\ d \in DevicesOf(u) =>
                   /\ device[d] = [user |-> u, token |-> CopyOf(u)[d]]
                   /\ CopyOf(u)[d] = device[d].token
         /\ email[u] = "absent" => DevicesOf(u) = {}
<1>1. device \in Table /\ Consistent(device, email)
  BY DEF TypeOK
<1>2. \A d \in DevicesOf(u) :
        /\ d \in DeviceIds /\ device[d] \in Device /\ device[d].user = u
        /\ device[d].token \in Tokens
  BY <1>1 DEF DevicesOf, Table, Device
<1>3. CopyOf(u) \in Copy
  BY <1>2 DEF CopyOf, Copy
<1>4. \A d \in DeviceIds : CopyOf(u)[d] # None <=> d \in DevicesOf(u)
  BY <1>2, UsersAssumption DEF CopyOf
<1>5. \A d \in DevicesOf(u) : device[d] = [user |-> u, token |-> CopyOf(u)[d]]
  BY <1>2 DEF CopyOf, Device
<1>6. email[u] = "absent" => DevicesOf(u) = {}
  BY <1>1 DEF Consistent, DevicesOf
<1> QED BY <1>2, <1>3, <1>4, <1>5, <1>6 DEF CopyOf

LEMMA UpsertType ==
  ASSUME NEW copy \in Copy, NEW id \in DeviceIds, NEW token \in Tokens
  PROVE  UpsertDevice(copy, id, token) \in Copy
BY DEF UpsertDevice, Copy

-----------------------------------------------------------------------------
(* Steps that leave the tables alone                                       *)

\* One handler moves to a record that satisfies its part, the tables stay.
LEMMA ReadStep ==
  ASSUME UInv, NEW n \in Handlers, NEW h \in Handler,
         handler' = [handler EXCEPT ![n] = h],
         UNCHANGED <<email, device>>,
         stale' \in [Handlers -> SUBSET DeviceIds],
         \A k \in Handlers \ {n} : stale'[k] = stale[k],
         faults' \in Nat,
         OwnerOK(h),
         \A d \in DeviceIds : d \notin stale'[n] => InStep(h, d)
  PROVE  UInv'
<1>1. TypeOK'
  BY DEF UInv, TypeOK
<1>2. \A g, d : (OwnerOK(g) <=> OwnerOK(g)') /\ (InStep(g, d) <=> InStep(g, d)')
  BY DEF OwnerOK, InStep, DevicesOf, Names
<1>3. \A k \in Handlers \ {n} : handler'[k] = handler[k] /\ stale'[k] = stale[k]
  BY DEF UInv, TypeOK
<1>4. handler'[n] = h
  BY DEF UInv, TypeOK
<1>5. Owners'
  <2> SUFFICES ASSUME NEW k \in Handlers, handler'[k] # Idle
               PROVE  OwnerOK(handler'[k])
    BY <1>2 DEF Owners, OwnerOK
  <2> QED BY <1>3, <1>4 DEF UInv, Owners
<1>6. Copies'
  <2> SUFFICES ASSUME NEW k \in Handlers, handler'[k] # Idle,
                      NEW d \in DeviceIds, d \notin stale'[k]
               PROVE  InStep(handler'[k], d)
    BY <1>2 DEF Copies, InStep, DevicesOf, Names
  <2> QED BY <1>3, <1>4 DEF UInv, Copies
<1> QED BY <1>1, <1>5, <1>6 DEF UInv

\* A handler that is at its beginning or at its end has nothing to satisfy.
LEMMA Blank ==
  ASSUME NEW h \in Handler, h.step \in {"start", "load", "over", "lost"},
         h.add = {}, ~h.insert, h.step = "load" => h.cmd \notin Invalids
  PROVE  OwnerOK(h) /\ \A d \in DeviceIds : InStep(h, d)
BY DEF OwnerOK, InStep

LEMMA EndBlank ==
  ASSUME TypeOK, NEW n \in Handlers, handler[n] \in Handler, NEW s \in {"over", "lost"}
  PROVE  /\ EndOf(n, s) \in Handler
         /\ OwnerOK(EndOf(n, s)) /\ \A d \in DeviceIds : InStep(EndOf(n, s), d)
<1>1. EndOf(n, s) \in Handler /\ EndOf(n, s).step = s
  BY EndOfType
<1>2. EndOf(n, s).add = {} /\ ~EndOf(n, s).insert
  BY DEF EndOf, Fresh
<1> QED BY <1>1, <1>2, Blank

LEMMA ThrowBlank ==
  ASSUME TypeOK, NEW n \in Handlers, handler[n] \in Handler
  PROVE  /\ AfterThrow(n) \in Handler
         /\ OwnerOK(AfterThrow(n)) /\ \A d \in DeviceIds : InStep(AfterThrow(n), d)
BY ThrowType, Blank

LEMMA DeliverKeeps ==
  ASSUME UInv, NEW n \in Handlers, NEW cmd \in Command, Deliver(n, cmd)
  PROVE  UInv'
<1> DEFINE others == {k \in Handlers : Running(k)}
           new == Fresh(cmd, 0, device, others = {})
<1>1. device \in Table /\ (others = {}) \in BOOLEAN /\ 0 \in 0..MaxAttempts
  BY UsersAssumption DEF UInv, TypeOK
<1>2. new \in Handler /\ new.add = {} /\ ~new.insert /\ new.step \in {"start", "load"}
      /\ (new.step = "load" => new.cmd \notin Invalids)
  BY <1>1, FreshType
<1>3. handler \in [Handlers -> Handler \cup {Idle}]
  BY DEF UInv, TypeOK
<1> DEFINE h(k) == [handler[k] EXCEPT !.alone = FALSE]
<1>4. \A k \in Handlers :
        handler'[k] = IF k = n THEN new ELSE IF k \in others THEN h(k) ELSE handler[k]
  BY DEF Deliver
<1>5. \A k \in others : handler[k] \in Handler /\ handler[k] # Idle
  BY <1>3 DEF Running
<1>6. \A k \in others :
        /\ h(k) \in Handler
        /\ OwnerOK(handler[k]) => OwnerOK(h(k))
        /\ \A d \in DeviceIds : InStep(handler[k], d) => InStep(h(k), d)
  <2> SUFFICES ASSUME NEW k \in others
               PROVE  /\ h(k) \in Handler
                      /\ OwnerOK(handler[k]) => OwnerOK(h(k))
                      /\ \A d \in DeviceIds : InStep(handler[k], d) => InStep(h(k), d)
    OBVIOUS
  <2>1. handler[k] \in Handler
    BY <1>5
  <2>2. h(k) \in Handler
    BY <2>1 DEF Handler
  <2>3. /\ h(k).step = handler[k].step /\ h(k).cmd = handler[k].cmd
        /\ h(k).owner = handler[k].owner /\ h(k).copy = handler[k].copy
        /\ h(k).add = handler[k].add /\ h(k).del = handler[k].del
        /\ h(k).insert = handler[k].insert
    BY <2>1 DEF Handler
  <2> HIDE DEF h
  <2> QED BY <2>2, <2>3 DEF OwnerOK, InStep
<1>7. handler' \in [Handlers -> Handler \cup {Idle}]
  <2> HIDE DEF new, h, others
  <2>1. handler' = [k \in Handlers |-> handler'[k]]
    BY DEF Deliver
  <2> QED BY <2>1, <1>2, <1>3, <1>4, <1>6
<1>8. TypeOK'
  BY <1>7 DEF Deliver, UInv, TypeOK
<1>9. OwnerOK(new) /\ \A d \in DeviceIds : InStep(new, d)
  BY <1>2, Blank
<1>10. \A g, d : (OwnerOK(g) <=> OwnerOK(g)') /\ (InStep(g, d) <=> InStep(g, d)')
  BY DEF Deliver, OwnerOK, InStep, DevicesOf, Names
<1>11. \A k \in Handlers : handler[k] = Idle => k \notin others
  BY DEF Running
<1>12. Owners'
  <2> SUFFICES ASSUME NEW k \in Handlers, handler'[k] # Idle
               PROVE  OwnerOK(handler'[k])
    BY <1>10 DEF Owners, OwnerOK
  <2> HIDE DEF new, h, others
  <2> QED BY <1>4, <1>5, <1>6, <1>9 DEF UInv, Owners
<1>13. Copies'
  <2> SUFFICES ASSUME NEW k \in Handlers, handler'[k] # Idle,
                      NEW d \in DeviceIds, d \notin stale'[k]
               PROVE  InStep(handler'[k], d)
    BY <1>10 DEF Copies, InStep, DevicesOf, Names
  <2>1. stale' = stale
    BY DEF Deliver
  <2> HIDE DEF new, h, others
  <2> QED BY <2>1, <1>4, <1>5, <1>6, <1>9 DEF UInv, Copies
<1> QED BY <1>8, <1>12, <1>13 DEF UInv

LEMMA CallFailsKeeps ==
  ASSUME UInv, NEW n \in Handlers, CallFails(n)
  PROVE  UInv'
<1>1. handler[n] \in Handler
  BY DEF UInv, TypeOK, CallFails, Running
<1>2. /\ AfterThrow(n) \in Handler
      /\ OwnerOK(AfterThrow(n)) /\ \A d \in DeviceIds : InStep(AfterThrow(n), d)
  BY <1>1, ThrowBlank DEF UInv
<1>3. handler' = [handler EXCEPT ![n] = AfterThrow(n)] /\ UNCHANGED <<email, device, stale>>
  BY DEF CallFails, Throw
<1>4. faults' \in Nat /\ stale' \in [Handlers -> SUBSET DeviceIds]
  BY DEF CallFails, Fault, UInv, TypeOK
<1> QED BY <1>2, <1>3, <1>4, ReadStep

LEMMA EndsKeeps ==
  ASSUME UInv, NEW n \in Handlers, handler[n] \in Handler, Ends(n),
         UNCHANGED <<email, device, faults>>,
         stale' = stale \/ Reads(n)
  PROVE  UInv'
<1>1. /\ EndOf(n, "over") \in Handler
      /\ OwnerOK(EndOf(n, "over")) /\ \A d \in DeviceIds : InStep(EndOf(n, "over"), d)
  BY EndBlank DEF UInv
<1>2. handler' = [handler EXCEPT ![n] = EndOf(n, "over")]
  BY DEF Ends, Becomes
<1>3. /\ stale' \in [Handlers -> SUBSET DeviceIds]
      /\ \A k \in Handlers \ {n} : stale'[k] = stale[k]
      /\ faults' \in Nat
  BY DEF Reads, UInv, TypeOK
<1> QED BY <1>1, <1>2, <1>3, ReadStep

\* Reads(n) empties the handler's set of rows that have changed since it read.
LEMMA ReadsFact ==
  ASSUME UInv, NEW n \in Handlers, Reads(n), UNCHANGED faults
  PROVE  /\ stale' \in [Handlers -> SUBSET DeviceIds]
         /\ \A k \in Handlers \ {n} : stale'[k] = stale[k]
         /\ stale'[n] = {} /\ faults' \in Nat
BY DEF Reads, UInv, TypeOK

LEMMA NotInvalid ==
  ASSUME NEW cmd \in Upserts \cup SetMails
  PROVE  cmd \notin Invalids
BY DEF Upserts, SetMails, Invalids

LEMMA FindOtherOwnerKeeps ==
  ASSUME UInv, NEW n \in Handlers, FindOtherOwner(n)
  PROVE  UInv'
<1> DEFINE h == handler[n]
<1>1. h \in Handler /\ h.step = "start" /\ h.cmd \in Upserts /\ h.add \in SUBSET DeviceIds
  BY AtHandler DEF FindOtherOwner, UInv, Handler
<1>2. /\ stale' \in [Handlers -> SUBSET DeviceIds]
      /\ \A k \in Handlers \ {n} : stale'[k] = stale[k]
      /\ stale'[n] = {} /\ faults' \in Nat
  BY ReadsFact DEF FindOtherOwner
<1>3. UNCHANGED <<email, device>>
  BY DEF FindOtherOwner
<1>4. CASE Becomes(n, [h EXCEPT !.step = "load"])
  <2> DEFINE g == [h EXCEPT !.step = "load"]
  <2>1. g \in Handler /\ g.step = "load" /\ g.cmd = h.cmd
    BY <1>1 DEF Handler
  <2>2. OwnerOK(g) /\ \A d \in DeviceIds : InStep(g, d)
    BY <2>1, <1>1, NotInvalid DEF OwnerOK, InStep
  <2>3. handler' = [handler EXCEPT ![n] = g]
    BY <1>4 DEF Becomes
  <2> HIDE DEF g
  <2> QED BY <1>2, <1>3, <2>1, <2>2, <2>3, ReadStep
<1>5. ASSUME NEW v \in UserIds, \E d \in DevicesOf(v) : Holds(d, h.cmd),
             Becomes(n, [h EXCEPT !.step = "reread", !.owner = v,
                           !.copy = [d \in DeviceIds |->
                                       IF Holds(d, h.cmd) THEN None ELSE CopyOf(v)[d]]])
      PROVE  UInv'
  <2> DEFINE c == [d \in DeviceIds |-> IF Holds(d, h.cmd) THEN None ELSE CopyOf(v)[d]]
             g == [h EXCEPT !.step = "reread", !.owner = v, !.copy = c]
  <2>1. /\ CopyOf(v) \in Copy
        /\ \A d \in DeviceIds : CopyOf(v)[d] # None <=> d \in DevicesOf(v)
        /\ email[v] # "absent"
    BY <1>5, CopyOfUser DEF UInv
  <2>2. c \in Copy
    BY <2>1 DEF Copy
  <2>3. g \in Handler /\ g.step = "reread" /\ g.owner = v /\ g.copy = c /\ g.cmd = h.cmd
    <3> HIDE DEF c
    <3> QED BY <1>1, <2>2 DEF Handler
  <2>4. OwnerOK(g)
    BY <2>3, <2>1 DEF OwnerOK
  <2>5. ASSUME NEW d \in DeviceIds
        PROVE  InStep(g, d)
    <3>1. c[d] = None /\ d \in DevicesOf(v) => Holds(d, h.cmd)
      BY <2>1
    <3>2. Holds(d, h.cmd) => Names(h.cmd, d)
      BY <1>1 DEF Holds, Names
    <3>3. c[d] # None => d \in DevicesOf(v)
      BY <2>1
    <3> HIDE DEF c, g
    <3> QED BY <2>3, <3>1, <3>2, <3>3 DEF InStep
  <2>6. handler' = [handler EXCEPT ![n] = g]
    BY <1>5 DEF Becomes
  <2> HIDE DEF g
  <2> QED BY <1>2, <1>3, <2>3, <2>4, <2>5, <2>6, ReadStep
<1> QED BY <1>4, <1>5 DEF FindOtherOwner

LEMMA CheckEmailKeeps ==
  ASSUME UInv, NEW n \in Handlers, CheckEmail(n)
  PROVE  UInv'
<1> DEFINE h == handler[n]
           g == [h EXCEPT !.step = "load"]
<1>1. h \in Handler /\ h.step = "start" /\ h.cmd \in SetMails
  BY AtHandler DEF CheckEmail, UInv
<1>2. UNCHANGED <<email, device, stale, faults>>
  BY DEF CheckEmail
<1>3. CASE Ends(n)
  BY <1>1, <1>2, <1>3, EndsKeeps
<1>4. CASE Becomes(n, g)
  <2>1. g \in Handler /\ g.step = "load" /\ g.cmd = h.cmd
    BY <1>1 DEF Handler
  <2>2. OwnerOK(g) /\ \A d \in DeviceIds : InStep(g, d)
    BY <2>1, <1>1, NotInvalid DEF OwnerOK, InStep
  <2>3. handler' = [handler EXCEPT ![n] = g]
    BY <1>4 DEF Becomes
  <2>4. faults' \in Nat /\ stale' \in [Handlers -> SUBSET DeviceIds]
    BY <1>2 DEF UInv, TypeOK
  <2> HIDE DEF g
  <2> QED BY <1>2, <2>1, <2>2, <2>3, <2>4, ReadStep
<1> QED BY <1>3, <1>4 DEF CheckEmail

LEMMA FindInvalidKeeps ==
  ASSUME UInv, NEW n \in Handlers, FindInvalid(n)
  PROVE  UInv'
<1> DEFINE h == handler[n]
           found == {d \in DeviceIds : device[d] # None /\ device[d].token = h.cmd.token}
           g == [h EXCEPT !.step = "save", !.del = found]
<1>1. h \in Handler /\ h # Idle /\ h.step = "start" /\ h.cmd \in Invalids
  BY AtHandler DEF FindInvalid, UInv
<1>2. /\ stale' \in [Handlers -> SUBSET DeviceIds]
      /\ \A k \in Handlers \ {n} : stale'[k] = stale[k]
      /\ stale'[n] = {} /\ faults' \in Nat
  BY ReadsFact DEF FindInvalid
<1>3. UNCHANGED <<email, device, faults>>
  BY DEF FindInvalid
<1>4. CASE Ends(n)
  BY <1>1, <1>3, <1>4, EndsKeeps DEF FindInvalid
<1>5. CASE Becomes(n, g)
  <2>1. h.add = {}
    BY <1>1 DEF UInv, Owners, OwnerOK
  <2>2. g \in Handler /\ g.step = "save" /\ g.del = found /\ g.add = h.add /\ g.cmd = h.cmd
        /\ g.insert = h.insert
    BY <1>1 DEF Handler
  <2>3. h.insert = FALSE
    BY <1>1 DEF UInv, Owners, OwnerOK
  <2>4. OwnerOK(g)
    BY <2>1, <2>2, <2>3 DEF OwnerOK
  <2>5. \A d \in DeviceIds : InStep(g, d)
    <3>1. \A d \in found : Names(h.cmd, d)
      BY <1>1 DEF Names
    <3> HIDE DEF found, g
    <3> QED BY <2>1, <2>2, <3>1 DEF InStep
  <2>6. handler' = [handler EXCEPT ![n] = g]
    BY <1>5 DEF Becomes
  <2> HIDE DEF g
  <2> QED BY <1>2, <1>3, <2>2, <2>4, <2>5, <2>6, ReadStep
<1> QED BY <1>4, <1>5 DEF FindInvalid

\* Only a command for a user comes to the point where the user is loaded: the
\* handler of InvalidDevice never does.
LEMMA LoadsAUser ==
  ASSUME TypeOK, Owners, NEW n \in Handlers, handler[n] \in Handler,
         handler[n].step = "load"
  PROVE  /\ handler[n].cmd \in Command /\ handler[n].cmd \notin Invalids
         /\ handler[n].cmd.user \in UserIds
<1>1. handler[n] # Idle
  BY NotIdle
<1>2. handler[n].cmd \notin Invalids
  BY <1>1 DEF Owners, OwnerOK
<1>3. handler[n].cmd \in Upserts \cup SetMails \cup Phones \cup Fills
  BY <1>2 DEF Handler, Command
<1> QED BY <1>2, <1>3 DEF Upserts, SetMails, Phones, Fills, Command

LEMMA LoadUserKeeps ==
  ASSUME UInv, NEW n \in Handlers, LoadUser(n)
  PROVE  UInv'
<1> DEFINE h == handler[n]
           u == h.cmd.user
           copy == IF h.cmd \in Upserts THEN UpsertDevice(CopyOf(u), h.cmd.id, h.cmd.token)
                   ELSE CopyOf(u)
           ins == [h EXCEPT !.owner = u, !.copy = copy, !.step = "save", !.insert = TRUE,
                            !.del = {}, !.add = {d \in DeviceIds : copy[d] # None}]
           upd == [h EXCEPT !.owner = u, !.copy = copy, !.step = "update"]
           rer == [h EXCEPT !.owner = u, !.copy = copy, !.step = "reread"]
<1>1. h \in Handler /\ h # Idle /\ h.step = "load"
  BY AtHandler DEF LoadUser, UInv
<1>2. /\ stale' \in [Handlers -> SUBSET DeviceIds]
      /\ \A k \in Handlers \ {n} : stale'[k] = stale[k]
      /\ stale'[n] = {} /\ faults' \in Nat
  BY ReadsFact DEF LoadUser
<1>3. UNCHANGED <<email, device, faults>>
  BY DEF LoadUser
<1>4. h.cmd \in Command /\ h.cmd \notin Invalids /\ u \in UserIds
  BY <1>1, LoadsAUser DEF UInv
<1>5. /\ CopyOf(u) \in Copy
      /\ \A d \in DeviceIds :
           /\ CopyOf(u)[d] # None <=> d \in DevicesOf(u)
           /\ d \in DevicesOf(u) =>
                /\ device[d] = [user |-> u, token |-> CopyOf(u)[d]]
                /\ CopyOf(u)[d] = device[d].token
      /\ email[u] = "absent" => DevicesOf(u) = {}
  BY <1>4, CopyOfUser DEF UInv
<1>6. copy \in Copy
  BY <1>5, UpsertType DEF Upserts
<1>7. \A d \in DeviceIds :
        /\ copy[d] # None =>
             (h.cmd \in Upserts /\ d = h.cmd.id) \/ (d \in DevicesOf(u) /\ copy[d] = CopyOf(u)[d])
        /\ copy[d] = None /\ d \in DevicesOf(u) =>
             h.cmd \in Upserts /\ CopyOf(u)[d] = h.cmd.token
        /\ copy[d] # None => copy[d] \in Tokens
  <2>1. CASE h.cmd \in Upserts
    <3>1. h.cmd.id \in DeviceIds /\ h.cmd.token \in Tokens /\ h.cmd.token # None
      BY <2>1, UsersAssumption DEF Upserts
    <3>2. copy = UpsertDevice(CopyOf(u), h.cmd.id, h.cmd.token)
      BY <2>1
    <3> HIDE DEF copy, u
    <3> QED BY <1>5, <1>6, <2>1, <3>1, <3>2 DEF UpsertDevice, Copy
  <2>2. CASE h.cmd \notin Upserts
    <3>1. copy = CopyOf(u)
      BY <2>2
    <3> HIDE DEF copy, u
    <3> QED BY <3>1, <1>5, <1>6 DEF Copy
  <2> QED BY <2>1, <2>2
<1>8. Becomes(n, IF email[u] = "absent" THEN ins
                 ELSE IF h.cmd \in Fills THEN upd ELSE rer)
  <2> HIDE DEF copy
  <2>1. Becomes(n, IF email[u] = "absent"
                   THEN [[h EXCEPT !.owner = u, !.copy = copy]
                           EXCEPT !.step = "save", !.insert = TRUE, !.del = {},
                                  !.add = {d \in DeviceIds : copy[d] # None}]
                   ELSE [[h EXCEPT !.owner = u, !.copy = copy]
                           EXCEPT !.step = IF h.cmd \in Fills THEN "update" ELSE "reread"])
    BY DEF LoadUser, copy
  <2> QED BY <2>1, <1>1 DEF Handler
<1>9. \A d \in DeviceIds : d \in DevicesOf(u) /\ h.cmd \in Upserts
        /\ CopyOf(u)[d] = h.cmd.token => Names(h.cmd, d)
  BY <1>5 DEF Names, DevicesOf
<1>10. CASE email[u] = "absent"
  <2>1. /\ ins \in Handler /\ ins.step = "save" /\ ins.owner = u /\ ins.copy = copy
        /\ ins.cmd = h.cmd /\ ins.insert /\ ins.del = {}
        /\ ins.add = {d \in DeviceIds : copy[d] # None}
    <3> HIDE DEF copy, u
    <3> QED BY <1>1, <1>4, <1>6 DEF Handler
  <2>2. handler' = [handler EXCEPT ![n] = ins]
    BY <1>8, <1>10 DEF Becomes
  <2>3. OwnerOK(ins)
    <3> HIDE DEF ins, copy, u
    <3> QED BY <2>1, <1>4, <1>7 DEF OwnerOK
  <2>4. \A d \in DeviceIds : InStep(ins, d)
    <3>1. \A d \in DeviceIds : copy[d] # None => Names(h.cmd, d)
      BY <1>5, <1>7, <1>10 DEF Names
    <3> HIDE DEF ins, copy, u
    <3> QED BY <2>1, <3>1 DEF InStep
  <2> HIDE DEF ins
  <2> QED BY <1>2, <1>3, <2>1, <2>2, <2>3, <2>4, ReadStep
<1>11. CASE email[u] # "absent" /\ h.cmd \in Fills
  <2>1. /\ upd \in Handler /\ upd.step = "update" /\ upd.owner = u /\ upd.copy = copy
        /\ upd.cmd = h.cmd
    <3> HIDE DEF copy, u
    <3> QED BY <1>1, <1>4, <1>6 DEF Handler
  <2>2. handler' = [handler EXCEPT ![n] = upd]
    BY <1>8, <1>11 DEF Becomes
  <2>3. OwnerOK(upd)
    <3> HIDE DEF upd, copy, u
    <3> QED BY <2>1, <1>4, <1>11 DEF OwnerOK
  <2>4. \A d \in DeviceIds : InStep(upd, d)
    <3>1. h.cmd \notin Upserts
      BY <1>11 DEF Fills, Upserts
    <3> HIDE DEF upd, copy, u
    <3> QED BY <2>1, <3>1, <1>5, <1>7 DEF InStep
  <2> HIDE DEF upd
  <2> QED BY <1>2, <1>3, <2>1, <2>2, <2>3, <2>4, ReadStep
<1>12. CASE email[u] # "absent" /\ h.cmd \notin Fills
  <2>1. /\ rer \in Handler /\ rer.step = "reread" /\ rer.owner = u /\ rer.copy = copy
        /\ rer.cmd = h.cmd
    <3> HIDE DEF copy, u
    <3> QED BY <1>1, <1>4, <1>6 DEF Handler
  <2>2. handler' = [handler EXCEPT ![n] = rer]
    BY <1>8, <1>12 DEF Becomes
  <2>3. OwnerOK(rer)
    <3> HIDE DEF rer, copy, u
    <3> QED BY <2>1, <1>4, <1>12 DEF OwnerOK
  <2>4. \A d \in DeviceIds : InStep(rer, d)
    <3> HIDE DEF rer, copy, u
    <3> QED BY <2>1, <1>7, <1>9 DEF InStep
  <2> HIDE DEF rer
  <2> QED BY <1>2, <1>3, <2>1, <2>2, <2>3, <2>4, ReadStep
<1> QED BY <1>10, <1>11, <1>12

LEMMA NoUserInfoKeeps ==
  ASSUME UInv, NEW n \in Handlers, NoUserInfo(n)
  PROVE  UInv'
BY AtHandler, EndsKeeps DEF NoUserInfo, UInv

LEMMA UpdateWithRelatedEntitiesKeeps ==
  ASSUME UInv, NEW n \in Handlers, UpdateWithRelatedEntities(n)
  PROVE  UInv'
<1> DEFINE h == handler[n]
           inDb == DevicesOf(h.owner)
           del == {d \in inDb : h.copy[d] = None}
           add == {d \in DeviceIds \ inDb : h.copy[d] # None}
           g == [h EXCEPT !.step = "save", !.del = del, !.add = add]
<1>1. h \in Handler /\ h # Idle /\ h.step = "reread" /\ h.copy \in Copy
  BY AtHandler DEF UpdateWithRelatedEntities, UInv, Handler
<1>2. OwnerOK(h) /\ \A d \in DeviceIds : d \notin stale[n] => InStep(h, d)
  BY <1>1 DEF UInv, Owners, Copies
<1>3. del \in SUBSET DeviceIds /\ add \in SUBSET DeviceIds
  BY DEF DevicesOf
<1>4. /\ g \in Handler /\ g.step = "save" /\ g.del = del /\ g.add = add /\ g.cmd = h.cmd
      /\ g.copy = h.copy /\ g.owner = h.owner /\ g.insert = h.insert
  <2> HIDE DEF del, add
  <2> QED BY <1>1, <1>3 DEF Handler
<1>5. OwnerOK(g)
  <2>1. \A d \in add : h.copy[d] \in Tokens
    BY <1>1 DEF Copy
  <2> HIDE DEF add, g
  <2> QED BY <1>1, <1>2, <1>4, <2>1 DEF OwnerOK
<1>6. ASSUME NEW d \in DeviceIds, d \notin stale[n]
      PROVE  InStep(g, d)
  <2>1. InStep(h, d)
    BY <1>2, <1>6
  <2>2. d \in del => Names(h.cmd, d)
    BY <1>1, <2>1 DEF InStep
  <2>3. d \in add => Names(h.cmd, d)
    BY <1>1, <2>1 DEF InStep, Names
  <2> HIDE DEF del, add, g
  <2> QED BY <1>4, <2>2, <2>3 DEF InStep
<1>7. handler' = [handler EXCEPT ![n] = g] /\ UNCHANGED <<email, device, stale, faults>>
  BY DEF UpdateWithRelatedEntities, Becomes
<1>8. faults' \in Nat /\ stale' \in [Handlers -> SUBSET DeviceIds]
  BY <1>7 DEF UInv, TypeOK
<1> HIDE DEF g
<1> QED BY <1>4, <1>5, <1>6, <1>7, <1>8, ReadStep

-----------------------------------------------------------------------------
(* Saves                                                                   *)

\* A handler writes the tables consistently and forgets what it held; what the
\* others hold of rows that changed is stale from now on.
LEMMA WriteStep ==
  ASSUME UInv, NEW n \in Handlers, NEW h \in Handler,
         handler' = [handler EXCEPT ![n] = h], Touches, faults' \in Nat,
         OwnerOK(h), h.step \in {"start", "load", "over", "lost"},
         device' \in Table,
         email' \in [UserIds -> Emails \cup {None, "absent"}],
         Consistent(device', email'),
         \A u \in UserIds : email[u] # "absent" => email'[u] # "absent"
  PROVE  UInv'
<1>1. stale' \in [Handlers -> SUBSET DeviceIds]
  BY DEF Touches, UInv, TypeOK
<1>2. TypeOK'
  BY <1>1 DEF UInv, TypeOK
<1>3. handler'[n] = h /\ \A k \in Handlers \ {n} : handler'[k] = handler[k]
  BY DEF UInv, TypeOK
<1>4. Owners'
  <2> SUFFICES ASSUME NEW k \in Handlers, handler'[k] # Idle
               PROVE  OwnerOK(handler[k])'
    BY DEF Owners
  <2>1. CASE k = n
    BY <2>1, <1>3 DEF OwnerOK
  <2>2. CASE k # n
    <3>1. OwnerOK(handler[k])
      BY <2>2, <1>3 DEF UInv, Owners
    <3> QED BY <3>1, <2>2, <1>3 DEF OwnerOK
  <2> QED BY <2>1, <2>2
<1>5. Copies'
  <2> SUFFICES ASSUME NEW k \in Handlers, handler'[k] # Idle,
                      NEW d \in DeviceIds, d \notin stale'[k]
               PROVE  InStep(handler[k], d)'
    BY DEF Copies
  <2>1. CASE k = n
    BY <2>1, <1>3 DEF InStep
  <2>2. CASE k # n /\ Running(k)
    <3>1. d \notin stale[k] /\ device'[d] = device[d]
      BY <2>2 DEF Touches
    <3>2. InStep(handler[k], d)
      BY <2>2, <1>3, <3>1 DEF UInv, Copies
    <3>3. \A v : d \in DevicesOf(v) <=> (d \in DevicesOf(v))'
      BY <3>1 DEF DevicesOf
    <3>4. Names(handler[k].cmd, d) <=> Names(handler[k].cmd, d)'
      BY <3>1, <2>2, <1>3 DEF Names
    <3> QED BY <2>2, <1>3, <3>1, <3>2, <3>3, <3>4 DEF InStep
  <2>3. CASE k # n /\ ~Running(k)
    <3>1. handler[k].step \in {"over", "lost"}
      BY <2>3, <1>3 DEF Running, Ended
    <3> QED BY <3>1, <2>3, <1>3 DEF InStep
  <2> QED BY <2>1, <2>2, <2>3
<1> QED BY <1>2, <1>4, <1>5 DEF UInv

\* A handler about to save has read what it saves.
LEMMA AboutToSave ==
  ASSUME UInv, NEW n \in Handlers, At(n, "save")
  PROVE  /\ handler[n] \in Handler /\ handler[n] # Idle
         /\ OwnerOK(handler[n])
         /\ \A d \in DeviceIds : d \notin stale[n] => InStep(handler[n], d)
         /\ handler[n].add \in SUBSET DeviceIds /\ handler[n].del \in SUBSET DeviceIds
         /\ handler[n].cmd \in Command /\ handler[n].step = "save"
<1>1. handler[n] \in Handler /\ handler[n] # Idle /\ handler[n].step = "save"
  BY AtHandler DEF UInv
<1> QED BY <1>1 DEF UInv, Owners, Copies, Handler

\* What a save commits is consistent again.
LEMMA CommitKeeps ==
  ASSUME UInv, NEW n \in Handlers, At(n, "save"), Commit(handler[n])
  PROVE  /\ device' \in Table
         /\ email' \in [UserIds -> Emails \cup {None, "absent"}]
         /\ Consistent(device', email')
         /\ \A u \in UserIds : email[u] # "absent" => email'[u] # "absent"
<1> DEFINE h == handler[n]
<1>1. /\ h \in Handler /\ OwnerOK(h) /\ h.add \in SUBSET DeviceIds /\ h.step = "save"
      /\ h.cmd \in Command
  BY AboutToSave
<1>2. /\ \A d \in h.add : h.copy[d] \in Tokens
      /\ h.insert => h.owner \in UserIds
      /\ h.add # {} => h.owner \in UserIds /\ (h.insert \/ email[h.owner] # "absent")
  BY <1>1 DEF OwnerOK
<1>3. /\ device' = Saved(h) /\ ~Conflict(h)
      /\ email' = IF h.insert THEN [email EXCEPT ![h.owner] = FirstEmail(h.cmd)] ELSE email
  BY DEF Commit
<1>4. /\ device \in Table /\ Consistent(device, email)
      /\ email \in [UserIds -> Emails \cup {None, "absent"}]
  BY DEF UInv, TypeOK
<1>5. FirstEmail(h.cmd) \in Emails \cup {None} /\ FirstEmail(h.cmd) # "absent"
  BY UsersAssumption DEF FirstEmail, SetMails, Fills
<1>6. \A d \in DeviceIds :
        device'[d] = IF d \in h.add THEN [user |-> h.owner, token |-> h.copy[d]]
                     ELSE IF d \in h.del THEN None ELSE device[d]
  BY <1>3 DEF Saved
<1>7. \A d \in h.add : [user |-> h.owner, token |-> h.copy[d]] \in Device
  BY <1>2 DEF Device
<1>8. ASSUME NEW d \in h.add
       PROVE  device'[d].user = h.owner /\ device'[d].token = h.copy[d]
  <2>1. device'[d] = [user |-> h.owner, token |-> h.copy[d]]
    BY <1>1, <1>6
  <2> QED BY <2>1
<1> HIDE DEF h
<1>9. device' \in Table
  BY <1>3, <1>4, <1>7 DEF Saved, Table
<1>10. email' \in [UserIds -> Emails \cup {None, "absent"}]
  BY <1>3, <1>4, <1>5
<1>11. \A u \in UserIds : email[u] # "absent" => email'[u] # "absent"
  BY <1>3, <1>4, <1>5
<1>12. \A d \in h.add : email'[h.owner] # "absent"
  BY <1>2, <1>3, <1>4, <1>5
<1>13. \A d \in DeviceIds : device'[d] # None => email'[device'[d].user] # "absent"
  <2> SUFFICES ASSUME NEW d \in DeviceIds, device'[d] # None
               PROVE  email'[device'[d].user] # "absent"
    OBVIOUS
  <2>1. CASE d \in h.add
    BY <2>1, <1>8, <1>12
  <2>2. CASE d \notin h.add
    <3>1. device'[d] = device[d] /\ device[d].user \in UserIds
      BY <2>2, <1>6, <1>4 DEF Table, Device
    <3> QED BY <3>1, <1>4, <1>11 DEF Consistent
  <2> QED BY <2>1, <2>2
<1>14. \A d \in h.add : \A e \in DeviceIds \ {d} :
         device'[e] # None => device'[e].token # h.copy[d]
  BY <1>3 DEF Conflict
<1>15. ASSUME NEW d \in DeviceIds, NEW e \in DeviceIds, device'[d] # None, device'[e] # None,
              device'[d].token = device'[e].token, d # e
       PROVE  FALSE
  <2>1. CASE d \in h.add
    BY <2>1, <1>15, <1>14, <1>8
  <2>2. CASE e \in h.add
    BY <2>2, <1>15, <1>14, <1>8
  <2>3. CASE d \notin h.add /\ e \notin h.add
    <3>1. device'[d] = device[d] /\ device'[e] = device[e]
      BY <2>3, <1>15, <1>6
    <3> QED BY <3>1, <1>15, <1>4 DEF Consistent
  <2> QED BY <2>1, <2>2, <2>3
<1>16. Consistent(device', email')
  BY <1>13, <1>15 DEF Consistent
<1> QED BY <1>9, <1>10, <1>11, <1>16

LEMMA SaveUserKeeps ==
  ASSUME UInv, NEW n \in Handlers, SaveUser(n)
  PROVE  UInv'
<1> DEFINE h == handler[n]
<1>1. /\ h \in Handler /\ h # Idle /\ h.step = "save" /\ h.cmd \in Command
      /\ At(n, "save") /\ Touches
  BY AboutToSave DEF SaveUser
<1>2. /\ AfterThrow(n) \in Handler /\ OwnerOK(AfterThrow(n))
      /\ AfterThrow(n).step \in {"start", "load", "over", "lost"}
  BY <1>1, ThrowType, ThrowBlank DEF UInv
<1>3. faults' \in Nat
  BY DEF SaveUser, Fault, UInv, TypeOK
<1>4. CASE Commit(h) /\ Becomes(n, AfterSave(n))
  <2>1. /\ AfterSave(n) \in Handler /\ AfterSave(n).step \in {"load", "over"}
        /\ OwnerOK(AfterSave(n))
    <3>1. CASE h.cmd \in Upserts /\ h.owner # h.cmd.user
      <4> DEFINE g == [h EXCEPT !.step = "load", !.owner = None, !.copy = NoCopy,
                                !.add = {}, !.del = {}]
      <4>1. AfterSave(n) = g
        BY <3>1 DEF AfterSave
      <4>2. g \in Handler /\ g.step = "load" /\ g.cmd = h.cmd
        BY <1>1 DEF Handler, NoCopy, Copy
      <4>3. g.cmd \notin Invalids
        BY <3>1, <4>2, NotInvalid
      <4> HIDE DEF g
      <4> QED BY <4>1, <4>2, <4>3 DEF OwnerOK
    <3>2. CASE ~(h.cmd \in Upserts /\ h.owner # h.cmd.user)
      <4>1. AfterSave(n) = EndOf(n, "over")
        BY <3>2 DEF AfterSave
      <4> QED BY <4>1, <1>1, EndBlank, EndOfType DEF UInv
    <3> QED BY <3>1, <3>2
  <2> QED BY <1>1, <1>3, <1>4, <2>1, CommitKeeps, WriteStep DEF Becomes
<1>5. CASE Commit(h) /\ Throw(n)
  BY <1>1, <1>2, <1>3, <1>5, CommitKeeps, WriteStep DEF Throw
<1>6. CASE Throw(n) /\ UNCHANGED <<email, device>>
  BY <1>1, <1>2, <1>3, <1>6, WriteStep DEF Throw, UInv, TypeOK
<1> QED BY <1>4, <1>5, <1>6 DEF SaveUser

LEMMA UpdateAllKeeps ==
  ASSUME UInv, NEW n \in Handlers, UpdateAll(n)
  PROVE  UInv'
<1> DEFINE h == handler[n]
           kept == {d \in DeviceIds : h.copy[d] # None}
           table == [d \in DeviceIds |->
                       IF d \in kept THEN [user |-> h.owner, token |-> h.copy[d]] ELSE device[d]]
<1>1. h \in Handler /\ h # Idle /\ h.step = "update"
  BY AtHandler DEF UpdateAll, UInv
<1>2. h.owner \in UserIds /\ email[h.owner] # "absent" /\ h.cmd \in Fills
  BY <1>1 DEF UInv, Owners, OwnerOK
<1>3. /\ EndOf(n, "over") \in Handler /\ EndOf(n, "over").step = "over"
      /\ OwnerOK(EndOf(n, "over"))
  BY <1>1, EndBlank, EndOfType DEF UInv
<1>4. handler' = [handler EXCEPT ![n] = EndOf(n, "over")] /\ Touches /\ faults' \in Nat
  BY DEF UpdateAll, Ends, Becomes, UInv, TypeOK
<1>5. /\ device \in Table /\ Consistent(device, email)
      /\ email \in [UserIds -> Emails \cup {None, "absent"}]
  BY DEF UInv, TypeOK
<1>6. CASE UNCHANGED <<email, device>>
  BY <1>3, <1>4, <1>5, <1>6, WriteStep
<1>7. CASE /\ \A d \in kept : \A e \in DeviceIds \ {d} :
                table[e] # None => table[e].token # table[d].token
           /\ device' = table
           /\ email' = [email EXCEPT ![h.owner] = h.cmd.email]
  <2>1. h.cmd.email \in Emails \cup {None} /\ h.cmd.email # "absent"
    BY <1>2, UsersAssumption DEF Fills
  <2>2. \A d \in kept : [user |-> h.owner, token |-> h.copy[d]] \in Device
    BY <1>1, <1>2 DEF Device, Handler, Copy
  <2>3. \A d \in DeviceIds : table[d] = IF d \in kept
                 THEN [user |-> h.owner, token |-> h.copy[d]] ELSE device[d]
    OBVIOUS
  <2>4. table \in Table
    BY <2>2, <1>5 DEF Table
  <2>5. /\ email' \in [UserIds -> Emails \cup {None, "absent"}]
        /\ \A u \in UserIds : email[u] # "absent" => email'[u] # "absent"
        /\ email'[h.owner] # "absent"
    BY <1>2, <1>5, <1>7, <2>1
  <2> HIDE DEF table, kept, h
  <2>6. \A d \in DeviceIds : table[d] # None => email'[table[d].user] # "absent"
    <3> SUFFICES ASSUME NEW d \in DeviceIds, table[d] # None
                 PROVE  email'[table[d].user] # "absent"
      OBVIOUS
    <3>1. CASE d \in kept
      <4>1. table[d] = [user |-> h.owner, token |-> h.copy[d]]
        BY <3>1, <2>3
      <4> QED BY <4>1, <2>5
    <3>2. CASE d \notin kept
      <4>1. table[d] = device[d] /\ device[d].user \in UserIds
        BY <3>2, <2>3, <1>5 DEF Table, Device
      <4> QED BY <4>1, <1>5, <2>5 DEF Consistent
    <3> QED BY <3>1, <3>2
  <2>7. \A d, e \in DeviceIds :
           table[d] # None /\ table[e] # None /\ table[d].token = table[e].token => d = e
    BY <2>3, <1>5, <1>7 DEF Consistent
  <2>8. Consistent(device', email')
    BY <2>6, <2>7, <1>7 DEF Consistent
  <2> QED BY <1>3, <1>4, <1>7, <2>4, <2>5, <2>8, WriteStep
<1> QED BY <1>6, <1>7 DEF UpdateAll

-----------------------------------------------------------------------------
(* The theorems                                                            *)

LEMMA UInit == Init => UInv
<1> SUFFICES ASSUME Init PROVE UInv
  OBVIOUS
<1>1. TypeOK
  BY DEF Init, TypeOK
<1>2. \A n \in Handlers : handler[n] = Idle
  BY DEF Init
<1> QED BY <1>1, <1>2 DEF UInv, Owners, Copies

LEMMA UNext == UInv /\ [Next]_vars => UInv'
<1> SUFFICES ASSUME UInv, [Next]_vars PROVE UInv'
  OBVIOUS
<1>1. ASSUME NEW n \in Handlers, NEW cmd \in Command, Deliver(n, cmd) PROVE UInv'
  BY <1>1, DeliverKeeps
<1>2. ASSUME NEW n \in Handlers, Handle(n) PROVE UInv'
  BY <1>2, FindOtherOwnerKeeps, CheckEmailKeeps, FindInvalidKeeps, LoadUserKeeps,
     NoUserInfoKeeps, UpdateWithRelatedEntitiesKeeps, SaveUserKeeps, UpdateAllKeeps DEF Handle
<1>3. ASSUME NEW n \in Handlers, CallFails(n) PROVE UInv'
  BY <1>3, CallFailsKeeps
<1>4. CASE UNCHANGED vars
  <2>1. UNCHANGED <<email, device, handler, stale, faults>>
    BY <1>4 DEF vars
  <2>2. TypeOK'
    BY <2>1 DEF UInv, TypeOK
  <2>3. Owners'
    BY <2>1 DEF UInv, Owners, OwnerOK
  <2>4. Copies'
    BY <2>1 DEF UInv, Copies, InStep, DevicesOf, Names
  <2> QED BY <2>2, <2>3, <2>4 DEF UInv
<1> QED BY <1>1, <1>2, <1>3, <1>4 DEF Next

LEMMA UInvariant == Spec => []UInv
BY UInit, UNext, PTL DEF Spec

\* Whatever the handlers write in whatever order, the database's own promises
\* hold: a device's owner has a row and no two devices have one token.
THEOREM UsersTypeCorrect == Spec => []TypeOK
<1>1. UInv => TypeOK
  BY DEF UInv
<1> QED BY <1>1, UInvariant, PTL

\* A save or an update touches only rows that the command names or that have
\* changed since the handler read them.
LEMMA OnlyNamedOrStale ==
  ASSUME UInv, Next, NEW n \in Handlers, NEW d \in DeviceIds,
         handler'[n] # handler[n], device'[d] # device[d], ~Names(handler[n].cmd, d)
  PROVE  d \in stale[n]
<1>1. ASSUME NEW k \in Handlers, SaveUser(k) \/ UpdateAll(k)
      PROVE  k = n
  <2>1. \A g : handler' = [handler EXCEPT ![k] = g] => k = n
    OBVIOUS
  <2> QED BY <1>1, <2>1 DEF SaveUser, UpdateAll, Becomes, Throw, Ends
<1>2. CASE SaveUser(n)
  <2>1. /\ At(n, "save") /\ handler[n].step = "save"
        /\ d \notin stale[n] => InStep(handler[n], d)
    BY <1>2, AboutToSave DEF SaveUser
  <2>2. device' = Saved(handler[n])
    BY <1>2 DEF SaveUser, Commit
  <2>3. d \in handler[n].add \cup handler[n].del
    BY <2>2 DEF Saved
  <2> QED BY <2>1, <2>3 DEF InStep
<1>3. CASE UpdateAll(n)
  <2>1. handler[n] \in Handler /\ handler[n] # Idle /\ handler[n].step = "update"
    BY <1>3, AtHandler DEF UpdateAll, UInv
  <2>2. d \notin stale[n] => InStep(handler[n], d)
    BY <2>1 DEF UInv, Copies
  <2>3. /\ handler[n].copy[d] # None
        /\ device'[d] = [user |-> handler[n].owner, token |-> handler[n].copy[d]]
    BY <1>3 DEF UpdateAll
  <2> QED BY <2>1, <2>2, <2>3 DEF InStep
<1>4. \E k \in Handlers : SaveUser(k) \/ UpdateAll(k)
  BY DEF Next, Deliver, CallFails, Handle, FindOtherOwner, CheckEmail, FindInvalid, LoadUser,
         NoUserInfo, UpdateWithRelatedEntities
<1> QED BY <1>1, <1>2, <1>3, <1>4

\* However many handlers interleave, none changes a row its command does not
\* name unless that row has changed since it read it.
THEOREM UsersStrangers == Spec => StrangersOnlyIfStale
<1>1. UInv /\ [Next]_vars =>
        [\A n \in Handlers, d \in DeviceIds :
           handler'[n] # handler[n] /\ device'[d] # device[d] /\ ~Names(handler[n].cmd, d)
             => d \in stale[n]]_vars
  BY OnlyNamedOrStale DEF vars
<1> QED BY <1>1, UInvariant, PTL DEF Spec, StrangersOnlyIfStale

-----------------------------------------------------------------------------
(* The commands that run alone                                             *)

\* The other users who hold the device or the token of an UpsertDevice.
Rivals(cmd) == {v \in UserIds \ {cmd.user} : \E d \in DevicesOf(v) : Holds(d, cmd)}

\* The user already had the device.
Known(cmd) == device[cmd.id] # None /\ device[cmd.id].user = cmd.user

\* What a table has in the row of d once cmd is carried out on it.
Goal(b, cmd, d) ==
  LET known == b[cmd.id] # None /\ b[cmd.id].user = cmd.user IN
  IF d = cmd.id
  THEN IF known THEN b[d] ELSE [user |-> cmd.user, token |-> cmd.token]
  ELSE IF b[d] # None /\ b[d].token = cmd.token /\ ~(known /\ b[d].user = cmd.user) THEN None
  ELSE b[d]

\* The copy that clears a rival, and the copy of the user's own devices.
Cleared(v, cmd) == [d \in DeviceIds |-> IF Holds(d, cmd) THEN None ELSE CopyOf(v)[d]]

Own(cmd) == UpsertDevice(CopyOf(cmd.user), cmd.id, cmd.token)

\* What the save deletes and inserts is what distinguishes the copy from the table.
Compared(h) ==
  /\ h.del = {d \in DevicesOf(h.owner) : h.copy[d] = None}
  /\ h.add = {d \in DeviceIds \ DevicesOf(h.owner) : h.copy[d] # None}

OnOwn(h) == h.step = "load" \/ (h.step \in {"reread", "save"} /\ h.owner = h.cmd.user)

Few(cmd) == \A v, w \in Rivals(cmd) : v = w

\* An UpsertDevice that has run alone so far: what is left to do is what there was
\* to do when it was delivered; the attempt that no fault explains has one rival
\* at most, and has cleared it before it comes to the user's own devices.
UpsertAlone(h) ==
  /\ \A d \in DeviceIds : Goal(h.before, h.cmd, d) = Goal(device, h.cmd, d)
  /\ h.attempt > faults => Few(h.cmd)
  /\ OnOwn(h) => /\ Few(h.cmd)
                 /\ h.attempt > faults => Rivals(h.cmd) = {}
                 /\ Known(h.cmd) => Rivals(h.cmd) = {}
  /\ h.step \in {"reread", "save"} =>
       \/ h.owner = h.cmd.user /\ h.copy = Own(h.cmd)
       \/ h.owner \in Rivals(h.cmd) /\ h.copy = Cleared(h.owner, h.cmd) /\ ~h.insert
  /\ h.step = "save" => Compared(h)

\* Any other command that has run alone so far: only faults fail its saves, and
\* nobody else has the address that it has checked.
OtherAlone(h) ==
  /\ h.attempt <= faults
  /\ h.step = "reread" => h.copy = CopyOf(h.owner)
  /\ h.step = "save" => h.add = {} /\ \A d \in h.del : device[d] # None
  /\ h.cmd \in SetMails /\ h.step \in {"load", "reread", "save"} =>
       ~IsExistByEmail(h.cmd.email, h.cmd.user)

AloneOK(h) ==
  /\ h.step \in {"start", "load", "reread"} => ~h.insert
  /\ h.step = "save" /\ h.insert => email[h.owner] = "absent" /\ h.owner = h.cmd.user
  /\ h.attempt <= 1 + faults
  /\ h.cmd \in Upserts => UpsertAlone(h)
  /\ h.cmd \notin Upserts => OtherAlone(h)

Alone ==
  \A n \in Handlers : Running(n) /\ handler[n].alone =>
    /\ \A k \in Handlers \ {n} : ~Running(k)
    /\ AloneOK(handler[n])

-----------------------------------------------------------------------------
(* A handler that runs alone                                               *)

\* One handler moves; if it runs alone no other does, before or after.
LEMMA AloneStep ==
  ASSUME UInv, Alone, NEW n \in Handlers, Running(n), NEW h \in Handler, Becomes(n, h),
         h.alone = handler[n].alone,
         h.alone /\ h.step \notin {"over", "lost"} => AloneOK(h)'
  PROVE  Alone'
<1>1. handler'[n] = h /\ \A k \in Handlers \ {n} : handler'[k] = handler[k]
  BY DEF Becomes, UInv, TypeOK
<1>2. \A k \in Handlers \ {n} : Running(k)' => Running(k)
  BY <1>1 DEF Running, Ended
<1> SUFFICES ASSUME NEW m \in Handlers, Running(m)', handler'[m].alone
             PROVE  /\ \A k \in Handlers \ {m} : ~Running(k)'
                    /\ AloneOK(handler[m])'
  BY DEF Alone
<1>3. CASE m = n
  <2>1. \A k \in Handlers \ {n} : ~Running(k)
    BY <1>1, <1>3 DEF Alone
  <2>2. h.step \notin {"over", "lost"}
    BY <1>1, <1>3 DEF Running, Ended
  <2>3. AloneOK(h)'
    BY <1>1, <1>3, <2>2
  <2>4. AloneOK(handler[m])'
    BY <1>1, <1>3, <2>3 DEF AloneOK, UpsertAlone, OtherAlone, Compared, OnOwn
  <2> QED BY <1>2, <1>3, <2>1, <2>4
<1>4. CASE m # n
  <2>1. Running(m) /\ handler[m].alone
    BY <1>1, <1>2, <1>4
  <2> QED BY <1>4, <2>1 DEF Alone
<1> QED BY <1>3, <1>4

\* What a handler holds is judged by the tables alone.
LEMMA AloneRead ==
  ASSUME NEW h, AloneOK(h), UNCHANGED <<email, device, faults>>
  PROVE  AloneOK(h)'
BY DEF AloneOK, UpsertAlone, OtherAlone, Compared, OnOwn, Few, Rivals, Known, Cleared, Own,
       Goal, CopyOf, DevicesOf, Holds, IsExistByEmail

LEMMA AloneReads ==
  ASSUME UInv, Alone, NEW n \in Handlers, Running(n), NEW h \in Handler, Becomes(n, h),
         h.alone = handler[n].alone, UNCHANGED <<email, device, faults>>,
         h.alone => AloneOK(h)
  PROVE  Alone'
BY AloneStep, AloneRead

LEMMA AloneEnds ==
  ASSUME UInv, Alone, NEW n \in Handlers, handler[n] \in Handler, Running(n), Ends(n)
  PROVE  Alone'
<1>1. EndOf(n, "over") \in Handler /\ EndOf(n, "over").step = "over"
  BY EndOfType DEF UInv
<1>2. EndOf(n, "over").alone = handler[n].alone
  BY DEF EndOf, Fresh
<1> QED BY <1>1, <1>2, AloneStep DEF Ends

\* The handler that is at a step, as the lemmas below name it.
LEMMA AtAlone ==
  ASSUME UInv, Alone, NEW n \in Handlers, NEW s \in {"start", "load", "reread", "save", "update"},
         At(n, s)
  PROVE  /\ handler[n] \in Handler /\ handler[n] # Idle /\ handler[n].step = s /\ Running(n)
         /\ handler[n].cmd \in Command /\ handler[n].before \in Table
         /\ handler[n].attempt \in 0..MaxAttempts
         /\ handler[n].copy \in Copy
         /\ OwnerOK(handler[n])
         /\ handler[n].alone => AloneOK(handler[n])
<1>1. handler[n] \in Handler /\ handler[n] # Idle /\ handler[n].step = s
  BY AtHandler DEF UInv
<1>2. Running(n)
  BY <1>1 DEF Running, Ended
<1> QED BY <1>1, <1>2 DEF Alone, UInv, Owners, Handler

\* The types of commands do not overlap.
LEMMA Types ==
  ASSUME NEW cmd
  PROVE  /\ cmd \in Upserts => cmd \notin SetMails \cup Phones \cup Fills \cup Invalids
         /\ cmd \in SetMails => cmd \notin Upserts \cup Phones \cup Fills \cup Invalids
         /\ cmd \in Fills => cmd \notin Upserts \cup SetMails \cup Phones \cup Invalids
         /\ cmd \in Invalids => cmd \notin Upserts \cup SetMails \cup Phones \cup Fills
         /\ cmd \in Phones => cmd \notin Upserts \cup SetMails \cup Fills \cup Invalids
BY DEF Upserts, SetMails, Phones, Fills, Invalids

LEMMA UpsertFields ==
  ASSUME NEW cmd \in Upserts
  PROVE  /\ cmd.user \in UserIds /\ cmd.id \in DeviceIds /\ cmd.token \in Tokens
         /\ cmd.token # None
BY UsersAssumption DEF Upserts

LEMMA AloneDeliver ==
  ASSUME UInv, Alone, NEW n \in Handlers, NEW cmd \in Command, Deliver(n, cmd)
  PROVE  Alone'
<1> DEFINE others == {k \in Handlers : Running(k)}
<1> PICK new : new = Fresh(cmd, 0, device, others = {})
  OBVIOUS
<1>1. /\ handler[n] = Idle
      /\ \A k \in Handlers : handler'[k] = IF k = n THEN new
                                           ELSE IF k \in others
                                                THEN [handler[k] EXCEPT !.alone = FALSE]
                                                ELSE handler[k]
      /\ UNCHANGED <<email, device, faults>>
  BY DEF Deliver
<1>2. \A k \in others : k # n /\ handler[k] \in Handler
  BY <1>1 DEF Running, UInv, TypeOK
<1>3. \A k \in others : ~handler'[k].alone
  BY <1>1, <1>2 DEF Handler
<1>4. \A k \in Handlers \ others : k # n => ~Running(k)'
  BY <1>1 DEF Running, Ended
<1>5. /\ new.alone = (others = {}) /\ new.cmd = cmd /\ new.attempt = 0 /\ new.before = device
      /\ new.step = FirstStep(cmd) /\ ~new.insert
  BY DEF Fresh
<1>6. /\ FirstStep(cmd) \in {"start", "load"}
      /\ FirstStep(cmd) = "load" => cmd \in Phones \cup Fills
  BY DEF FirstStep
<1>7. faults \in Nat
  BY DEF UInv, TypeOK
<1>8. AloneOK(new)
  <2>1. CASE cmd \in Upserts
    <3>1. new.step = "start"
      BY <2>1, <1>5, <1>6, Types
    <3>2. UpsertAlone(new)
      BY <3>1, <1>5, <1>7 DEF UpsertAlone, OnOwn
    <3> QED BY <3>1, <3>2, <2>1, <1>5, <1>7 DEF AloneOK
  <2>2. CASE cmd \notin Upserts
    <3>1. cmd \in SetMails => new.step = "start"
      BY <1>5, <1>6, Types
    <3>2. OtherAlone(new)
      BY <3>1, <1>5, <1>6, <1>7 DEF OtherAlone
    <3> QED BY <3>2, <2>2, <1>5, <1>6, <1>7 DEF AloneOK
  <2> QED BY <2>1, <2>2
<1>9. AloneOK(new)'
  BY <1>1, <1>8, AloneRead
<1> QED
  <2> SUFFICES ASSUME NEW m \in Handlers, Running(m)', handler'[m].alone
               PROVE  /\ \A k \in Handlers \ {m} : ~Running(k)'
                      /\ AloneOK(handler[m])'
    BY DEF Alone
  <2>1. m = n
    BY <1>3, <1>4
  <2>2. others = {}
    BY <2>1, <1>1, <1>5
  <2>3. handler'[n] = new
    BY <1>1
  <2>4. AloneOK(handler[m])'
    BY <2>1, <2>3, <1>9 DEF AloneOK, UpsertAlone, OtherAlone, Compared, OnOwn
  <2> QED BY <2>1, <2>2, <2>4, <1>4

-----------------------------------------------------------------------------
(* What an UpsertDevice has left to do                                     *)

LEMMA RegisteredGoal ==
  ASSUME NEW b, NEW t, NEW cmd, \A d \in DeviceIds : t[d] = Goal(b, cmd, d)
  PROVE  Registered(b, t, cmd)
BY DEF Registered, Goal

\* Once it is done there is nothing left to do.
LEMMA GoalTwice ==
  ASSUME NEW b \in Table, NEW t, NEW cmd \in Upserts,
         \A d \in DeviceIds : t[d] = Goal(b, cmd, d),
         NEW d \in DeviceIds
  PROVE  Goal(t, cmd, d) = Goal(b, cmd, d)
<1>1. cmd.user \in UserIds /\ cmd.id \in DeviceIds /\ cmd.token \in Tokens
  BY UpsertFields
<1>2. t[cmd.id] = Goal(b, cmd, cmd.id) /\ t[d] = Goal(b, cmd, d)
  BY <1>1
<1>3. CASE b[cmd.id] # None /\ b[cmd.id].user = cmd.user
  BY <1>2, <1>3 DEF Goal
<1>4. CASE ~(b[cmd.id] # None /\ b[cmd.id].user = cmd.user)
  BY <1>2, <1>4 DEF Goal
<1> QED BY <1>3, <1>4

\* Clearing what others hold of it is part of it.
LEMMA GoalCleared ==
  ASSUME NEW b, NEW t, NEW cmd \in Upserts,
         \A d \in DeviceIds :
           \/ t[d] = b[d]
           \/ /\ t[d] = None /\ b[d] # None /\ b[d].user # cmd.user
              /\ d = cmd.id \/ b[d].token = cmd.token,
         NEW d \in DeviceIds
  PROVE  Goal(t, cmd, d) = Goal(b, cmd, d)
<1>1. cmd.id \in DeviceIds
  BY UpsertFields
<1>2. \A e \in {d, cmd.id} :
        \/ t[e] = b[e]
        \/ /\ t[e] = None /\ b[e] # None /\ b[e].user # cmd.user
           /\ e = cmd.id \/ b[e].token = cmd.token
  BY <1>1
<1>3. CASE d = cmd.id
  BY <1>2, <1>3 DEF Goal
<1>4. CASE d # cmd.id /\ t[d] # b[d]
  BY <1>2, <1>4 DEF Goal
<1>5. CASE d # cmd.id /\ t[d] = b[d]
  BY <1>2, <1>5 DEF Goal
<1> QED BY <1>3, <1>4, <1>5

\* Two rows at most are named by an UpsertDevice: a rival holds one of them.
LEMMA RivalHolds ==
  ASSUME TypeOK, NEW cmd \in Upserts, NEW v \in Rivals(cmd)
  PROVE  /\ v \in UserIds /\ v # cmd.user
         /\ \E d \in DeviceIds : /\ device[d] # None /\ device[d].user = v
                                 /\ d = cmd.id \/ device[d].token = cmd.token
BY DEF Rivals, DevicesOf, Holds

LEMMA HolderRivals ==
  ASSUME TypeOK, NEW cmd \in Upserts, NEW d \in DeviceIds, device[d] # None,
         device[d].user # cmd.user, d = cmd.id \/ device[d].token = cmd.token
  PROVE  device[d].user \in Rivals(cmd)
<1>1. device[d].user \in UserIds
  BY DEF TypeOK, Table, Device
<1> QED BY <1>1 DEF Rivals, DevicesOf, Holds

\* When one rival is cleared one is left at most, and none if the user has the
\* device.
LEMMA ThreeRivals ==
  ASSUME TypeOK, NEW cmd \in Upserts,
         NEW u \in Rivals(cmd), NEW v \in Rivals(cmd), NEW w \in Rivals(cmd)
  PROVE  /\ u # v /\ u # w => v = w
         /\ Known(cmd) => u = v
<1>1. PICK d \in DeviceIds : /\ device[d] # None /\ device[d].user = u
                             /\ d = cmd.id \/ device[d].token = cmd.token
  BY RivalHolds
<1>2. PICK e \in DeviceIds : /\ device[e] # None /\ device[e].user = v
                             /\ e = cmd.id \/ device[e].token = cmd.token
  BY RivalHolds
<1>3. PICK f \in DeviceIds : /\ device[f] # None /\ device[f].user = w
                             /\ f = cmd.id \/ device[f].token = cmd.token
  BY RivalHolds
<1>4. \A i, j \in {d, e, f} : device[i].token = device[j].token => i = j
  BY <1>1, <1>2, <1>3 DEF TypeOK, Consistent
<1>5. u # cmd.user /\ v # cmd.user
  BY RivalHolds
<1>6. u # v /\ u # w => v = w
  BY <1>1, <1>2, <1>3, <1>4
<1>7. Known(cmd) => u = v
  BY <1>1, <1>2, <1>4, <1>5 DEF Known
<1> QED BY <1>6, <1>7

\* The save that clears a rival deletes what the rival holds and inserts nothing.
LEMMA SavedCleared ==
  ASSUME TypeOK, NEW h, h.cmd \in Upserts, h.owner \in Rivals(h.cmd),
         h.copy = Cleared(h.owner, h.cmd), Compared(h), NEW d \in DeviceIds
  PROVE  /\ h.add = {}
         /\ h.del = {e \in DevicesOf(h.owner) : Holds(e, h.cmd)}
         /\ Saved(h)[d] = IF d \in h.del THEN None ELSE device[d]
<1>1. h.owner \in UserIds
  BY DEF Rivals
<1>2. \A e \in DeviceIds : CopyOf(h.owner)[e] # None <=> e \in DevicesOf(h.owner)
  BY <1>1, CopyOfUser
<1>3. \A e \in DeviceIds : h.copy[e] = IF Holds(e, h.cmd) THEN None ELSE CopyOf(h.owner)[e]
  BY DEF Cleared
<1>4. h.add = {}
  BY <1>2, <1>3 DEF Compared
<1>5. h.del = {e \in DevicesOf(h.owner) : Holds(e, h.cmd)}
  BY <1>2, <1>3 DEF Compared, DevicesOf
<1> QED BY <1>4, <1>5 DEF Saved

\* The save of the user's own devices does what there is to do.
LEMMA SavedOwn ==
  ASSUME TypeOK, NEW h, h.cmd \in Upserts, h.owner = h.cmd.user, h.copy = Own(h.cmd),
         Compared(h), ~Conflict(h), Known(h.cmd) => Rivals(h.cmd) = {}, NEW d \in DeviceIds
  PROVE  Saved(h)[d] = Goal(device, h.cmd, d)
<1> PICK cmd, u, x : cmd = h.cmd /\ u = h.cmd.user /\ x = h.cmd.id
  OBVIOUS
<1>1. cmd \in Upserts /\ u \in UserIds /\ x \in DeviceIds /\ cmd.token # None
  BY UpsertFields
<1>2. \A e \in DeviceIds :
        /\ CopyOf(u)[e] # None <=> e \in DevicesOf(u)
        /\ e \in DevicesOf(u) => CopyOf(u)[e] = device[e].token
  BY <1>1, CopyOfUser
<1>3. \A e \in DeviceIds : e \in DevicesOf(u) <=> device[e] # None /\ device[e].user = u
  BY DEF DevicesOf
<1>4. h.copy = UpsertDevice(CopyOf(u), x, cmd.token)
  BY DEF Own
<1>5. CopyOf(u) \in Copy
  BY <1>1, CopyOfUser
<1>6. Saved(h)[d] = IF d \in h.add THEN [user |-> u, token |-> h.copy[d]]
                    ELSE IF d \in h.del THEN None ELSE device[d]
  BY DEF Saved
<1>7. CASE Known(cmd)
  <2>1. x \in DevicesOf(u)
    BY <1>1, <1>3, <1>7 DEF Known
  <2>2. \A e \in DeviceIds : h.copy[e] # None <=> e \in DevicesOf(u)
    BY <1>1, <1>2, <1>4, <1>5, <2>1 DEF UpsertDevice, Copy
  <2>3. h.add = {} /\ h.del = {}
    BY <2>2 DEF Compared, DevicesOf
  <2>4. device[d] # None /\ device[d].token = cmd.token => device[d].user = u
    BY <1>1, <1>7, HolderRivals
  <2>5. Goal(device, cmd, d) = device[d]
    BY <1>7, <2>4 DEF Goal, Known
  <2> QED BY <1>6, <2>3, <2>5
<1>8. CASE ~Known(cmd)
  <2>1. x \notin DevicesOf(u)
    BY <1>1, <1>3, <1>8 DEF Known
  <2>2. \A e \in DeviceIds :
          h.copy[e] = IF e = x THEN cmd.token
                      ELSE IF CopyOf(u)[e] = cmd.token THEN None ELSE CopyOf(u)[e]
    BY <1>1, <1>2, <1>4, <2>1 DEF UpsertDevice
  <2>3. h.add = {x} /\ h.copy[x] = cmd.token
    BY <1>1, <1>2, <2>1, <2>2 DEF Compared
  <2>4. h.del = {e \in DevicesOf(u) : e # x /\ device[e].token = cmd.token}
    <3>1. h.del = {e \in DevicesOf(u) : h.copy[e] = None}
      BY DEF Compared
    <3>2. \A e \in DevicesOf(u) : h.copy[e] = None <=> e # x /\ device[e].token = cmd.token
      <4>1. DevicesOf(u) \subseteq DeviceIds
        BY DEF DevicesOf
      <4> QED BY <1>1, <1>2, <2>1, <2>2, <4>1
    <3> QED BY <3>1, <3>2
  <2>5. CASE d = x
    BY <1>6, <1>8, <2>3, <2>5 DEF Goal, Known
  <2>6. CASE d # x
    <3>1. d \notin h.add /\ Saved(h)[d] = IF d \in h.del THEN None ELSE device[d]
      BY <1>6, <2>3, <2>6
    <3>2. Saved(h)[d] # None => Saved(h)[d].token # cmd.token
      BY <2>3, <2>6 DEF Conflict
    <3>3. d \in h.del <=> device[d] # None /\ device[d].user = u /\ device[d].token = cmd.token
      BY <1>3, <2>4, <2>6
    <3>4. Goal(device, cmd, d) = IF device[d] # None /\ device[d].token = cmd.token
                                 THEN None ELSE device[d]
      BY <1>8, <2>6 DEF Goal, Known
    <3> QED BY <3>1, <3>2, <3>3, <3>4
  <2> QED BY <2>5, <2>6
<1> QED BY <1>7, <1>8

-----------------------------------------------------------------------------
(* What the handlers read when they run alone                              *)

LEMMA AloneFindOtherOwner ==
  ASSUME UInv, Alone, NEW n \in Handlers, FindOtherOwner(n)
  PROVE  Alone'
<1> PICK h : h = handler[n]
  OBVIOUS
<1>1. /\ h \in Handler /\ h.step = "start" /\ Running(n) /\ h.cmd \in Upserts
      /\ h.attempt \in 0..MaxAttempts
      /\ h.alone => AloneOK(h)
  BY AtAlone DEF FindOtherOwner
<1>2. h.alone => ~h.insert /\ h.attempt <= 1 + faults /\ UpsertAlone(h)
  BY <1>1 DEF AloneOK
<1>3. UNCHANGED <<email, device, faults>>
  BY DEF FindOtherOwner
<1>4. CASE Rivals(h.cmd) = {} /\ Becomes(n, [h EXCEPT !.step = "load"])
  <2> PICK g : g = [h EXCEPT !.step = "load"]
    OBVIOUS
  <2>1. /\ g \in Handler /\ g.step = "load" /\ g.cmd = h.cmd /\ g.alone = h.alone
        /\ g.insert = h.insert /\ g.attempt = h.attempt /\ g.before = h.before
    BY <1>1 DEF Handler
  <2>2. ASSUME h.alone PROVE AloneOK(g)
    <3>1. UpsertAlone(g)
      BY <1>2, <1>4, <2>1, <2>2 DEF UpsertAlone, Few
    <3> QED BY <1>1, <1>2, <2>1, <2>2, <3>1 DEF AloneOK
  <2> QED BY <1>1, <1>3, <1>4, <2>1, <2>2, AloneReads
<1>5. ASSUME NEW v \in Rivals(h.cmd),
             Becomes(n, [h EXCEPT !.step = "reread", !.owner = v, !.copy = Cleared(v, h.cmd)])
      PROVE  Alone'
  <2> PICK c, g : /\ c = Cleared(v, h.cmd)
                  /\ g = [h EXCEPT !.step = "reread", !.owner = v, !.copy = c]
    OBVIOUS
  <2>1. v \in UserIds /\ v # h.cmd.user
    BY DEF Rivals
  <2>2. c \in Copy
    BY <2>1, CopyOfUser DEF Cleared, Copy, UInv
  <2>3. /\ g \in Handler /\ g.step = "reread" /\ g.cmd = h.cmd /\ g.alone = h.alone
        /\ g.insert = h.insert /\ g.attempt = h.attempt /\ g.before = h.before
        /\ g.owner = v /\ g.copy = c
    BY <1>1, <2>1, <2>2 DEF Handler
  <2>4. ASSUME h.alone PROVE AloneOK(g)
    <3>1. UpsertAlone(g)
      BY <1>2, <2>1, <2>3, <2>4 DEF UpsertAlone, OnOwn
    <3> QED BY <1>1, <1>2, <2>3, <2>4, <3>1 DEF AloneOK
  <2> QED BY <1>1, <1>3, <1>5, <2>3, <2>4, AloneReads
<1> QED BY <1>4, <1>5 DEF FindOtherOwner, Rivals, Cleared

LEMMA AloneCheckEmail ==
  ASSUME UInv, Alone, NEW n \in Handlers, CheckEmail(n)
  PROVE  Alone'
<1> PICK h, g : h = handler[n] /\ g = [h EXCEPT !.step = "load"]
  OBVIOUS
<1>1. /\ h \in Handler /\ h.step = "start" /\ Running(n) /\ h.cmd \in SetMails
      /\ h.alone => AloneOK(h)
  BY AtAlone DEF CheckEmail
<1>2. h.cmd \notin Upserts
  BY <1>1, Types
<1>3. UNCHANGED <<email, device, faults>>
  BY DEF CheckEmail
<1>4. CASE Ends(n)
  BY <1>1, <1>4, AloneEnds
<1>5. CASE ~IsExistByEmail(h.cmd.email, h.cmd.user) /\ Becomes(n, g)
  <2>1. /\ g \in Handler /\ g.step = "load" /\ g.cmd = h.cmd /\ g.alone = h.alone
        /\ g.insert = h.insert /\ g.attempt = h.attempt
    BY <1>1 DEF Handler
  <2>2. h.alone => AloneOK(g)
    BY <1>1, <1>2, <1>5, <2>1 DEF AloneOK, OtherAlone
  <2> QED BY <1>1, <1>3, <1>5, <2>1, <2>2, AloneReads
<1> QED BY <1>4, <1>5 DEF CheckEmail

LEMMA AloneFindInvalid ==
  ASSUME UInv, Alone, NEW n \in Handlers, FindInvalid(n)
  PROVE  Alone'
<1> PICK h, found, g :
      /\ h = handler[n]
      /\ found = {d \in DeviceIds : device[d] # None /\ device[d].token = h.cmd.token}
      /\ g = [h EXCEPT !.step = "save", !.del = found]
  OBVIOUS
<1>1. /\ h \in Handler /\ h.step = "start" /\ Running(n) /\ h.cmd \in Invalids
      /\ OwnerOK(h)
      /\ h.alone => AloneOK(h)
  BY AtAlone DEF FindInvalid
<1>2. h.cmd \notin Upserts /\ h.cmd \notin SetMails
  BY <1>1, Types
<1>3. UNCHANGED <<email, device, faults>>
  BY DEF FindInvalid
<1>4. CASE Ends(n)
  BY <1>1, <1>4, AloneEnds
<1>5. CASE Becomes(n, g)
  <2>1. h.add = {} /\ ~h.insert
    BY <1>1 DEF OwnerOK
  <2>2. /\ g \in Handler /\ g.step = "save" /\ g.cmd = h.cmd /\ g.alone = h.alone
        /\ g.insert = h.insert /\ g.attempt = h.attempt /\ g.add = h.add /\ g.del = found
    BY <1>1 DEF Handler
  <2>3. h.alone => AloneOK(g)
    BY <1>1, <1>2, <2>1, <2>2 DEF AloneOK, OtherAlone
  <2> QED BY <1>1, <1>3, <1>5, <2>2, <2>3, AloneReads
<1> QED BY <1>4, <1>5 DEF FindInvalid

LEMMA AloneLoadUser ==
  ASSUME UInv, Alone, NEW n \in Handlers, LoadUser(n)
  PROVE  Alone'
<1> PICK h, u, copy, ins, upd, rer :
      /\ h = handler[n] /\ u = h.cmd.user
      /\ copy = IF h.cmd \in Upserts THEN Own(h.cmd) ELSE CopyOf(u)
      /\ ins = [h EXCEPT !.owner = u, !.copy = copy, !.step = "save", !.insert = TRUE,
                         !.del = {}, !.add = {d \in DeviceIds : copy[d] # None}]
      /\ upd = [h EXCEPT !.owner = u, !.copy = copy, !.step = "update"]
      /\ rer = [h EXCEPT !.owner = u, !.copy = copy, !.step = "reread"]
  OBVIOUS
<1>1. /\ h \in Handler /\ h.step = "load" /\ Running(n)
      /\ h.alone => AloneOK(h)
  BY AtAlone DEF LoadUser
<1>2. h.alone => ~h.insert /\ h.attempt <= 1 + faults
  BY <1>1 DEF AloneOK
<1>3. UNCHANGED <<email, device, faults>>
  BY DEF LoadUser
<1>4. u \in UserIds
  BY <1>1, LoadsAUser DEF UInv
<1>5. copy \in Copy
  BY <1>4, CopyOfUser, UpsertType, UpsertFields DEF Own, UInv
<1>6. Becomes(n, IF email[u] = "absent" THEN ins
                 ELSE IF h.cmd \in Fills THEN upd ELSE rer)
  <2>1. Becomes(n, IF email[u] = "absent"
                   THEN [[h EXCEPT !.owner = u, !.copy = copy]
                           EXCEPT !.step = "save", !.insert = TRUE, !.del = {},
                                  !.add = {d \in DeviceIds : copy[d] # None}]
                   ELSE [[h EXCEPT !.owner = u, !.copy = copy]
                           EXCEPT !.step = IF h.cmd \in Fills THEN "update" ELSE "reread"])
    BY DEF LoadUser, Own
  <2> QED BY <2>1, <1>1 DEF Handler
<1>7. CASE email[u] = "absent"
  <2>1. DevicesOf(u) = {}
    BY <1>4, <1>7, CopyOfUser DEF UInv
  <2>2. /\ ins \in Handler /\ ins.step = "save" /\ ins.owner = u /\ ins.copy = copy
        /\ ins.cmd = h.cmd /\ ins.insert /\ ins.del = {} /\ ins.alone = h.alone
        /\ ins.attempt = h.attempt /\ ins.before = h.before
        /\ ins.add = {d \in DeviceIds : copy[d] # None}
    BY <1>1, <1>4, <1>5 DEF Handler
  <2>3. ASSUME h.alone, h.cmd \in Upserts PROVE UpsertAlone(ins)
    <3>1. Compared(ins)
      BY <2>1, <2>2 DEF Compared
    <3>2. UpsertAlone(h)
      BY <1>1, <2>3 DEF AloneOK
    <3> QED BY <1>1, <2>2, <2>3, <3>1, <3>2 DEF UpsertAlone, OnOwn
  <2>4. ASSUME h.alone, h.cmd \notin Upserts PROVE OtherAlone(ins)
    <3>1. \A d \in DeviceIds : copy[d] = None
      BY <1>4, <2>1, <2>4, CopyOfUser DEF UInv
    <3> QED BY <1>1, <2>2, <2>4, <3>1 DEF AloneOK, OtherAlone
  <2>5. h.alone => AloneOK(ins)
    BY <1>2, <1>7, <2>2, <2>3, <2>4 DEF AloneOK
  <2>6. Becomes(n, ins)
    BY <1>6, <1>7
  <2> QED BY <1>1, <1>3, <2>2, <2>5, <2>6, AloneReads
<1>8. CASE email[u] # "absent" /\ h.cmd \in Fills
  <2>1. /\ upd \in Handler /\ upd.step = "update" /\ upd.cmd = h.cmd /\ upd.alone = h.alone
        /\ upd.attempt = h.attempt
    BY <1>1, <1>4, <1>5 DEF Handler
  <2>2. h.cmd \notin Upserts
    BY <1>8, Types
  <2>3. h.alone => AloneOK(upd)
    BY <1>1, <2>1, <2>2 DEF AloneOK, OtherAlone
  <2> QED BY <1>1, <1>3, <1>6, <1>8, <2>1, <2>3, AloneReads
<1>9. CASE email[u] # "absent" /\ h.cmd \notin Fills
  <2>1. /\ rer \in Handler /\ rer.step = "reread" /\ rer.owner = u /\ rer.copy = copy
        /\ rer.cmd = h.cmd /\ rer.insert = h.insert /\ rer.alone = h.alone
        /\ rer.attempt = h.attempt /\ rer.before = h.before
    BY <1>1, <1>4, <1>5 DEF Handler
  <2>2. ASSUME h.alone, h.cmd \in Upserts PROVE UpsertAlone(rer)
    <3>1. UpsertAlone(h)
      BY <1>1, <2>2 DEF AloneOK
    <3> QED BY <1>1, <2>1, <2>2, <3>1 DEF UpsertAlone, OnOwn
  <2>3. ASSUME h.alone, h.cmd \notin Upserts PROVE OtherAlone(rer)
    BY <1>1, <2>1, <2>3 DEF AloneOK, OtherAlone
  <2>4. h.alone => AloneOK(rer)
    BY <1>2, <2>1, <2>2, <2>3 DEF AloneOK
  <2> QED BY <1>1, <1>3, <1>6, <1>9, <2>1, <2>4, AloneReads
<1> QED BY <1>7, <1>8, <1>9

LEMMA AloneUpdateWithRelatedEntities ==
  ASSUME UInv, Alone, NEW n \in Handlers, UpdateWithRelatedEntities(n)
  PROVE  Alone'
<1> PICK h, del, add, g :
      /\ h = handler[n]
      /\ del = {d \in DevicesOf(h.owner) : h.copy[d] = None}
      /\ add = {d \in DeviceIds \ DevicesOf(h.owner) : h.copy[d] # None}
      /\ g = [h EXCEPT !.step = "save", !.del = del, !.add = add]
  OBVIOUS
<1>1. /\ h \in Handler /\ h.step = "reread" /\ Running(n) /\ OwnerOK(h)
      /\ h.alone => AloneOK(h)
  BY AtAlone DEF UpdateWithRelatedEntities
<1>2. UNCHANGED <<email, device, faults>> /\ Becomes(n, g)
  BY DEF UpdateWithRelatedEntities
<1>3. h.owner \in UserIds
  BY <1>1 DEF OwnerOK
<1>4. del \in SUBSET DeviceIds /\ add \in SUBSET DeviceIds
  BY DEF DevicesOf
<1>5. /\ g \in Handler /\ g.step = "save" /\ g.cmd = h.cmd /\ g.alone = h.alone
      /\ g.insert = h.insert /\ g.attempt = h.attempt /\ g.before = h.before
      /\ g.owner = h.owner /\ g.copy = h.copy /\ g.del = del /\ g.add = add
  BY <1>1, <1>4 DEF Handler
<1>6. ASSUME h.alone, h.cmd \in Upserts PROVE UpsertAlone(g)
  <2>1. Compared(g)
    BY <1>5 DEF Compared
  <2>2. UpsertAlone(h)
    BY <1>1, <1>6 DEF AloneOK
  <2> QED BY <1>1, <1>5, <2>1, <2>2 DEF UpsertAlone, OnOwn
<1>7. ASSUME h.alone, h.cmd \notin Upserts PROVE OtherAlone(g)
  <2>1. OtherAlone(h)
    BY <1>1, <1>7 DEF AloneOK
  <2>2. h.copy = CopyOf(h.owner)
    BY <1>1, <2>1 DEF OtherAlone
  <2>3. \A d \in DeviceIds : h.copy[d] # None <=> d \in DevicesOf(h.owner)
    BY <1>3, <2>2, CopyOfUser DEF UInv
  <2>4. DevicesOf(h.owner) \subseteq DeviceIds
    BY DEF DevicesOf
  <2>5. add = {} /\ del = {}
    BY <2>3, <2>4
  <2> QED BY <1>1, <1>5, <2>1, <2>5 DEF OtherAlone
<1>8. h.alone => AloneOK(g)
  BY <1>1, <1>5, <1>6, <1>7 DEF AloneOK
<1> QED BY <1>1, <1>2, <1>5, <1>8, AloneReads

-----------------------------------------------------------------------------
(* Failures and saves of a handler that runs alone                         *)

LEMMA AloneThrow ==
  ASSUME UInv, Alone, NEW n \in Handlers, Running(n), Throw(n), faults' \in Nat,
         NEW h, h = handler[n],
         h.alone => h.attempt <= faults',
         h.alone /\ h.cmd \notin Upserts => h.attempt + 1 <= faults',
         h.alone /\ h.cmd \in Upserts =>
           \A d \in DeviceIds : Goal(h.before, h.cmd, d) = Goal(device', h.cmd, d),
         h.alone /\ h.cmd \in Upserts /\ h.attempt + 1 > faults' => Few(h.cmd)'
  PROVE  Alone'
<1>1. handler[n] \in Handler
  BY DEF Running, UInv, TypeOK
<1>2. /\ h.cmd \in Command /\ h.attempt \in 0..MaxAttempts /\ h.attempt \in Nat
      /\ MaxAttempts \in Nat /\ h.alone \in BOOLEAN
  BY <1>1, UsersAssumption DEF Handler
<1>3. AfterThrow(n) \in Handler
  BY <1>1, ThrowType DEF UInv
<1> PICK g : g = AfterThrow(n)
  OBVIOUS
<1>4. g.alone = h.alone
  BY DEF AfterThrow, EndOf, Fresh
<1>5. ASSUME h.alone, g.step \notin {"over", "lost"} PROVE AloneOK(g)'
  <2>1. \A s : EndOf(n, s).step = s
    BY DEF EndOf, Fresh
  <2>2. g = Fresh(h.cmd, h.attempt + 1, h.before, h.alone)
    BY <1>5, <2>1 DEF AfterThrow
  <2>3. /\ g.cmd = h.cmd /\ g.attempt = h.attempt + 1 /\ g.before = h.before /\ ~g.insert
        /\ g.step = FirstStep(h.cmd)
    BY <2>2 DEF Fresh
  <2>4. g.attempt <= 1 + faults'
    BY <1>2, <1>5, <2>3
  <2>5. /\ g.step \in {"start", "load"}
        /\ h.cmd \in Upserts \cup SetMails => g.step = "start"
    BY <2>3, Types DEF FirstStep
  <2>6. CASE h.cmd \in Upserts
    <3>1. UpsertAlone(g)'
      BY <1>5, <2>3, <2>5, <2>6 DEF UpsertAlone, OnOwn
    <3> QED BY <2>3, <2>4, <2>5, <2>6, <3>1 DEF AloneOK
  <2>7. CASE h.cmd \notin Upserts
    <3>1. OtherAlone(g)'
      BY <1>5, <2>3, <2>5, <2>7 DEF OtherAlone
    <3> QED BY <2>3, <2>4, <2>5, <2>7, <3>1 DEF AloneOK
  <2> QED BY <2>6, <2>7
<1> QED BY <1>3, <1>4, <1>5, AloneStep DEF Throw, Becomes

LEMMA AloneCallFails ==
  ASSUME UInv, Alone, NEW n \in Handlers, CallFails(n)
  PROVE  Alone'
<1> PICK h, cmd : h = handler[n] /\ cmd = h.cmd
  OBVIOUS
<1>1. /\ Running(n) /\ Throw(n) /\ UNCHANGED <<email, device>>
      /\ faults \in Nat /\ faults' = faults + 1
  BY DEF CallFails, Fault, UInv, TypeOK
<1>2. h.attempt \in Nat
  BY <1>1, UsersAssumption DEF Running, UInv, TypeOK, Handler
<1>3. h.alone => AloneOK(h)
  BY <1>1 DEF Alone
<1>4. Few(cmd)' <=> Few(cmd)
  BY <1>1 DEF Few, Rivals, DevicesOf, Holds
<1>5. /\ h.alone => h.attempt <= faults'
      /\ h.alone /\ cmd \notin Upserts => h.attempt + 1 <= faults'
  BY <1>1, <1>2, <1>3 DEF AloneOK, OtherAlone
<1>6. h.alone /\ cmd \in Upserts => UpsertAlone(h)
  BY <1>3 DEF AloneOK
<1>7. h.alone /\ cmd \in Upserts =>
        \A d \in DeviceIds : Goal(h.before, cmd, d) = Goal(device', cmd, d)
  BY <1>1, <1>6 DEF UpsertAlone
<1>8. h.attempt + 1 > faults' => h.attempt > faults
  BY <1>1, <1>2
<1>9. h.alone /\ cmd \in Upserts /\ h.attempt + 1 > faults' => Few(cmd)'
  BY <1>4, <1>6, <1>8 DEF UpsertAlone
<1> QED BY <1>1, <1>5, <1>7, <1>9, AloneThrow

\* Only an UpsertDevice that has come to the user's own devices while somebody
\* else holds the device or the token can find itself in conflict.
LEMMA AloneConflict ==
  ASSUME UInv, NEW n \in Handlers, At(n, "save"), NEW h, h = handler[n], h \in Handler,
         AloneOK(h), Conflict(h)
  PROVE  h.cmd \in Upserts /\ OnOwn(h) /\ Rivals(h.cmd) # {}
<1>1. h.step = "save"
  BY DEF At
<1>2. ~(h.insert /\ email[h.owner] # "absent")
  BY <1>1 DEF AloneOK
<1>3. h.add \in SUBSET DeviceIds /\ TypeOK
  BY DEF Handler, UInv
<1>4. h.cmd \in Upserts
  <2> SUFFICES ASSUME h.cmd \notin Upserts PROVE FALSE
    OBVIOUS
  <2>1. h.add = {} /\ \A d \in h.del : device[d] # None
    BY <1>1 DEF AloneOK, OtherAlone
  <2> QED BY <1>2, <2>1 DEF Conflict
<1>5. UpsertAlone(h)
  BY <1>4 DEF AloneOK
<1>6. Compared(h)
  BY <1>1, <1>5 DEF UpsertAlone
<1>7. \A d \in h.del : device[d] # None
  BY <1>6 DEF Compared, DevicesOf
<1>8. PICK d \in h.add :
         \/ device[d] # None
         \/ \E e \in DeviceIds \ {d} : Saved(h)[e] # None /\ Saved(h)[e].token = h.copy[d]
  BY <1>2, <1>7 DEF Conflict
<1>9. CASE h.owner \in Rivals(h.cmd) /\ h.copy = Cleared(h.owner, h.cmd)
  BY <1>3, <1>4, <1>6, <1>8, <1>9, SavedCleared
<1>10. CASE h.owner = h.cmd.user /\ h.copy = Own(h.cmd)
  <2> PICK cmd, u, x : cmd = h.cmd /\ u = h.cmd.user /\ x = h.cmd.id
    OBVIOUS
  <2>1. /\ cmd \in Upserts /\ u \in UserIds /\ x \in DeviceIds /\ cmd.token # None
    BY <1>4, UpsertFields
  <2>2. /\ CopyOf(u) \in Copy
        /\ \A e \in DeviceIds : CopyOf(u)[e] # None <=> e \in DevicesOf(u)
        /\ \A e \in DevicesOf(u) : CopyOf(u)[e] = device[e].token
    BY <1>3, <2>1, CopyOfUser DEF DevicesOf
  <2>3. h.copy = UpsertDevice(CopyOf(u), x, cmd.token)
    BY <1>10 DEF Own
  <2>4. d \in DeviceIds /\ d \notin DevicesOf(u) /\ h.copy[d] # None
    BY <1>6, <1>8, <1>10 DEF Compared
  <2>5. d = x
    BY <2>1, <2>2, <2>3, <2>4 DEF UpsertDevice
  <2>6. \A e \in DeviceIds :
          h.copy[e] = IF e = x THEN cmd.token
                      ELSE IF CopyOf(u)[e] = cmd.token THEN None ELSE CopyOf(u)[e]
    BY <2>1, <2>2, <2>3, <2>4, <2>5 DEF UpsertDevice
  <2>7. OnOwn(h)
    BY <1>1, <1>10 DEF OnOwn
  <2>8. CASE device[d] # None
    <3>1. device[x].user # u
      BY <2>4, <2>5, <2>8 DEF DevicesOf
    <3> QED BY <1>3, <1>4, <2>1, <2>5, <2>7, <2>8, <3>1, HolderRivals
  <2>9. ASSUME NEW e \in DeviceIds \ {d}, Saved(h)[e] # None, Saved(h)[e].token = h.copy[d]
        PROVE  Rivals(cmd) # {}
    <3>1. h.copy[d] = cmd.token
      BY <2>4, <2>5, <2>6
    <3>2. e \notin h.add
      <4>1. e \notin DevicesOf(u) => h.copy[e] = None
        BY <2>1, <2>2, <2>5, <2>6, <2>9
      <4> QED BY <4>1, <1>6, <1>10 DEF Compared
    <3>3. e \notin h.del /\ Saved(h)[e] = device[e]
      BY <2>9, <3>2 DEF Saved
    <3>4. e \notin DevicesOf(u)
      <4> SUFFICES ASSUME e \in DevicesOf(u) PROVE FALSE
        OBVIOUS
      <4>1. CopyOf(u)[e] = cmd.token
        BY <2>2, <2>9, <3>1, <3>3
      <4>2. h.copy[e] = None
        BY <2>5, <2>6, <2>9, <4>1
      <4> QED BY <1>6, <1>10, <3>3, <4>2 DEF Compared
    <3>5. device[e].user # u
      BY <2>9, <3>3, <3>4 DEF DevicesOf
    <3> QED BY <1>3, <2>1, <2>9, <3>1, <3>3, <3>5, HolderRivals
  <2> QED BY <1>4, <1>8, <2>7, <2>8, <2>9
<1> QED BY <1>1, <1>5, <1>9, <1>10 DEF UpsertAlone

\* A save of an UpsertDevice leaves the rest to be done and makes nobody a rival;
\* the one that clears a rival clears all it has of the device and the token.
LEMMA UpsertCommit ==
  ASSUME UInv, NEW n \in Handlers, At(n, "save"), NEW h, h = handler[n], h \in Handler,
         AloneOK(h), h.cmd \in Upserts, Commit(h)
  PROVE  /\ \A d \in DeviceIds : Goal(device', h.cmd, d) = Goal(device, h.cmd, d)
         /\ Rivals(h.cmd)' \subseteq Rivals(h.cmd)
         /\ h.owner # h.cmd.user => /\ h.owner \in Rivals(h.cmd)
                                    /\ h.owner \notin Rivals(h.cmd)'
                                    /\ Known(h.cmd)' => Known(h.cmd)
                                    /\ ~h.insert /\ OnOwn(h) = FALSE
         /\ h.owner = h.cmd.user =>
              \A d \in DeviceIds : device'[d] = Goal(device, h.cmd, d)
<1>1. h.step = "save" /\ TypeOK /\ device \in Table
  BY DEF At, UInv, TypeOK
<1>2. UpsertAlone(h)
  BY DEF AloneOK
<1>3. Compared(h) /\ ~Conflict(h) /\ \A d \in DeviceIds : device'[d] = Saved(h)[d]
  BY <1>1, <1>2 DEF UpsertAlone, Commit
<1> PICK cmd, x, u : cmd = h.cmd /\ x = h.cmd.id /\ u = h.cmd.user
  OBVIOUS
<1>4. x \in DeviceIds
  BY UpsertFields
<1>5. CASE h.owner \in Rivals(cmd) /\ h.copy = Cleared(h.owner, cmd) /\ ~h.insert
  <2>1. h.owner # u
    BY <1>5 DEF Rivals
  <2>2. /\ h.del = {e \in DevicesOf(h.owner) : Holds(e, cmd)}
        /\ \A d \in DeviceIds : device'[d] = IF d \in h.del THEN None ELSE device[d]
    <3>1. \A d \in DeviceIds :
            /\ h.del = {e \in DevicesOf(h.owner) : Holds(e, cmd)}
            /\ Saved(h)[d] = IF d \in h.del THEN None ELSE device[d]
      BY <1>1, <1>3, <1>5, SavedCleared
    <3> QED BY <1>3, <1>4, <3>1
  <2>3. \A d \in h.del : /\ d \in DeviceIds /\ device[d] # None /\ device[d].user = h.owner
                         /\ d = x \/ device[d].token = cmd.token
    BY <2>2 DEF DevicesOf, Holds
  <2>4. \A d \in DeviceIds : Goal(device', cmd, d) = Goal(device, cmd, d)
    <3>1. \A d \in DeviceIds :
            \/ device'[d] = device[d]
            \/ /\ device'[d] = None /\ device[d] # None /\ device[d].user # cmd.user
               /\ d = cmd.id \/ device[d].token = cmd.token
      BY <2>1, <2>2, <2>3
    <3> QED BY <3>1, GoalCleared
  <2>5. \A v \in UserIds, d \in DeviceIds :
          d \in DevicesOf(v)' /\ Holds(d, cmd)' =>
            d \notin h.del /\ d \in DevicesOf(v) /\ Holds(d, cmd)
    BY <2>2 DEF DevicesOf, Holds
  <2>6. \A v : DevicesOf(v)' \subseteq DeviceIds
    BY DEF DevicesOf
  <2>7. Rivals(cmd)' \subseteq Rivals(cmd) /\ h.owner \notin Rivals(cmd)'
    BY <2>2, <2>5, <2>6 DEF Rivals
  <2>8. Known(cmd)' => Known(cmd)
    BY <1>4, <2>2 DEF Known
  <2> QED BY <1>1, <1>5, <2>1, <2>4, <2>7, <2>8 DEF OnOwn
<1>6. CASE h.owner = u /\ h.copy = Own(cmd)
  <2>1. \A d \in DeviceIds : device'[d] = Goal(device, cmd, d)
    <3>1. Known(cmd) => Rivals(cmd) = {}
      BY <1>1, <1>2, <1>6 DEF UpsertAlone, OnOwn
    <3> QED BY <1>1, <1>3, <1>6, <3>1, SavedOwn
  <2>2. \A d \in DeviceIds : Goal(device', cmd, d) = Goal(device, cmd, d)
    BY <1>1, <2>1, GoalTwice
  <2>3. \A d \in DeviceIds : device'[d] # None /\ device'[d].user # u => device'[d] = device[d]
    <3> SUFFICES ASSUME NEW d \in DeviceIds, device'[d] # None, device'[d].user # u
                 PROVE  device'[d] = device[d]
      OBVIOUS
    <3>1. [user |-> u, token |-> cmd.token].user = u
      OBVIOUS
    <3> QED BY <2>1, <3>1 DEF Goal
  <2>4. \A v \in UserIds \ {u}, d \in DeviceIds :
          d \in DevicesOf(v)' /\ Holds(d, cmd)' => d \in DevicesOf(v) /\ Holds(d, cmd)
    BY <2>3 DEF DevicesOf, Holds
  <2>5. \A v : DevicesOf(v)' \subseteq DeviceIds
    BY DEF DevicesOf
  <2>6. Rivals(cmd)' \subseteq Rivals(cmd)
    BY <2>4, <2>5 DEF Rivals
  <2> QED BY <1>6, <2>1, <2>2, <2>6
<1> QED BY <1>1, <1>2, <1>5, <1>6 DEF UpsertAlone

LEMMA AloneSaveUser ==
  ASSUME UInv, Alone, NEW n \in Handlers, SaveUser(n)
  PROVE  Alone'
<1> PICK h, cmd : h = handler[n] /\ cmd = h.cmd
  OBVIOUS
<1>1. /\ h \in Handler /\ h.step = "save" /\ Running(n) /\ At(n, "save")
      /\ h.attempt \in 0..MaxAttempts /\ h.attempt \in Nat
      /\ h.alone => AloneOK(h)
  BY AtAlone, UsersAssumption DEF SaveUser
<1>2. faults \in Nat
  BY DEF UInv, TypeOK
<1>3. /\ h.alone => h.attempt <= 1 + faults
      /\ h.alone /\ cmd \notin Upserts => h.attempt <= faults
      /\ h.alone /\ cmd \in Upserts => UpsertAlone(h)
  BY <1>1 DEF AloneOK, OtherAlone
<1>4. CASE Commit(h) /\ Becomes(n, AfterSave(n)) /\ UNCHANGED faults
  <2>1. CASE ~(cmd \in Upserts /\ h.owner # cmd.user)
    <3>1. Ends(n)
      BY <1>4, <2>1 DEF AfterSave, Ends
    <3> QED BY <1>1, <3>1, AloneEnds
  <2>2. CASE cmd \in Upserts /\ h.owner # cmd.user
    <3> PICK g : g = [h EXCEPT !.step = "load", !.owner = None, !.copy = NoCopy,
                               !.add = {}, !.del = {}]
      OBVIOUS
    <3>1. Becomes(n, g)
      BY <1>4, <2>2 DEF AfterSave
    <3>2. /\ g \in Handler /\ g.step = "load" /\ g.cmd = cmd /\ g.alone = h.alone
          /\ g.attempt = h.attempt /\ g.before = h.before /\ g.insert = h.insert
      BY <1>1 DEF Handler, NoCopy, Copy
    <3>3. ASSUME h.alone PROVE AloneOK(g)'
      <4>1. /\ \A d \in DeviceIds : Goal(device', cmd, d) = Goal(device, cmd, d)
            /\ Rivals(cmd)' \subseteq Rivals(cmd)
            /\ h.owner \in Rivals(cmd) /\ h.owner \notin Rivals(cmd)'
            /\ Known(cmd)' => Known(cmd)
            /\ ~h.insert
        BY <1>1, <1>4, <2>2, <3>3, UpsertCommit
      <4>2. UpsertAlone(h)
        BY <1>3, <2>2, <3>3
      <4>3. Few(cmd)'
        <5>1. \A v, w \in Rivals(cmd)' : v = w
          BY <2>2, <4>1, ThreeRivals DEF UInv
        <5> QED BY <5>1 DEF Few
      <4>4. h.attempt > faults' => Rivals(cmd)' = {}
        <5>1. h.attempt > faults' => Few(cmd)
          BY <1>4, <4>2 DEF UpsertAlone
        <5> QED BY <4>1, <5>1 DEF Few
      <4>5. Known(cmd)' => Rivals(cmd)' = {}
        BY <2>2, <4>1, ThreeRivals DEF UInv
      <4>6. \A d \in DeviceIds : Goal(h.before, cmd, d) = Goal(device', cmd, d)
        BY <4>1, <4>2 DEF UpsertAlone
      <4>7. UpsertAlone(g)'
        BY <3>2, <4>3, <4>4, <4>5, <4>6 DEF UpsertAlone
      <4> QED BY <1>3, <1>4, <2>2, <3>2, <3>3, <4>1, <4>7 DEF AloneOK
    <3> QED BY <1>1, <3>1, <3>2, <3>3, AloneStep
  <2> QED BY <2>1, <2>2
<1>5. CASE Commit(h) /\ Fault /\ Throw(n)
  <2>1. faults' = faults + 1
    BY <1>5 DEF Fault
  <2>2. ASSUME h.alone, cmd \in Upserts
        PROVE  /\ \A d \in DeviceIds : Goal(device', cmd, d) = Goal(device, cmd, d)
               /\ Rivals(cmd)' \subseteq Rivals(cmd)
    BY <1>1, <1>5, <2>2, UpsertCommit
  <2>3. h.alone /\ cmd \in Upserts =>
          \A d \in DeviceIds : Goal(h.before, cmd, d) = Goal(device', cmd, d)
    BY <1>3, <2>2 DEF UpsertAlone
  <2>4. h.attempt + 1 > faults' => h.attempt > faults
    BY <1>1, <1>2, <2>1
  <2>5. h.alone /\ cmd \in Upserts /\ h.attempt + 1 > faults' => Few(cmd)'
    <3>1. h.alone /\ cmd \in Upserts /\ h.attempt + 1 > faults' => Few(cmd)
      BY <1>3, <2>4 DEF UpsertAlone
    <3> QED BY <2>2, <3>1 DEF Few
  <2>6. /\ h.alone => h.attempt <= faults'
        /\ h.alone /\ cmd \notin Upserts => h.attempt + 1 <= faults'
    BY <1>1, <1>2, <1>3, <2>1
  <2> QED BY <1>1, <1>2, <1>5, <2>1, <2>3, <2>5, <2>6, AloneThrow
<1>6. CASE Conflict(h) /\ Throw(n) /\ UNCHANGED <<email, device, faults>>
  <2>1. h.alone => cmd \in Upserts /\ OnOwn(h) /\ Rivals(cmd) # {}
    BY <1>1, <1>6, AloneConflict
  <2>2. h.alone => Few(cmd) /\ ~(h.attempt > faults)
    BY <1>3, <2>1 DEF UpsertAlone
  <2>3. Few(cmd)' <=> Few(cmd)
    BY <1>6 DEF Few, Rivals, DevicesOf, Holds
  <2>4. h.alone => h.attempt <= faults'
    BY <1>1, <1>2, <1>6, <2>2
  <2>5. h.alone /\ cmd \in Upserts =>
          \A d \in DeviceIds : Goal(h.before, cmd, d) = Goal(device', cmd, d)
    BY <1>3, <1>6 DEF UpsertAlone
  <2> QED BY <1>1, <1>2, <1>6, <2>1, <2>2, <2>3, <2>4, <2>5, AloneThrow
<1> QED BY <1>4, <1>5, <1>6 DEF SaveUser

LEMMA AloneNext ==
  ASSUME UInv, Alone, [Next]_vars
  PROVE  Alone'
<1>1. ASSUME NEW n \in Handlers, NEW cmd \in Command, Deliver(n, cmd) PROVE Alone'
  BY <1>1, AloneDeliver
<1>2. ASSUME NEW n \in Handlers, NoUserInfo(n) PROVE Alone'
  <2>1. handler[n] \in Handler /\ Running(n) /\ Ends(n)
    BY <1>2, AtAlone DEF NoUserInfo
  <2> QED BY <2>1, AloneEnds
<1>3. ASSUME NEW n \in Handlers, UpdateAll(n) PROVE Alone'
  <2>1. handler[n] \in Handler /\ Running(n) /\ Ends(n)
    BY <1>3, AtAlone DEF UpdateAll
  <2> QED BY <2>1, AloneEnds
<1>4. ASSUME NEW n \in Handlers, Handle(n) PROVE Alone'
  BY <1>2, <1>3, <1>4, AloneFindOtherOwner, AloneCheckEmail, AloneFindInvalid, AloneLoadUser,
     AloneUpdateWithRelatedEntities, AloneSaveUser DEF Handle
<1>5. ASSUME NEW n \in Handlers, CallFails(n) PROVE Alone'
  BY <1>5, AloneCallFails
<1>6. CASE UNCHANGED vars
  <2>1. UNCHANGED <<email, device, handler, stale, faults>>
    BY <1>6 DEF vars
  <2> SUFFICES ASSUME NEW n \in Handlers, Running(n)', handler'[n].alone
               PROVE  /\ \A k \in Handlers \ {n} : ~Running(k)'
                      /\ AloneOK(handler[n])'
    BY DEF Alone
  <2>2. \A k \in Handlers : Running(k)' <=> Running(k)
    BY <2>1 DEF Running, Ended
  <2>3. (\A k \in Handlers \ {n} : ~Running(k)) /\ AloneOK(handler[n])
    BY <2>1, <2>2 DEF Alone
  <2> PICK g : g = handler[n]
    OBVIOUS
  <2>4. AloneOK(g)'
    BY <2>1, <2>3, AloneRead
  <2>5. AloneOK(handler[n])'
    BY <2>1, <2>4 DEF AloneOK, UpsertAlone, OtherAlone, Compared, OnOwn
  <2> QED BY <2>2, <2>3, <2>5
<1> QED BY <1>1, <1>4, <1>5, <1>6 DEF Next

LEMMA AloneInvariant == Spec => [](UInv /\ Alone)
<1>1. Init => Alone
  BY DEF Init, Alone, Running
<1>2. Alone /\ UInv /\ [Next]_vars => Alone'
  BY AloneNext
<1> QED BY <1>1, <1>2, UInvariant, PTL DEF Spec

-----------------------------------------------------------------------------
(* What the history variables of a command keep                            *)

\* A handler's command stays with it, and it runs alone no longer once it has
\* not; an UpsertDevice is over only by the save of the user's own devices.
Moves(n, g) ==
  /\ Becomes(n, g)
  /\ g.cmd = handler[n].cmd /\ g.alone = handler[n].alone /\ g.step # "idle"
  /\ handler[n].cmd \in Upserts /\ g.step = "over" =>
       /\ At(n, "save") /\ Commit(handler[n])
       /\ handler[n].owner = handler[n].cmd.user

LEMMA EndMoves ==
  ASSUME NEW n \in Handlers, Ends(n), handler[n].cmd \notin Upserts
  PROVE  \E g : Moves(n, g)
<1>1. /\ EndOf(n, "over").cmd = handler[n].cmd /\ EndOf(n, "over").alone = handler[n].alone
      /\ EndOf(n, "over").step # "idle"
  BY DEF EndOf, Fresh
<1> QED BY <1>1 DEF Moves, Ends

LEMMA ThrowMoves ==
  ASSUME NEW n \in Handlers, Throw(n)
  PROVE  \E g : Moves(n, g)
<1> PICK g : g = AfterThrow(n)
  OBVIOUS
<1>1. \A s : /\ EndOf(n, s).cmd = handler[n].cmd /\ EndOf(n, s).alone = handler[n].alone
             /\ EndOf(n, s).step = s
  BY DEF EndOf, Fresh
<1>2. \A a, b : LET f == Fresh(handler[n].cmd, a, b, handler[n].alone) IN
                /\ f.cmd = handler[n].cmd /\ f.alone = handler[n].alone
                /\ f.step \in {"start", "load"}
  BY DEF Fresh, FirstStep
<1>3. /\ g.cmd = handler[n].cmd /\ g.alone = handler[n].alone
      /\ g.step \in {"start", "load", "over", "lost"}
      /\ g.step = "over" => handler[n].cmd \in Fills
  BY <1>1, <1>2 DEF AfterThrow
<1>4. handler[n].cmd \in Fills => handler[n].cmd \notin Upserts
  BY Types
<1> QED BY <1>3, <1>4 DEF Moves, Throw, Becomes

LEMMA StepMoves ==
  ASSUME NEW n \in Handlers, NEW g, Becomes(n, g), g.cmd = handler[n].cmd,
         g.alone = handler[n].alone, g.step \in {"load", "reread", "save", "update"}
  PROVE  \E f : Moves(n, f)
BY DEF Moves

LEMMA HandleMoves ==
  ASSUME UInv, NEW n \in Handlers, Handle(n) \/ CallFails(n)
  PROVE  handler[n] # Idle /\ \E g : Moves(n, g)
<1>1. CASE FindOtherOwner(n)
  <2>1. handler[n] \in Handler /\ handler[n] # Idle
    BY <1>1, AtHandler DEF FindOtherOwner, UInv
  <2>2. \/ Becomes(n, [handler[n] EXCEPT !.step = "load"])
        \/ \E v, c : Becomes(n, [handler[n] EXCEPT !.step = "reread", !.owner = v, !.copy = c])
    BY <1>1 DEF FindOtherOwner
  <2>3. PICK v, c, g : /\ Becomes(n, g)
                       /\ \/ g = [handler[n] EXCEPT !.step = "load"]
                          \/ g = [handler[n] EXCEPT !.step = "reread", !.owner = v, !.copy = c]
    BY <2>2
  <2>4. /\ g.cmd = handler[n].cmd /\ g.alone = handler[n].alone
        /\ g.step \in {"load", "reread"}
    BY <2>1, <2>3 DEF Handler
  <2> QED BY <2>1, <2>3, <2>4, StepMoves
<1>2. CASE CheckEmail(n)
  <2>1. handler[n] \in Handler /\ handler[n] # Idle /\ handler[n].cmd \in SetMails
    BY <1>2, AtHandler DEF CheckEmail, UInv
  <2>2. handler[n].cmd \notin Upserts
    BY <2>1, Types
  <2>3. CASE Ends(n)
    BY <2>1, <2>2, <2>3, EndMoves
  <2>4. CASE Becomes(n, [handler[n] EXCEPT !.step = "load"])
    <3> PICK g : g = [handler[n] EXCEPT !.step = "load"]
      OBVIOUS
    <3>1. g.cmd = handler[n].cmd /\ g.alone = handler[n].alone /\ g.step = "load"
      BY <2>1 DEF Handler
    <3> QED BY <2>1, <2>4, <3>1, StepMoves
  <2> QED BY <1>2, <2>3, <2>4 DEF CheckEmail
<1>3. CASE FindInvalid(n)
  <2>1. handler[n] \in Handler /\ handler[n] # Idle /\ handler[n].cmd \in Invalids
    BY <1>3, AtHandler DEF FindInvalid, UInv
  <2>2. handler[n].cmd \notin Upserts
    BY <2>1, Types
  <2>3. CASE Ends(n)
    BY <2>1, <2>2, <2>3, EndMoves
  <2>4. CASE ~Ends(n)
    <3>1. PICK found, g : g = [handler[n] EXCEPT !.step = "save", !.del = found] /\ Becomes(n, g)
      BY <1>3, <2>4 DEF FindInvalid
    <3>2. g.cmd = handler[n].cmd /\ g.alone = handler[n].alone /\ g.step = "save"
      BY <2>1, <3>1 DEF Handler
    <3> QED BY <2>1, <3>1, <3>2, StepMoves
  <2> QED BY <2>3, <2>4
<1>4. CASE LoadUser(n)
  <2>1. handler[n] \in Handler /\ handler[n] # Idle
    BY <1>4, AtHandler DEF LoadUser, UInv
  <2> PICK h, copy : /\ h = handler[n]
                     /\ copy = IF h.cmd \in Upserts
                               THEN UpsertDevice(CopyOf(h.cmd.user), h.cmd.id, h.cmd.token)
                               ELSE CopyOf(h.cmd.user)
    OBVIOUS
  <2> PICK read : read = [h EXCEPT !.owner = h.cmd.user, !.copy = copy]
    OBVIOUS
  <2>2. Becomes(n, IF email[h.cmd.user] = "absent"
                   THEN [read EXCEPT !.step = "save", !.insert = TRUE, !.del = {},
                                     !.add = {d \in DeviceIds : copy[d] # None}]
                   ELSE [read EXCEPT !.step = IF h.cmd \in Fills THEN "update" ELSE "reread"])
    BY <1>4 DEF LoadUser
  <2>3. /\ read.cmd = h.cmd /\ read.alone = h.alone
        /\ DOMAIN read = {"step", "cmd", "attempt", "owner", "copy", "add", "del", "insert",
                          "before", "alone"}
    BY <2>1 DEF Handler
  <2>4. PICK g : /\ Becomes(n, g)
                 /\ g = IF email[h.cmd.user] = "absent"
                        THEN [read EXCEPT !.step = "save", !.insert = TRUE, !.del = {},
                                          !.add = {d \in DeviceIds : copy[d] # None}]
                        ELSE [read EXCEPT !.step = IF h.cmd \in Fills THEN "update" ELSE "reread"]
    BY <2>2
  <2>5. /\ g.cmd = h.cmd /\ g.alone = h.alone
        /\ g.step \in {"save", "update", "reread"}
    BY <2>3, <2>4
  <2> QED BY <2>1, <2>4, <2>5, StepMoves
<1>5. CASE NoUserInfo(n)
  <2>1. handler[n] # Idle /\ handler[n].cmd \notin Upserts /\ Ends(n)
    BY <1>5, Types DEF NoUserInfo, At
  <2> QED BY <2>1, EndMoves
<1>6. CASE UpdateWithRelatedEntities(n)
  <2>1. handler[n] \in Handler /\ handler[n] # Idle
    BY <1>6, AtHandler DEF UpdateWithRelatedEntities, UInv
  <2>2. PICK del, add, g : /\ Becomes(n, g)
                           /\ g = [handler[n] EXCEPT !.step = "save", !.del = del, !.add = add]
    BY <1>6 DEF UpdateWithRelatedEntities
  <2>3. g.cmd = handler[n].cmd /\ g.alone = handler[n].alone /\ g.step = "save"
    BY <2>1, <2>2 DEF Handler
  <2> QED BY <2>1, <2>2, <2>3, StepMoves
<1>7. CASE SaveUser(n)
  <2>1. handler[n] \in Handler /\ handler[n] # Idle /\ At(n, "save")
    BY <1>7, AtHandler DEF SaveUser, UInv
  <2>2. CASE Throw(n)
    BY <2>1, <2>2, ThrowMoves
  <2>3. CASE /\ Commit(handler[n]) /\ Becomes(n, AfterSave(n))
             /\ handler[n].cmd \in Upserts /\ handler[n].owner # handler[n].cmd.user
    <3>1. PICK g : /\ Becomes(n, g)
                   /\ g = [handler[n] EXCEPT !.step = "load", !.owner = None, !.copy = NoCopy,
                                             !.add = {}, !.del = {}]
      BY <2>3 DEF AfterSave
    <3>2. g.cmd = handler[n].cmd /\ g.alone = handler[n].alone /\ g.step = "load"
      BY <2>1, <3>1 DEF Handler
    <3> QED BY <2>1, <3>1, <3>2, StepMoves
  <2>4. CASE /\ Commit(handler[n]) /\ Becomes(n, AfterSave(n))
             /\ ~(handler[n].cmd \in Upserts /\ handler[n].owner # handler[n].cmd.user)
    <3>1. Becomes(n, EndOf(n, "over"))
      BY <2>4 DEF AfterSave
    <3>2. /\ EndOf(n, "over").cmd = handler[n].cmd
          /\ EndOf(n, "over").alone = handler[n].alone
          /\ EndOf(n, "over").step # "idle"
      BY DEF EndOf, Fresh
    <3> QED BY <2>1, <2>4, <3>1, <3>2 DEF Moves
  <2> QED BY <1>7, <2>2, <2>3, <2>4 DEF SaveUser
<1>8. CASE UpdateAll(n)
  <2>1. handler[n] \in Handler /\ handler[n] # Idle /\ handler[n].step = "update" /\ Ends(n)
    BY <1>8, AtHandler DEF UpdateAll, UInv
  <2>2. handler[n].cmd \notin Upserts
    BY <2>1, Types DEF UInv, Owners, OwnerOK
  <2> QED BY <2>1, <2>2, EndMoves
<1>9. CASE CallFails(n)
  BY <1>9, ThrowMoves DEF CallFails, Running
<1> QED BY <1>1, <1>2, <1>3, <1>4, <1>5, <1>6, <1>7, <1>8, <1>9 DEF Handle

\* In every step some handler moves, or a command is delivered, which ends
\* nobody's being with others.
LEMMA CommandsStay ==
  ASSUME UInv, Next, NEW n \in Handlers, handler[n] # Idle
  PROVE  /\ handler'[n] # Idle /\ handler'[n].cmd = handler[n].cmd
         /\ ~handler[n].alone => ~handler'[n].alone
<1>1. ASSUME NEW k \in Handlers, Handle(k) \/ CallFails(k)
      PROVE  /\ handler'[n] # Idle /\ handler'[n].cmd = handler[n].cmd
             /\ ~handler[n].alone => ~handler'[n].alone
  <2>1. PICK g : Moves(k, g)
    BY <1>1, HandleMoves
  <2>2. handler' = [handler EXCEPT ![k] = g]
    BY <2>1 DEF Moves, Becomes
  <2>3. handler'[n] = IF n = k THEN g ELSE handler[n]
    BY <2>2 DEF UInv, TypeOK
  <2>4. n = k => g.cmd = handler[n].cmd /\ g.alone = handler[n].alone /\ g.step # "idle"
    BY <2>1 DEF Moves
  <2>5. Idle.step = "idle"
    BY DEF Idle
  <2> QED BY <2>3, <2>4, <2>5
<1>2. ASSUME NEW k \in Handlers, NEW cmd \in Command, Deliver(k, cmd)
      PROVE  /\ handler'[n] # Idle /\ handler'[n].cmd = handler[n].cmd
             /\ ~handler[n].alone => ~handler'[n].alone
  <2>1. handler[n] \in Handler /\ n # k
    BY <1>2 DEF Deliver, UInv, TypeOK
  <2>2. handler'[n] = handler[n] \/ handler'[n] = [handler[n] EXCEPT !.alone = FALSE]
    BY <1>2, <2>1 DEF Deliver
  <2>3. [handler[n] EXCEPT !.alone = FALSE] \in Handler
    BY <2>1 DEF Handler
  <2>4. handler'[n] # Idle
    BY <2>1, <2>2, <2>3, NotIdle
  <2> QED BY <2>1, <2>2, <2>4 DEF Handler
<1> QED BY <1>1, <1>2 DEF Next

\* A retry is due to a fault, but for one: a command that no other overlaps fails
\* of itself at most once, on what a second rival holds, and never again.
THEOREM UsersRetryHeals == Spec => []OneRetryHeals
<1>1. Alone => OneRetryHeals
  BY DEF Alone, AloneOK, OneRetryHeals
<1> QED BY <1>1, AloneInvariant, PTL

\* An UpsertDevice that has run alone is over when it has done what there was to do.
LEMMA OverIsRegistered ==
  ASSUME UInv, Alone, [Next]_vars, NEW n \in Handlers, Running(n),
         handler[n].cmd \in Upserts, handler[n].alone, handler'[n].step = "over"
  PROVE  Registered(handler[n].before, device', handler[n].cmd)
<1> PICK h : h = handler[n]
  OBVIOUS
<1>1. h \in Handler /\ h.step # "over"
  BY DEF Running, Ended, UInv, TypeOK
<1>2. ASSUME NEW k \in Handlers, Handle(k) \/ CallFails(k)
      PROVE  At(n, "save") /\ Commit(h) /\ h.owner = h.cmd.user
  <2>1. PICK g : Moves(k, g)
    BY <1>2, HandleMoves
  <2>2. handler'[n] = IF n = k THEN g ELSE h
    BY <2>1 DEF Moves, Becomes, UInv, TypeOK
  <2>3. n = k /\ g.step = "over"
    BY <1>1, <2>2
  <2> QED BY <2>1, <2>3 DEF Moves
<1>3. ASSUME NEW k \in Handlers, NEW cmd \in Command, Deliver(k, cmd)
      PROVE  FALSE
  <2>1. n # k
    BY <1>3 DEF Deliver, Running
  <2>2. handler'[n] = h \/ handler'[n] = [h EXCEPT !.alone = FALSE]
    BY <1>3, <2>1 DEF Deliver
  <2> QED BY <1>1, <2>2 DEF Handler
<1>4. Next
  <2>1. ASSUME UNCHANGED vars PROVE FALSE
    BY <1>1, <2>1 DEF vars
  <2> QED BY <2>1
<1>5. At(n, "save") /\ Commit(h) /\ h.owner = h.cmd.user
  BY <1>2, <1>3, <1>4 DEF Next
<1>6. AloneOK(h) /\ UpsertAlone(h)
  BY DEF Alone, AloneOK
<1>7. \A d \in DeviceIds : device'[d] = Goal(device, h.cmd, d)
  BY <1>1, <1>5, <1>6, UpsertCommit
<1>8. \A d \in DeviceIds : device'[d] = Goal(h.before, h.cmd, d)
  BY <1>6, <1>7 DEF UpsertAlone
<1> QED BY <1>8, RegisteredGoal

\* Whatever failed on the way and whatever an earlier attempt has already saved,
\* an UpsertDevice that no other command overlaps ends with what it asks of the
\* table it found when it was delivered.
THEOREM UsersRegisters == Spec => RegistersAlone
<1>1. UInv /\ Alone /\ [Next]_vars =>
        [\A n \in Handlers :
           (/\ Running(n) /\ handler[n].cmd \in Upserts /\ handler[n].alone
            /\ handler'[n].step = "over")
             => Registered(handler[n].before, device', handler[n].cmd)]_vars
  BY OverIsRegistered
<1> QED BY <1>1, AloneInvariant, PTL DEF Spec, RegistersAlone

LEMMA SharedNext ==
  ASSUME UInv, Alone, SharedEmailExplained, [Next]_vars
  PROVE  SharedEmailExplained'
<1> DEFINE Witness(n) == /\ handler[n] # Idle
                         /\ \/ handler[n].cmd \in Fills
                            \/ handler[n].cmd \in SetMails /\ ~handler[n].alone
<1>1. \A n \in Handlers : Witness(n) => Witness(n)'
  <2>1. CASE Next
    BY <2>1, CommandsStay
  <2>2. CASE UNCHANGED vars
    BY <2>2 DEF vars
  <2> QED BY <2>1, <2>2
<1> SUFFICES ASSUME NEW u \in UserIds, NEW v \in UserIds, u # v,
                    email'[u] \in Emails, email'[u] = email'[v],
                    \A n \in Handlers : ~Witness(n)
             PROVE  FALSE
  BY <1>1 DEF SharedEmailExplained
<1>2. ~(email[u] \in Emails /\ email[u] = email[v])
  BY DEF SharedEmailExplained
<1>3. email' # email
  BY <1>2
<1>4. PICK n \in Handlers : SaveUser(n) \/ UpdateAll(n)
  BY <1>3 DEF Next, Deliver, CallFails, Handle, FindOtherOwner, CheckEmail, FindInvalid, LoadUser,
              NoUserInfo, UpdateWithRelatedEntities, vars
<1>5. CASE UpdateAll(n)
  <2>1. handler[n] # Idle /\ handler[n].cmd \in Fills
    BY <1>5, AtHandler DEF UpdateAll, UInv, Owners, OwnerOK
  <2> QED BY <2>1
<1>6. CASE SaveUser(n)
  <2> PICK h : h = handler[n]
    OBVIOUS
  <2>1. /\ h \in Handler /\ h # Idle /\ h.step = "save" /\ OwnerOK(h)
        /\ h.cmd \in Command /\ Running(n)
        /\ h.alone => AloneOK(h)
    BY <1>6, AtAlone DEF SaveUser
  <2>2. h.insert /\ email' = [email EXCEPT ![h.owner] = FirstEmail(h.cmd)]
    BY <1>3, <1>6 DEF SaveUser, Commit
  <2>3. h.owner \in UserIds
    BY <2>1, <2>2 DEF OwnerOK
  <2>4. \A w \in UserIds : email'[w] = IF w = h.owner THEN FirstEmail(h.cmd) ELSE email[w]
    BY <2>2 DEF UInv, TypeOK
  <2>5. FirstEmail(h.cmd) \in Emails
    BY <1>2, <2>4
  <2>6. h.cmd \notin Fills
    BY <2>1
  <2>7. h.cmd \in SetMails /\ FirstEmail(h.cmd) = h.cmd.email
    BY <2>5, <2>6, UsersAssumption DEF FirstEmail
  <2>8. h.alone
    BY <2>1, <2>7
  <2>9. h.cmd \notin Upserts
    BY <2>7, Types
  <2>10. ~IsExistByEmail(h.cmd.email, h.cmd.user) /\ h.owner = h.cmd.user
    BY <2>1, <2>2, <2>7, <2>8, <2>9 DEF AloneOK, OtherAlone
  <2>11. \A w \in UserIds \ {h.owner} : email[w] # FirstEmail(h.cmd)
    BY <2>7, <2>10 DEF IsExistByEmail
  <2> QED BY <1>2, <2>4, <2>11
<1> QED BY <1>4, <1>5, <1>6

\* For any number of users, addresses and commands: an address that two users
\* share was brought by the identity service, whose handler does not ask, or by a
\* SetUserEmail that another command overlapped.
THEOREM UsersSharedEmail == Spec => []SharedEmailExplained
<1>1. Init => SharedEmailExplained
  BY DEF Init, SharedEmailExplained
<1>2. UInv /\ Alone /\ SharedEmailExplained /\ [Next]_vars => SharedEmailExplained'
  BY SharedNext
<1> QED BY <1>1, <1>2, AloneInvariant, PTL DEF Spec
=============================================================================
