------------------------------- MODULE Users --------------------------------
(***************************************************************************)
(* Users and their devices.  Five commands change them; their consumers    *)
(* run concurrently and each handler is a sequence of queries followed by  *)
(* one or two saves.  BaseRepository.UpdateWithRelatedEntities decides what*)
(* to insert and delete by comparing the copy the handler has changed with *)
(* a second, later read.  Both reads are AsNoTracking, and EF Core ignores *)
(* what SetValues writes to an object it does not track: such an update    *)
(* inserts and deletes devices, but changes no column of a row that stays. *)
(***************************************************************************)
EXTENDS Naturals, FiniteSets

CONSTANTS
  UserIds,      \* users
  DeviceIds,    \* device ids, chosen by the clients
  Tokens,       \* notification tokens
  Emails,       \* e-mail addresses
  Handlers,     \* one per delivered command; bounds the number of commands
  MaxAttempts,  \* retries of one delivery (LongRetry: 20 in the code)
  MaxFaults,    \* bound: failing queries and saves
  None          \* null

ASSUME UsersAssumption ==
  /\ None \notin UserIds \cup Tokens \cup Emails \cup {"absent"}
  /\ "absent" \notin Emails
  /\ MaxAttempts \in Nat /\ MaxFaults \in Nat

VARIABLES
  email,    \* Users table: the e-mail of each user, None, or "absent" (no row)
  device,   \* Devices table: owner and token of each device id, or None
  handler,  \* progress of each delivered command
  stale,    \* history: devices whose row changed since a handler read it
  faults    \* faults injected so far

vars == <<email, device, handler, stale, faults>>

Device == [user : UserIds, token : Tokens]

Table == [DeviceIds -> Device \cup {None}]

\* A copy of User.Devices: the token of each device in the list, or None.
Copy == [DeviceIds -> Tokens \cup {None}]

Upserts  == [type : {"UpsertDevice"}, user : UserIds, id : DeviceIds, token : Tokens]
SetMails == [type : {"SetUserEmail"}, user : UserIds, email : Emails]
Phones   == [type : {"SetUserPhoneNumber"}, user : UserIds]
Fills    == [type : {"FillUserInfo"}, user : UserIds, email : Emails \cup {None}]
Invalids == [type : {"InvalidDevice"}, token : Tokens]

Command == Upserts \cup SetMails \cup Phones \cup Fills \cup Invalids

\* owner, copy: the user a handler has read and its changed device list;
\* add, del: the device rows the next save inserts and deletes; insert: it also
\* inserts the user.  before and alone are history: the table when the command
\* was delivered, and whether no other handler has run meanwhile.
Handler == [step : {"start", "load", "reread", "save", "update", "over", "lost"},
            cmd : Command, attempt : 0..MaxAttempts, owner : UserIds \cup {None},
            copy : Copy, add : SUBSET DeviceIds, del : SUBSET DeviceIds,
            insert : BOOLEAN, before : Table, alone : BOOLEAN]

Idle == [step |-> "idle"]

Ended(n) == handler[n].step \in {"over", "lost"}

Running(n) == handler[n] # Idle /\ ~Ended(n)

NoCopy == [d \in DeviceIds |-> None]

DevicesOf(u) == {d \in DeviceIds : device[d] # None /\ device[d].user = u}

CopyOf(u) == [d \in DeviceIds |-> IF d \in DevicesOf(u) THEN device[d].token ELSE None]

\* What the database promises: tokens are unique and owners exist.
Consistent(table, mail) ==
  /\ \A d \in DeviceIds : table[d] # None => mail[table[d].user] # "absent"
  /\ \A d, e \in DeviceIds :
        table[d] # None /\ table[e] # None /\ table[d].token = table[e].token => d = e

TypeOK ==
  /\ email \in [UserIds -> Emails \cup {None, "absent"}]
  /\ device \in Table
  /\ handler \in [Handlers -> Handler \cup {Idle}]
  /\ stale \in [Handlers -> SUBSET DeviceIds]
  /\ faults \in Nat
  /\ Consistent(device, email)

\* Any consistent content that handled commands can have left behind.
Init ==
  /\ email \in [UserIds -> Emails \cup {None, "absent"}]
  /\ \A u, v \in UserIds : email[u] \in Emails /\ email[u] = email[v] => u = v
  /\ device \in Table
  /\ Consistent(device, email)
  /\ handler = [n \in Handlers |-> Idle]
  /\ stale = [n \in Handlers |-> {}]
  /\ faults = 0

-----------------------------------------------------------------------------
(* MassTransit and failures                                                *)

FirstStep(cmd) == IF cmd \in Phones \cup Fills THEN "load" ELSE "start"

Fresh(cmd, attempt, before, alone) ==
  [step |-> FirstStep(cmd), cmd |-> cmd, attempt |-> attempt, owner |-> None,
   copy |-> NoCopy, add |-> {}, del |-> {}, insert |-> FALSE,
   before |-> before, alone |-> alone]

\* A consumer starts on a command; from now on it and the ones that run overlap.
Deliver(n, cmd) ==
  /\ handler[n] = Idle
  /\ LET others == {k \in Handlers : Running(k)} IN
     handler' = [k \in Handlers |->
                   IF k = n THEN Fresh(cmd, 0, device, others = {})
                   ELSE IF k \in others THEN [handler[k] EXCEPT !.alone = FALSE]
                   ELSE handler[k]]
  /\ UNCHANGED <<email, device, stale, faults>>

\* A handler has ended: what it held is forgotten, its command is kept.
EndOf(n, step) ==
  [Fresh(handler[n].cmd, 0, NoCopy, handler[n].alone) EXCEPT !.step = step]

\* FillUserInfo logs and swallows; every other exception is retried from the
\* beginning with a new scope, and the command is discarded in the end.
AfterThrow(n) ==
  LET h == handler[n] IN
  CASE h.cmd \in Fills -> EndOf(n, "over")
    [] h.cmd \notin Fills /\ h.attempt < MaxAttempts ->
         Fresh(h.cmd, h.attempt + 1, h.before, h.alone)
    [] OTHER -> EndOf(n, "lost")

Throw(n) == handler' = [handler EXCEPT ![n] = AfterThrow(n)]

Fault == faults < MaxFaults /\ faults' = faults + 1

At(n, step) == handler[n] # Idle /\ handler[n].step = step

Becomes(n, h) == handler' = [handler EXCEPT ![n] = h]

Ends(n) == Becomes(n, EndOf(n, "over"))

\* What a handler has read is up to date now, until the next save touches it.
Reads(n) == stale' = [stale EXCEPT ![n] = {}]

Touches ==
  stale' = [n \in Handlers |->
              IF Running(n) THEN stale[n] \cup {d \in DeviceIds : device'[d] # device[d]}
              ELSE {}]

\* A query or a save fails, or the process stops and the delivery comes back.
CallFails(n) ==
  /\ Running(n)
  /\ Fault
  /\ Throw(n)
  /\ UNCHANGED <<email, device, stale>>

-----------------------------------------------------------------------------
(* The handlers' queries                                                   *)

HoldsId(d, cmd) == device[d] # None /\ d = cmd.id

Holds(d, cmd) == device[d] # None /\ (d = cmd.id \/ device[d].token = cmd.token)

\* GetByDeviceIdOrFirebaseTokenNotUserIdAsync returns one of the other users
\* that have the device or the token; RemoveDevice drops both from its copy.
FindOtherOwner(n) ==
  LET h == handler[n]
      others == {v \in UserIds \ {h.cmd.user} : \E d \in DevicesOf(v) : Holds(d, h.cmd)}
  IN
  /\ At(n, "start") /\ h.cmd \in Upserts
  /\ \/ others = {} /\ Becomes(n, [h EXCEPT !.step = "load"])
     \/ \E v \in others :
          Becomes(n, [h EXCEPT !.step = "reread", !.owner = v,
                        !.copy = [d \in DeviceIds |->
                                    IF Holds(d, h.cmd) THEN None ELSE CopyOf(v)[d]]])
  /\ Reads(n)
  /\ UNCHANGED <<email, device, faults>>

IsExistByEmailUnasked(e, u) == FALSE

\* IsExistByEmailNotUserIdAsync.
IsExistByEmail(e, u) == \E v \in UserIds \ {u} : email[v] = e

\* An address in use ends the handler of SetUserEmail.
CheckEmail(n) ==
  LET h == handler[n] IN
  /\ At(n, "start") /\ h.cmd \in SetMails
  /\ IF IsExistByEmail(h.cmd.email, h.cmd.user) THEN Ends(n)
     ELSE Becomes(n, [h EXCEPT !.step = "load"])
  /\ UNCHANGED <<email, device, stale, faults>>

\* DeleteDeviceByToken: the row is found and marked, the save deletes it.
FindInvalid(n) ==
  LET h == handler[n]
      found == {d \in DeviceIds : device[d] # None /\ device[d].token = h.cmd.token}
  IN
  /\ At(n, "start") /\ h.cmd \in Invalids
  /\ IF found = {} THEN Ends(n)
     ELSE Becomes(n, [h EXCEPT !.step = "save", !.del = found])
  /\ Reads(n)
  /\ UNCHANGED <<email, device, faults>>

UpsertDeviceOnly(copy, id, token) ==
  [d \in DeviceIds |-> IF d = id THEN token ELSE None]

\* User.UpsertDevice on a copy: a device the user already has gets the token,
\* whoever else has it; a new device replaces the one with its token.
UpsertDevice(copy, id, token) ==
  IF copy[id] # None THEN [copy EXCEPT ![id] = token]
  ELSE [d \in DeviceIds |-> IF d = id THEN token
                            ELSE IF copy[d] = token THEN None ELSE copy[d]]

\* GetAsync and the change of the copy; an unknown user is created by the save.
LoadUser(n) ==
  LET h == handler[n]
      u == h.cmd.user
      copy == IF h.cmd \in Upserts THEN UpsertDevice(CopyOf(u), h.cmd.id, h.cmd.token)
              ELSE CopyOf(u)
      read == [h EXCEPT !.owner = u, !.copy = copy]
  IN
  /\ At(n, "load")
  /\ Becomes(n, IF email[u] = "absent"
                THEN [read EXCEPT !.step = "save", !.insert = TRUE, !.del = {},
                                  !.add = {d \in DeviceIds : copy[d] # None}]
                ELSE [read EXCEPT !.step = IF h.cmd \in Fills THEN "update" ELSE "reread"])
  /\ Reads(n)
  /\ UNCHANGED <<email, device, faults>>

\* GetUserInfo: the identity service does not answer.
NoUserInfo(n) ==
  /\ At(n, "load") /\ handler[n].cmd \in Fills
  /\ Ends(n)
  /\ UNCHANGED <<email, device, stale, faults>>

\* UpdateWithRelatedEntities: the second read, and what it makes of the copy.
UpdateWithRelatedEntities(n) ==
  LET h == handler[n]
      inDb == DevicesOf(h.owner)
  IN
  /\ At(n, "reread")
  /\ Becomes(n, [h EXCEPT !.step = "save",
                          !.del = {d \in inDb : h.copy[d] = None},
                          !.add = {d \in DeviceIds \ inDb : h.copy[d] # None}])
  /\ UNCHANGED <<email, device, stale, faults>>

-----------------------------------------------------------------------------
(* Saves                                                                   *)

\* The devices after a save; a deleted row is named by its id alone.
Saved(h) ==
  [d \in DeviceIds |-> IF d \in h.add THEN [user |-> h.owner, token |-> h.copy[d]]
                       ELSE IF d \in h.del THEN None ELSE device[d]]

\* The first e-mail of a new user: SetUserEmail and FillUserInfo bring one.
FirstEmail(cmd) == IF cmd \in SetMails \cup Fills THEN cmd.email ELSE None

ConflictWithoutIndex(h) ==
  \/ h.insert /\ email[h.owner] # "absent"
  \/ \E d \in h.del : device[d] = None
  \/ \E d \in h.add : device[d] # None

\* The transaction fails on a deleted row that is gone, an inserted row that
\* exists, or a token in use.
Conflict(h) ==
  \/ h.insert /\ email[h.owner] # "absent"
  \/ \E d \in h.del : device[d] = None
  \/ \E d \in h.add : device[d] # None
  \/ \E d \in h.add : \E e \in DeviceIds \ {d} :
        Saved(h)[e] # None /\ Saved(h)[e].token = h.copy[d]

Commit(h) ==
  /\ ~Conflict(h)
  /\ device' = Saved(h)
  /\ email' = IF h.insert THEN [email EXCEPT ![h.owner] = FirstEmail(h.cmd)] ELSE email

AfterSaveOver(n) == EndOf(n, "over")

\* The save on the other user's behalf is followed by the user's own.
AfterSave(n) ==
  LET h == handler[n] IN
  IF h.cmd \in Upserts /\ h.owner # h.cmd.user
  THEN [h EXCEPT !.step = "load", !.owner = None, !.copy = NoCopy, !.add = {}, !.del = {}]
  ELSE EndOf(n, "over")

SaveUser(n) ==
  LET h == handler[n] IN
  /\ At(n, "save")
  /\ \/ Commit(h) /\ Becomes(n, AfterSave(n)) /\ UNCHANGED faults
     \/ Commit(h) /\ Fault /\ Throw(n)
     \/ Conflict(h) /\ Throw(n) /\ UNCHANGED <<email, device, faults>>
  /\ Touches

\* FillUserInfo's Update(user): every column of the user and of the devices
\* it has read is written; a missing row or a token in use makes it fail.
UpdateAll(n) ==
  LET h == handler[n]
      kept == {d \in DeviceIds : h.copy[d] # None}
      table == [d \in DeviceIds |->
                  IF d \in kept THEN [user |-> h.owner, token |-> h.copy[d]] ELSE device[d]]
  IN
  /\ At(n, "update")
  /\ IF (\A d \in kept : device[d] # None)
        /\ \A d \in kept : \A e \in DeviceIds \ {d} :
              table[e] # None => table[e].token # table[d].token
     THEN /\ device' = table
          /\ email' = [email EXCEPT ![h.owner] = h.cmd.email]
     ELSE UNCHANGED <<email, device>>
  /\ Ends(n) /\ Touches
  /\ UNCHANGED faults

-----------------------------------------------------------------------------

Handle(n) ==
  \/ FindOtherOwner(n) \/ CheckEmail(n) \/ FindInvalid(n)
  \/ LoadUser(n) \/ NoUserInfo(n) \/ UpdateWithRelatedEntities(n)
  \/ SaveUser(n) \/ UpdateAll(n)

Next ==
  \E n \in Handlers :
    \/ \E cmd \in Command : Deliver(n, cmd)
    \/ Handle(n) \/ CallFails(n)

Spec == Init /\ [][Next]_vars

-----------------------------------------------------------------------------
(* Properties                                                              *)

\* The devices a command names: by id or by the token they now have.
Names(cmd, d) ==
  \/ cmd \in Upserts /\ (d = cmd.id \/ (device[d] # None /\ device[d].token = cmd.token))
  \/ cmd \in Invalids /\ device[d] # None /\ device[d].token = cmd.token

\* However handlers interleave, a handler changes the row of a device its
\* command does not name only if that row has changed since the handler read it:
\* nobody loses a device to a stranger's command except in the window between
\* the stranger's first read and its save.
StrangersOnlyIfStale ==
  [][\A n \in Handlers, d \in DeviceIds :
       handler'[n] # handler[n] /\ device'[d] # device[d] /\ ~Names(handler[n].cmd, d)
         => d \in stale[n]]_vars

\* An UpsertDevice that runs alone, retries included, does exactly this: the
\* device is the user's with that token, every other holder of the token has
\* lost it, and nothing else has changed.  The exception is a device the user
\* already had: its new token is not stored, and another of the user's own
\* devices keeps the token.
Registered(b, t, cmd) ==
  LET known == b[cmd.id] # None /\ b[cmd.id].user = cmd.user IN
  \A d \in DeviceIds :
    t[d] = IF d = cmd.id
           THEN IF known THEN b[d] ELSE [user |-> cmd.user, token |-> cmd.token]
           ELSE IF /\ b[d] # None /\ b[d].token = cmd.token
                   /\ ~(known /\ b[d].user = cmd.user) THEN None
           ELSE b[d]

RegistersAlone ==
  [][\A n \in Handlers :
       (/\ Running(n) /\ handler[n].cmd \in Upserts /\ handler[n].alone
        /\ handler'[n].step = "over")
         => Registered(handler[n].before, device', handler[n].cmd)]_vars

\* Two users share an e-mail address only after a FillUserInfo, which does not
\* check, or after a SetUserEmail that did not run alone.
SharedEmailExplained ==
  (\E u, v \in UserIds : u # v /\ email[u] \in Emails /\ email[u] = email[v])
    => \E n \in Handlers :
         /\ handler[n] # Idle
         /\ \/ handler[n].cmd \in Fills
            \/ handler[n].cmd \in SetMails /\ ~handler[n].alone

\* The device and the token may belong to two other users, of whom one attempt
\* clears only the first it finds: the attempt fails on the unique index and the
\* next one clears the other, so a command that runs alone needs one retry.
OneRetryHeals ==
  \A n \in Handlers : Running(n) /\ handler[n].alone => handler[n].attempt <= 1 + faults
=============================================================================
