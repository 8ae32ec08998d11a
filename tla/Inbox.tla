------------------------------- MODULE Inbox --------------------------------
(***************************************************************************)
(* The inbox part of a message: SendNotificationMessageConsumer stores it  *)
(* in the inbox of one user and application, counts it in a cache, and     *)
(* saves the row of the message.  The first message of an inbox is         *)
(* committed together with the inbox inside the repository, before the     *)
(* counter and the row; every later one is committed with the row.  The    *)
(* commands and queries of Application.Service/Inbox have no caller, since *)
(* their controller is commented out, so nothing else touches this state.  *)
(***************************************************************************)
EXTENDS Naturals, FiniteSets

CONSTANTS
  Letters,         \* messages with an inbox part, all for one user and application
  Unaddressed,     \* those whose row has no UserId or no AppName
  Checked,         \* those that have a validator
  Consumers,       \* concurrent consumers
  InboxRetries,    \* retries of one delivery (ShortRetry: 3 in the code)
  MaxInboxFaults,  \* bound: failures
  NoLetter         \* no message; also a missing cache entry

ASSUME InboxAssumption ==
  /\ Unaddressed \subseteq Letters /\ Checked \subseteq Letters
  /\ NoLetter \notin Letters \cup Nat
  /\ InboxRetries \in Nat /\ MaxInboxFaults \in Nat

VARIABLES
  known,        \* the user has a row
  inbox,        \* the user has an Inbox row
  stored,       \* InboxMessages rows
  status,       \* NotificationStatus of each message
  unread,       \* cached counter, or NoLetter
  commands,     \* copies of SendNotificationMessage in the queue, per message
  consumer,     \* what each consumer is doing
  inboxFaults,  \* failures so far
  homeless,     \* history: messages handled while the user had no row
  exact         \* history: nothing has disturbed the counter

inboxVars == <<known, inbox, stored, status, unread, commands, consumer,
               inboxFaults, homeless, exact>>

Status == {"Pending", "Sended", "InvalidDeny"}

Counter == Nat \cup {NoLetter}

\* staged: the message waits in the change tracker; count: the counter read;
\* verdict: the status the consumer's copy of the row has.
Consumer == [step : {"load", "find", "insert", "get", "remove", "set", "save"},
             letter : Letters, attempt : 0..InboxRetries, staged : BOOLEAN,
             count : Counter, verdict : Status]

Waiting == [step |-> "waiting"]

InboxTypeOK ==
  /\ known \in BOOLEAN /\ inbox \in BOOLEAN /\ exact \in BOOLEAN
  /\ stored \subseteq Letters /\ homeless \subseteq Letters
  /\ status \in [Letters -> Status]
  /\ unread \in Counter
  /\ commands \in [Letters -> Nat]
  /\ consumer \in [Consumers -> Consumer \cup {Waiting}]
  /\ inboxFaults \in 0..MaxInboxFaults
  /\ inbox => known
  /\ stored # {} => inbox

InboxInit ==
  /\ known = FALSE /\ inbox = FALSE /\ stored = {}
  /\ status = [m \in Letters |-> "Pending"]
  /\ unread = NoLetter
  /\ commands = [m \in Letters |-> 1]
  /\ consumer = [c \in Consumers |-> Waiting]
  /\ inboxFaults = 0 /\ homeless = {} /\ exact = TRUE

-----------------------------------------------------------------------------
(* MassTransit and failures                                                *)

Opened(m, attempt) ==
  [step |-> "load", letter |-> m, attempt |-> attempt, staged |-> FALSE,
   count |-> NoLetter, verdict |-> "Pending"]

Stands(c, step) == consumer[c].step = step

Goes(c, k) == consumer' = [consumer EXCEPT ![c] = k]

Closes(c) == Goes(c, Waiting)

\* ShortRetry, then DiscardFaultedMessages: the consumer starts again or gives up.
Retried(c) ==
  LET k == consumer[c] IN
  IF k.attempt < InboxRetries THEN Goes(c, Opened(k.letter, k.attempt + 1))
  ELSE Closes(c)

InboxFault ==
  /\ inboxFaults < MaxInboxFaults
  /\ inboxFaults' = inboxFaults + 1

\* A consumer between its read and its write of the counter.
Counting(c) == consumer[c].step \in {"remove", "set"}

TakeLetter(c, m) ==
  /\ consumer[c] = Waiting /\ commands[m] > 0
  /\ commands' = [commands EXCEPT ![m] = @ - 1]
  /\ Goes(c, Opened(m, 0))
  /\ UNCHANGED <<known, inbox, stored, status, unread, inboxFaults, homeless, exact>>

\* A query, a cache call or a save fails before it has done anything.
LetterCallFails(c) ==
  /\ consumer[c] # Waiting
  /\ InboxFault /\ Retried(c) /\ exact' = FALSE
  /\ UNCHANGED <<known, inbox, stored, status, unread, commands, homeless>>

\* The broker hands the command out again; a crash also ends the consumer.
LetterReturns(c) ==
  /\ consumer[c] # Waiting
  /\ InboxFault /\ exact' = FALSE
  /\ commands' = [commands EXCEPT ![consumer[c].letter] = @ + 1]
  /\ Closes(c) \/ UNCHANGED consumer
  /\ UNCHANGED <<known, inbox, stored, status, unread, homeless>>

\* The user's first device, e-mail or phone number creates the row.
UserAppears ==
  /\ ~known /\ known' = TRUE
  /\ UNCHANGED <<inbox, stored, status, unread, commands, consumer, inboxFaults,
                 homeless, exact>>

\* The counter expires six hours after it was last written.
CounterExpires ==
  /\ unread # NoLetter /\ unread' = NoLetter /\ exact' = FALSE
  /\ UNCHANGED <<known, inbox, stored, status, commands, consumer, inboxFaults, homeless>>

-----------------------------------------------------------------------------
(* SendNotificationMessageConsumer                                         *)

\* The row and the validators' answer; a refused message is only saved.
LoadLetter(c) ==
  LET k == consumer[c] IN
  /\ Stands(c, "load")
  /\ \/ k.letter \in Unaddressed /\ Closes(c)
     \/ k.letter \notin Unaddressed /\ Goes(c, [k EXCEPT !.step = "find"])
     \/ /\ k.letter \in Checked \ Unaddressed
        /\ Goes(c, [k EXCEPT !.step = "save", !.verdict = "InvalidDeny"])
  /\ UNCHANGED <<known, inbox, stored, status, unread, commands, inboxFaults,
                 homeless, exact>>

\* AddMessageToUserInbox, queries.  An inbox that has the message makes Add
\* throw; without a user row the message goes nowhere, but counts as sent.
FindInbox(c) ==
  LET k == consumer[c] IN
  /\ Stands(c, "find")
  /\ \/ inbox /\ k.letter \in stored /\ Retried(c) /\ UNCHANGED homeless
     \/ /\ inbox /\ k.letter \notin stored
        /\ Goes(c, [k EXCEPT !.step = "get", !.staged = TRUE]) /\ UNCHANGED homeless
     \/ ~inbox /\ known /\ Goes(c, [k EXCEPT !.step = "insert"]) /\ UNCHANGED homeless
     \/ /\ ~inbox /\ ~known
        /\ Goes(c, [k EXCEPT !.step = "get"]) /\ homeless' = homeless \cup {k.letter}
  /\ UNCHANGED <<known, inbox, stored, status, unread, commands, inboxFaults, exact>>

InsertSwallowed(c) ==
  /\ Stands(c, "insert") /\ inbox /\ UNCHANGED <<inbox, stored>>
  /\ Goes(c, [consumer[c] EXCEPT !.step = "get"])

\* The unique index on user and application refuses a second inbox.
InsertRefused(c) ==
  /\ Stands(c, "insert") /\ inbox /\ UNCHANGED <<inbox, stored>>
  /\ Retried(c)

InsertCommitted(c) ==
  /\ Stands(c, "insert") /\ ~inbox
  /\ inbox' = TRUE /\ stored' = stored \cup {consumer[c].letter}

\* AddMessageToUserInbox, first message: inbox and message are saved at once.
InsertInbox(c) ==
  /\ \/ /\ InsertCommitted(c)
        /\ Goes(c, [consumer[c] EXCEPT !.step = "get"])
        /\ UNCHANGED <<inboxFaults, exact>>
     \/ InsertCommitted(c) /\ InboxFault /\ Retried(c) /\ exact' = FALSE
     \/ InsertRefused(c) /\ UNCHANGED <<inboxFaults, exact>>
  /\ UNCHANGED <<known, status, unread, commands, homeless>>

\* NotificationSend on the copy, then IncreaseUserUnreadInboxMessageCount.
GetCount(c) ==
  /\ Stands(c, "get")
  /\ Goes(c, [consumer[c] EXCEPT !.step = "remove", !.verdict = "Sended",
                !.count = IF unread = NoLetter THEN 0 ELSE unread])
  /\ exact' = (exact /\ \A d \in Consumers : ~Counting(d))
  /\ UNCHANGED <<known, inbox, stored, status, unread, commands, inboxFaults, homeless>>

RemoveCount(c) ==
  /\ Stands(c, "remove")
  /\ unread' = NoLetter
  /\ Goes(c, [consumer[c] EXCEPT !.step = "set"])
  /\ UNCHANGED <<known, inbox, stored, status, commands, inboxFaults, homeless, exact>>

SetCountUnchanged(c) ==
  /\ Stands(c, "set")
  /\ unread' = consumer[c].count
  /\ Goes(c, [consumer[c] EXCEPT !.step = "save"])
  /\ UNCHANGED <<known, inbox, stored, status, commands, inboxFaults, homeless, exact>>

SetCount(c) ==
  LET k == consumer[c] IN
  /\ Stands(c, "set")
  /\ unread' = k.count + 1
  /\ Goes(c, [k EXCEPT !.step = "save"])
  /\ UNCHANGED <<known, inbox, stored, status, commands, inboxFaults, homeless, exact>>

SaveMessageOnly(c) ==
  /\ Stands(c, "save") /\ ~(consumer[c].staged /\ consumer[c].letter \in stored)
  /\ stored' = stored \cup {consumer[c].letter}
  /\ UNCHANGED status

\* One SaveChanges writes the row and the staged message, or neither: the
\* message's key refuses a copy that another delivery has stored meanwhile.
SaveCommitted(c) ==
  LET k == consumer[c] IN
  /\ Stands(c, "save")
  /\ ~(k.staged /\ k.letter \in stored)
  /\ status' = [status EXCEPT ![k.letter] = k.verdict]
  /\ stored' = IF k.staged THEN stored \cup {k.letter} ELSE stored

SaveLetter(c) ==
  /\ \/ SaveCommitted(c) /\ Closes(c) /\ UNCHANGED <<inboxFaults, exact>>
     \/ SaveCommitted(c) /\ InboxFault /\ Retried(c) /\ exact' = FALSE
     \/ /\ Stands(c, "save") /\ consumer[c].staged /\ consumer[c].letter \in stored
        /\ Retried(c) /\ UNCHANGED <<stored, status, inboxFaults, exact>>
  /\ UNCHANGED <<known, inbox, unread, commands, homeless>>

-----------------------------------------------------------------------------

InboxNext ==
  \/ UserAppears \/ CounterExpires
  \/ \E c \in Consumers :
       \/ \E m \in Letters : TakeLetter(c, m)
       \/ LoadLetter(c) \/ FindInbox(c) \/ InsertInbox(c)
       \/ GetCount(c) \/ RemoveCount(c) \/ SetCount(c) \/ SaveLetter(c)
       \/ LetterCallFails(c) \/ LetterReturns(c)

InboxSpec == InboxInit /\ [][InboxNext]_inboxVars

-----------------------------------------------------------------------------
(* Properties                                                              *)

\* A message whose row says Sended is in the inbox, unless its user had no row
\* when it was handled: then it is lost although it counts as sent.
NotifiedMeansStored ==
  \A m \in Letters : status[m] = "Sended" => m \in stored \cup homeless

\* At most one message of an inbox can be stored and yet never be marked Sended:
\* the first one, which is committed before its row.  A failure in between makes
\* every retry throw on the message's key, but it cannot happen to any other.
OneStranded == Cardinality({m \in stored : status[m] = "Pending"}) <= 1

\* While nothing failed, nothing expired and no two consumers counted at the same
\* time, the counter is the number of messages marked Sended, once all are saved.
UnreadExact ==
  (exact /\ \A c \in Consumers : consumer[c] = Waiting)
    => LET sent == {m \in Letters : status[m] = "Sended"} IN
       IF sent = {} THEN unread = NoLetter ELSE unread = Cardinality(sent)
=============================================================================
