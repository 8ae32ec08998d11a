------------------------ MODULE InboxAndHub_proofs -------------------------
(***************************************************************************)
(* Proofs about what a user sees at once.  Inbox: for any number of        *)
(* messages, consumers, retries and failures the tables keep their shape,  *)
(* a message marked as sent is stored, at most one message is stored       *)
(* without ever being marked, and an undisturbed counter is exact.         *)
(* RealTime: for any number of pages, messages and restarts the hub's list *)
(* of users is exact while its callbacks do not overlap, and a page that   *)
(* is ready gets what is sent to it even when they do.                     *)
(***************************************************************************)
EXTENDS Inbox, RealTime, FiniteSetTheorems, TLAPS

-----------------------------------------------------------------------------
(* The inbox                                                               *)

\* What a consumer's progress says of the tables.  The message of a consumer that
\* is going to mark it as sent is staged, stored or homeless; only a staged
\* message can reach an inbox at the save, and then it is marked as sent.
ConsumerOK(k) ==
  /\ k.step \in {"load", "find", "insert"} => ~k.staged
  /\ k.step = "insert" => known
  /\ k.staged => inbox
  /\ k.step \in {"remove", "set"} => k.verdict = "Sended" /\ k.count \in Nat
  /\ k.step = "save" => k.verdict = "Sended" \/ (k.verdict = "InvalidDeny" /\ ~k.staged)
  /\ k.step \in {"get", "remove", "set"} \/ (k.step = "save" /\ k.verdict = "Sended")
       => k.staged \/ k.letter \in stored \cup homeless

ConsumersOK == \A c \in Consumers : consumer[c] # Waiting => ConsumerOK(consumer[c])

\* OneStranded without the cardinality.
StrandedAlone ==
  \A m, n \in stored : status[m] = "Pending" /\ status[n] = "Pending" => m = n

InboxInv == InboxTypeOK /\ ConsumersOK /\ NotifiedMeansStored /\ StrandedAlone

-----------------------------------------------------------------------------
(* Facts about consumers                                                   *)

LEMMA StandsSomewhere ==
  ASSUME InboxTypeOK, NEW c \in Consumers, consumer[c] # Waiting
  PROVE  /\ consumer[c] \in Consumer
         /\ consumer[c].letter \in Letters /\ consumer[c].attempt \in 0..InboxRetries
         /\ consumer[c].staged \in BOOLEAN /\ consumer[c].count \in Counter
         /\ consumer[c].verdict \in Status
BY DEF InboxTypeOK, Consumer

LEMMA StandingWorks ==
  ASSUME NEW c \in Consumers, NEW s, Stands(c, s), s # "waiting"
  PROVE  consumer[c] # Waiting
BY DEF Stands, Waiting

LEMMA OpenedType ==
  ASSUME NEW m \in Letters, NEW a \in 0..InboxRetries
  PROVE  Opened(m, a) \in Consumer /\ ConsumerOK(Opened(m, a)) /\ ConsumerOK(Opened(m, a))'
<1>1. Opened(m, a) \in Consumer
  BY DEF Opened, Consumer, Counter, Status
<1>2. Opened(m, a).step = "load" /\ Opened(m, a).staged = FALSE
  BY DEF Opened
<1> QED BY <1>1, <1>2 DEF ConsumerOK

\* A failed attempt starts from the beginning or ends.
LEMMA RetriedGoes ==
  ASSUME InboxTypeOK, NEW c \in Consumers, consumer[c] # Waiting, Retried(c)
  PROVE  \E k : Goes(c, k) /\ (k = Waiting \/ (k \in Consumer /\ ConsumerOK(k)'))
<1>1. consumer[c].letter \in Letters /\ consumer[c].attempt \in 0..InboxRetries
  BY StandsSomewhere
<1>2. CASE consumer[c].attempt < InboxRetries
  <2>1. PICK m \in Letters, a \in 0..InboxRetries :
          m = consumer[c].letter /\ a = consumer[c].attempt + 1
    BY <1>1, <1>2, InboxAssumption
  <2>2. Goes(c, Opened(m, a))
    BY <1>2, <2>1 DEF Retried
  <2> QED BY <2>2, OpenedType
<1>3. CASE ~(consumer[c].attempt < InboxRetries)
  BY <1>3 DEF Retried, Closes
<1> QED BY <1>2, <1>3

\* The tables only grow, so what was true of a consumer that did not move stays true.
LEMMA OthersKeep ==
  ASSUME InboxTypeOK, ConsumersOK,
         NEW c \in Consumers, NEW k, Goes(c, k),
         k = Waiting \/ (k \in Consumer /\ ConsumerOK(k)'),
         known => known', inbox => inbox', stored \subseteq stored',
         homeless \subseteq homeless'
  PROVE  consumer' \in [Consumers -> Consumer \cup {Waiting}] /\ ConsumersOK'
<1>1. consumer' \in [Consumers -> Consumer \cup {Waiting}]
  BY DEF Goes, InboxTypeOK
<1>2. ASSUME NEW d \in Consumers, consumer'[d] # Waiting
      PROVE  ConsumerOK(consumer[d])'
  <2>1. CASE d = c
    <3>1. consumer'[d] = k
      BY <2>1 DEF Goes, InboxTypeOK
    <3>2. ConsumerOK(k)'
      BY <3>1, <1>2
    <3> QED BY <3>1, <3>2 DEF ConsumerOK
  <2>2. CASE d # c
    <3>1. consumer'[d] = consumer[d]
      BY <2>2 DEF Goes, InboxTypeOK
    <3>2. ConsumerOK(consumer[d])
      BY <1>2, <3>1 DEF ConsumersOK
    <3> QED BY <3>1, <3>2 DEF ConsumerOK
  <2> QED BY <2>1, <2>2
<1> QED BY <1>1, <1>2 DEF ConsumersOK

\* The same for a step that moves no consumer.
LEMMA AllKeep ==
  ASSUME InboxTypeOK, ConsumersOK, UNCHANGED consumer,
         known => known', inbox => inbox', stored \subseteq stored',
         homeless \subseteq homeless'
  PROVE  consumer' \in [Consumers -> Consumer \cup {Waiting}] /\ ConsumersOK'
BY DEF InboxTypeOK, ConsumersOK, ConsumerOK

\* A step that writes neither messages nor rows.
LEMMA TablesKeep ==
  ASSUME InboxTypeOK, NotifiedMeansStored, StrandedAlone,
         UNCHANGED <<stored, status>>, homeless \subseteq homeless'
  PROVE  NotifiedMeansStored' /\ StrandedAlone'
BY DEF NotifiedMeansStored, StrandedAlone

LEMMA FaultType ==
  ASSUME InboxTypeOK, InboxFault
  PROVE  inboxFaults' \in 0..MaxInboxFaults
BY InboxAssumption DEF InboxTypeOK, InboxFault

-----------------------------------------------------------------------------
(* One lemma per action                                                    *)

LEMMA InboxInitOK == ASSUME InboxInit PROVE InboxInv
<1>1. InboxTypeOK
  <2>1. inboxFaults \in 0..MaxInboxFaults
    BY InboxAssumption DEF InboxInit
  <2>2. consumer \in [Consumers -> Consumer \cup {Waiting}]
    BY DEF InboxInit
  <2> QED BY <2>1, <2>2 DEF InboxInit, InboxTypeOK, Status, Counter
<1>2. ConsumersOK
  BY DEF InboxInit, ConsumersOK
<1>3. NotifiedMeansStored /\ StrandedAlone
  BY DEF InboxInit, NotifiedMeansStored, StrandedAlone
<1> QED BY <1>1, <1>2, <1>3 DEF InboxInv

LEMMA TakeOK ==
  ASSUME InboxInv, NEW c \in Consumers, NEW m \in Letters, TakeLetter(c, m)
  PROVE  InboxInv'
<1>1. Goes(c, Opened(m, 0)) /\ 0 \in 0..InboxRetries
  BY InboxAssumption DEF TakeLetter
<1>2. consumer' \in [Consumers -> Consumer \cup {Waiting}] /\ ConsumersOK'
  BY <1>1, OpenedType, OthersKeep DEF InboxInv, TakeLetter
<1>3. NotifiedMeansStored' /\ StrandedAlone'
  BY TablesKeep DEF InboxInv, TakeLetter
<1>4. commands' \in [Letters -> Nat]
  BY DEF InboxInv, InboxTypeOK, TakeLetter
<1> QED BY <1>2, <1>3, <1>4 DEF InboxInv, InboxTypeOK, TakeLetter

LEMMA CallFailsOK ==
  ASSUME InboxInv, NEW c \in Consumers, LetterCallFails(c)
  PROVE  InboxInv'
<1>1. PICK k : Goes(c, k) /\ (k = Waiting \/ (k \in Consumer /\ ConsumerOK(k)'))
  BY RetriedGoes DEF InboxInv, LetterCallFails
<1>2. consumer' \in [Consumers -> Consumer \cup {Waiting}] /\ ConsumersOK'
  BY <1>1, OthersKeep DEF InboxInv, LetterCallFails
<1>3. NotifiedMeansStored' /\ StrandedAlone'
  BY TablesKeep DEF InboxInv, LetterCallFails
<1>4. inboxFaults' \in 0..MaxInboxFaults
  BY FaultType DEF InboxInv, LetterCallFails
<1> QED BY <1>2, <1>3, <1>4 DEF InboxInv, InboxTypeOK, LetterCallFails

LEMMA ReturnsOK ==
  ASSUME InboxInv, NEW c \in Consumers, LetterReturns(c)
  PROVE  InboxInv'
<1>1. consumer' \in [Consumers -> Consumer \cup {Waiting}] /\ ConsumersOK'
  <2>1. CASE Closes(c)
    BY <2>1, OthersKeep DEF InboxInv, LetterReturns, Closes
  <2>2. CASE UNCHANGED consumer
    BY <2>2, AllKeep DEF InboxInv, LetterReturns
  <2> QED BY <2>1, <2>2 DEF LetterReturns
<1>2. NotifiedMeansStored' /\ StrandedAlone'
  BY TablesKeep DEF InboxInv, LetterReturns
<1>3. inboxFaults' \in 0..MaxInboxFaults
  BY FaultType DEF InboxInv, LetterReturns
<1>4. commands' \in [Letters -> Nat]
  <2>1. consumer[c].letter \in Letters
    BY StandsSomewhere DEF InboxInv, LetterReturns
  <2> QED BY <2>1 DEF InboxInv, InboxTypeOK, LetterReturns
<1> QED BY <1>1, <1>2, <1>3, <1>4 DEF InboxInv, InboxTypeOK, LetterReturns

LEMMA AppearsOK == ASSUME InboxInv, UserAppears PROVE InboxInv'
<1>1. consumer' \in [Consumers -> Consumer \cup {Waiting}] /\ ConsumersOK'
  BY AllKeep DEF InboxInv, UserAppears
<1>2. NotifiedMeansStored' /\ StrandedAlone'
  BY TablesKeep DEF InboxInv, UserAppears
<1> QED BY <1>1, <1>2 DEF InboxInv, InboxTypeOK, UserAppears

LEMMA ExpiresOK == ASSUME InboxInv, CounterExpires PROVE InboxInv'
<1>1. consumer' \in [Consumers -> Consumer \cup {Waiting}] /\ ConsumersOK'
  BY AllKeep DEF InboxInv, CounterExpires
<1>2. NotifiedMeansStored' /\ StrandedAlone'
  BY TablesKeep DEF InboxInv, CounterExpires
<1> QED BY <1>1, <1>2 DEF InboxInv, InboxTypeOK, CounterExpires, Counter

LEMMA LoadOK ==
  ASSUME InboxInv, NEW c \in Consumers, LoadLetter(c)
  PROVE  InboxInv'
<1>k. PICK k : k = consumer[c]
  OBVIOUS
<1>1. k # Waiting /\ k \in Consumer /\ ConsumerOK(k) /\ k.step = "load"
  BY <1>k, StandsSomewhere, StandingWorks DEF InboxInv, ConsumersOK, LoadLetter, Stands
<1>2. consumer' \in [Consumers -> Consumer \cup {Waiting}] /\ ConsumersOK'
  <2>1. CASE Closes(c)
    BY <1>k, <2>1, OthersKeep DEF InboxInv, LoadLetter, Closes
  <2>2. ASSUME NEW j, Goes(c, j), j \in Consumer, ConsumerOK(j)'
        PROVE  consumer' \in [Consumers -> Consumer \cup {Waiting}] /\ ConsumersOK'
    BY <1>k, <2>2, OthersKeep DEF InboxInv, LoadLetter
  <2>3. CASE Goes(c, [k EXCEPT !.step = "find"])
    <3>1. [k EXCEPT !.step = "find"] \in Consumer
      BY <1>k, <1>1 DEF Consumer
    <3>2. ConsumerOK([k EXCEPT !.step = "find"])'
      BY <1>k, <1>1 DEF ConsumerOK, Consumer
    <3> QED BY <1>k, <2>2, <2>3, <3>1, <3>2
  <2>4. CASE Goes(c, [k EXCEPT !.step = "save", !.verdict = "InvalidDeny"])
    <3>1. [k EXCEPT !.step = "save", !.verdict = "InvalidDeny"] \in Consumer
      BY <1>k, <1>1 DEF Consumer, Status
    <3>2. ConsumerOK([k EXCEPT !.step = "save", !.verdict = "InvalidDeny"])'
      BY <1>k, <1>1 DEF ConsumerOK, Consumer
    <3> QED BY <1>k, <2>2, <2>4, <3>1, <3>2
  <2> QED BY <1>k, <2>1, <2>3, <2>4 DEF LoadLetter
<1>3. NotifiedMeansStored' /\ StrandedAlone'
  BY TablesKeep DEF InboxInv, LoadLetter
<1> QED BY <1>k, <1>2, <1>3 DEF InboxInv, InboxTypeOK, LoadLetter

LEMMA FindOK ==
  ASSUME InboxInv, NEW c \in Consumers, FindInbox(c)
  PROVE  InboxInv'
<1>k. PICK k : k = consumer[c]
  OBVIOUS
<1>1. k # Waiting /\ k \in Consumer /\ ConsumerOK(k) /\ k.step = "find"
  BY <1>k, StandsSomewhere, StandingWorks DEF InboxInv, ConsumersOK, FindInbox, Stands
<1>2. homeless \subseteq homeless' /\ homeless' \subseteq Letters
  BY <1>k, <1>1 DEF FindInbox, Consumer, InboxInv, InboxTypeOK
<1>3. consumer' \in [Consumers -> Consumer \cup {Waiting}] /\ ConsumersOK'
  <2>1. ASSUME NEW j, Goes(c, j), j = Waiting \/ (j \in Consumer /\ ConsumerOK(j)')
        PROVE  consumer' \in [Consumers -> Consumer \cup {Waiting}] /\ ConsumersOK'
    BY <1>k, <2>1, <1>2, OthersKeep DEF InboxInv, FindInbox
  <2>2. CASE Retried(c)
    BY <1>k, <2>1, <2>2, <1>1, RetriedGoes DEF InboxInv
  <2>3. CASE inbox /\ Goes(c, [k EXCEPT !.step = "get", !.staged = TRUE])
    <3>1. [k EXCEPT !.step = "get", !.staged = TRUE] \in Consumer
      BY <1>k, <1>1 DEF Consumer
    <3>2. ConsumerOK([k EXCEPT !.step = "get", !.staged = TRUE])'
      BY <1>k, <1>1, <2>3 DEF ConsumerOK, Consumer, FindInbox
    <3> QED BY <1>k, <2>1, <2>3, <3>1, <3>2
  <2>4. CASE known /\ Goes(c, [k EXCEPT !.step = "insert"])
    <3>1. [k EXCEPT !.step = "insert"] \in Consumer
      BY <1>k, <1>1 DEF Consumer
    <3>2. ConsumerOK([k EXCEPT !.step = "insert"])'
      BY <1>k, <1>1, <2>4 DEF ConsumerOK, Consumer, FindInbox
    <3> QED BY <1>k, <2>1, <2>4, <3>1, <3>2
  <2>5. CASE Goes(c, [k EXCEPT !.step = "get"]) /\ homeless' = homeless \cup {k.letter}
    <3>1. [k EXCEPT !.step = "get"] \in Consumer
      BY <1>k, <1>1 DEF Consumer
    <3>2. ConsumerOK([k EXCEPT !.step = "get"])'
      BY <1>k, <1>1, <2>5 DEF ConsumerOK, Consumer, FindInbox
    <3> QED BY <1>k, <2>1, <2>5, <3>1, <3>2
  <2> QED BY <1>k, <2>2, <2>3, <2>4, <2>5 DEF FindInbox
<1>4. NotifiedMeansStored' /\ StrandedAlone'
  BY <1>k, <1>2, TablesKeep DEF InboxInv, FindInbox
<1> QED BY <1>k, <1>2, <1>3, <1>4 DEF InboxInv, InboxTypeOK, FindInbox

LEMMA InsertOK ==
  ASSUME InboxInv, NEW c \in Consumers, InsertInbox(c)
  PROVE  InboxInv'
<1>k. PICK k : k = consumer[c]
  OBVIOUS
<1>0. k.step = "insert"
  BY <1>k DEF InsertInbox, InsertCommitted, InsertRefused, Stands
<1>1. k # Waiting /\ k \in Consumer /\ ConsumerOK(k)
  BY <1>k, <1>0, StandsSomewhere, StandingWorks DEF InboxInv, ConsumersOK, Stands
<1>2. known /\ k.letter \in Letters
  BY <1>k, <1>0, <1>1 DEF ConsumerOK, Consumer
<1>3. /\ stored \subseteq stored' /\ stored' \subseteq Letters /\ (inbox => inbox')
      /\ inbox' \in BOOLEAN /\ (stored' # {} => inbox')
      /\ (inbox /\ stored' = stored) \/ (~inbox /\ stored' = {k.letter})
  BY <1>k, <1>2 DEF InboxInv, InboxTypeOK, InsertInbox, InsertCommitted, InsertRefused
<1>4. consumer' \in [Consumers -> Consumer \cup {Waiting}] /\ ConsumersOK'
  <2>1. ASSUME NEW j, Goes(c, j), j = Waiting \/ (j \in Consumer /\ ConsumerOK(j)')
        PROVE  consumer' \in [Consumers -> Consumer \cup {Waiting}] /\ ConsumersOK'
    BY <1>k, <2>1, <1>3, OthersKeep DEF InboxInv, InsertInbox
  <2>2. CASE Retried(c)
    BY <1>k, <2>1, <2>2, <1>1, RetriedGoes DEF InboxInv
  <2>3. CASE InsertCommitted(c) /\ Goes(c, [k EXCEPT !.step = "get"])
    <3>1. [k EXCEPT !.step = "get"] \in Consumer
      BY <1>k, <1>1 DEF Consumer
    <3>2. ConsumerOK([k EXCEPT !.step = "get"])'
      BY <1>k, <1>0, <1>1, <2>3 DEF ConsumerOK, Consumer, InsertCommitted
    <3> QED BY <1>k, <2>1, <2>3, <3>1, <3>2
  <2> QED BY <1>k, <2>2, <2>3 DEF InsertInbox, InsertRefused
<1>5. NotifiedMeansStored'
  BY <1>k, <1>3 DEF InboxInv, NotifiedMeansStored, InsertInbox
<1>6. StrandedAlone'
  BY <1>k, <1>3 DEF InboxInv, StrandedAlone, InsertInbox
<1>7. inboxFaults' \in 0..MaxInboxFaults /\ exact' \in BOOLEAN
  BY FaultType DEF InboxInv, InboxTypeOK, InsertInbox
<1> QED BY <1>k, <1>2, <1>3, <1>4, <1>5, <1>6, <1>7 DEF InboxInv, InboxTypeOK, InsertInbox

LEMMA GetOK ==
  ASSUME InboxInv, NEW c \in Consumers, GetCount(c)
  PROVE  InboxInv'
<1>k. PICK k : k = consumer[c]
  OBVIOUS
<1> DEFINE n == IF unread = NoLetter THEN 0 ELSE unread
           j == [k EXCEPT !.step = "remove", !.verdict = "Sended", !.count = n]
<1>1. k # Waiting /\ k \in Consumer /\ ConsumerOK(k) /\ k.step = "get"
  BY <1>k, StandsSomewhere, StandingWorks DEF InboxInv, ConsumersOK, GetCount, Stands
<1>2. n \in Nat /\ n \in Counter
  BY DEF InboxInv, InboxTypeOK, Counter
<1>3. j \in Consumer
  BY <1>k, <1>1, <1>2 DEF Consumer, Status
<1>4. ConsumerOK(j)'
  BY <1>k, <1>1, <1>2 DEF ConsumerOK, Consumer, GetCount
<1>5. consumer' \in [Consumers -> Consumer \cup {Waiting}] /\ ConsumersOK'
  BY <1>k, <1>3, <1>4, OthersKeep DEF InboxInv, GetCount
<1>6. NotifiedMeansStored' /\ StrandedAlone'
  BY TablesKeep DEF InboxInv, GetCount
<1> QED BY <1>k, <1>5, <1>6 DEF InboxInv, InboxTypeOK, GetCount

LEMMA RemoveOK ==
  ASSUME InboxInv, NEW c \in Consumers, RemoveCount(c)
  PROVE  InboxInv'
<1>k. PICK k : k = consumer[c]
  OBVIOUS
<1> DEFINE j == [k EXCEPT !.step = "set"]
<1>1. k # Waiting /\ k \in Consumer /\ ConsumerOK(k) /\ k.step = "remove"
  BY <1>k, StandsSomewhere, StandingWorks DEF InboxInv, ConsumersOK, RemoveCount, Stands
<1>2. j \in Consumer
  BY <1>k, <1>1 DEF Consumer
<1>3. ConsumerOK(j)'
  BY <1>k, <1>1 DEF ConsumerOK, Consumer, RemoveCount
<1>4. consumer' \in [Consumers -> Consumer \cup {Waiting}] /\ ConsumersOK'
  BY <1>k, <1>2, <1>3, OthersKeep DEF InboxInv, RemoveCount
<1>5. NotifiedMeansStored' /\ StrandedAlone'
  BY TablesKeep DEF InboxInv, RemoveCount
<1> QED BY <1>k, <1>4, <1>5 DEF InboxInv, InboxTypeOK, RemoveCount, Counter

LEMMA SetOK ==
  ASSUME InboxInv, NEW c \in Consumers, SetCount(c)
  PROVE  InboxInv'
<1>k. PICK k : k = consumer[c]
  OBVIOUS
<1> DEFINE j == [k EXCEPT !.step = "save"]
<1>1. k # Waiting /\ k \in Consumer /\ ConsumerOK(k) /\ k.step = "set"
  BY <1>k, StandsSomewhere, StandingWorks DEF InboxInv, ConsumersOK, SetCount, Stands
<1>2. j \in Consumer
  BY <1>k, <1>1 DEF Consumer
<1>3. ConsumerOK(j)'
  BY <1>k, <1>1 DEF ConsumerOK, Consumer, SetCount
<1>4. consumer' \in [Consumers -> Consumer \cup {Waiting}] /\ ConsumersOK'
  BY <1>k, <1>2, <1>3, OthersKeep DEF InboxInv, SetCount
<1>5. NotifiedMeansStored' /\ StrandedAlone'
  BY TablesKeep DEF InboxInv, SetCount
<1>6. unread' \in Counter
  BY <1>k, <1>1 DEF ConsumerOK, SetCount, Counter
<1> QED BY <1>k, <1>4, <1>5, <1>6 DEF InboxInv, InboxTypeOK, SetCount

LEMMA SaveOK ==
  ASSUME InboxInv, NEW c \in Consumers, SaveLetter(c)
  PROVE  InboxInv'
<1>k. PICK k : k = consumer[c]
  OBVIOUS
<1>0. k.step = "save"
  BY <1>k DEF SaveLetter, SaveCommitted, Stands
<1>1. k # Waiting /\ k \in Consumer /\ ConsumerOK(k)
  BY <1>k, <1>0, StandsSomewhere, StandingWorks DEF InboxInv, ConsumersOK, Stands
<1>2. /\ k.letter \in Letters /\ k.staged \in BOOLEAN /\ k.verdict \in Status
      /\ k.staged => inbox
      /\ k.verdict = "Sended" \/ (k.verdict = "InvalidDeny" /\ ~k.staged)
      /\ k.verdict = "Sended" => k.staged \/ k.letter \in stored \cup homeless
  BY <1>0, <1>1 DEF ConsumerOK, Consumer
<1>3. \/ /\ status' = [status EXCEPT ![k.letter] = k.verdict]
         /\ stored' = IF k.staged THEN stored \cup {k.letter} ELSE stored
      \/ UNCHANGED <<stored, status>>
  BY <1>k DEF SaveLetter, SaveCommitted
<1>4. UNCHANGED <<known, inbox, unread, commands, homeless>>
  BY DEF SaveLetter
<1>5. /\ stored \subseteq stored' /\ stored' \subseteq Letters /\ (stored' # {} => inbox)
      /\ status' \in [Letters -> Status]
  BY <1>2, <1>3 DEF InboxInv, InboxTypeOK
<1>6. consumer' \in [Consumers -> Consumer \cup {Waiting}] /\ ConsumersOK'
  <2>1. CASE Retried(c)
    BY <1>k, <1>1, <1>4, <1>5, <2>1, RetriedGoes, OthersKeep DEF InboxInv
  <2>2. CASE Closes(c)
    BY <1>4, <1>5, <2>2, OthersKeep DEF InboxInv, Closes
  <2> QED BY <2>1, <2>2 DEF SaveLetter
<1>7. NotifiedMeansStored'
  BY <1>2, <1>3, <1>4 DEF InboxInv, InboxTypeOK, NotifiedMeansStored
<1>8. StrandedAlone'
  BY <1>2, <1>3 DEF InboxInv, InboxTypeOK, StrandedAlone
<1>9. inboxFaults' \in 0..MaxInboxFaults /\ exact' \in BOOLEAN
  BY FaultType DEF InboxInv, InboxTypeOK, SaveLetter
<1> QED BY <1>4, <1>5, <1>6, <1>7, <1>8, <1>9 DEF InboxInv, InboxTypeOK

-----------------------------------------------------------------------------
(* Every step                                                              *)

LEMMA InboxStutterOK == ASSUME InboxInv, UNCHANGED inboxVars PROVE InboxInv'
<1>1. consumer' \in [Consumers -> Consumer \cup {Waiting}] /\ ConsumersOK'
  BY AllKeep DEF InboxInv, inboxVars
<1>2. NotifiedMeansStored' /\ StrandedAlone'
  BY TablesKeep DEF InboxInv, inboxVars
<1> QED BY <1>1, <1>2 DEF InboxInv, InboxTypeOK, inboxVars

LEMMA InboxNextOK == ASSUME InboxInv, [InboxNext]_inboxVars PROVE InboxInv'
<1>1. CASE UserAppears
  BY <1>1, AppearsOK
<1>2. CASE CounterExpires
  BY <1>2, ExpiresOK
<1>3. ASSUME NEW c \in Consumers, NEW m \in Letters, TakeLetter(c, m) PROVE InboxInv'
  BY <1>3, TakeOK
<1>4. ASSUME NEW c \in Consumers,
             LoadLetter(c) \/ FindInbox(c) \/ InsertInbox(c) \/ SaveLetter(c)
      PROVE  InboxInv'
  BY <1>4, LoadOK, FindOK, InsertOK, SaveOK
<1>5. ASSUME NEW c \in Consumers, GetCount(c) \/ RemoveCount(c) \/ SetCount(c)
      PROVE  InboxInv'
  BY <1>5, GetOK, RemoveOK, SetOK
<1>6. ASSUME NEW c \in Consumers, LetterCallFails(c) \/ LetterReturns(c)
      PROVE  InboxInv'
  BY <1>6, CallFailsOK, ReturnsOK
<1>7. CASE UNCHANGED inboxVars
  BY <1>7, InboxStutterOK
<1> QED BY <1>1, <1>2, <1>3, <1>4, <1>5, <1>6, <1>7 DEF InboxNext

LEMMA StrandedAtMostOne == ASSUME StrandedAlone PROVE OneStranded
<1> DEFINE S == {m \in stored : status[m] = "Pending"}
<1>1. CASE S = {}
  BY <1>1, FS_EmptySet DEF OneStranded
<1>2. CASE S # {}
  <2>1. PICK x : S = {x}
    BY <1>2 DEF StrandedAlone
  <2>2. Cardinality(S) = 1
    BY <2>1, FS_Singleton
  <2> QED BY <2>2 DEF OneStranded
<1> QED BY <1>1, <1>2

-----------------------------------------------------------------------------
(* The counter                                                             *)

\* Messages the counter must include: those marked as sent, and those whose
\* consumer has written the counter and will mark them.
Included ==
  {m \in Letters : \/ status[m] = "Sended"
                   \/ \E c \in Consumers : /\ consumer[c].step = "save"
                                           /\ consumer[c].verdict = "Sended"
                                           /\ consumer[c].letter = m}

\* Without failures a message is in the queue, with one consumer, or done.
OneCopy ==
  \A m \in Letters :
    /\ commands[m] \in {0, 1}
    /\ commands[m] = 1 =>
         /\ status[m] # "Sended"
         /\ \A c \in Consumers : consumer[c] = Waiting \/ consumer[c].letter # m

OneWorker ==
  \A c, d \in Consumers :
    consumer[c] # Waiting /\ consumer[d] # Waiting /\ consumer[c].letter = consumer[d].letter
      => c = d

WorkLeft ==
  \A c \in Consumers : consumer[c] # Waiting =>
    /\ status[consumer[c].letter] # "Sended"
    /\ consumer[c].staged => consumer[c].letter \notin stored

\* The cache entry is missing before the first message and while it is replaced.
CounterRight ==
  /\ IsFiniteSet(Included)
  /\ \A c, d \in Consumers : Counting(c) /\ Counting(d) => c = d
  /\ \A c \in Consumers : Counting(c) => consumer[c].count = Cardinality(Included)
  /\ unread = IF Included = {} \/ \E c \in Consumers : Stands(c, "set")
              THEN NoLetter ELSE Cardinality(Included)

ExactInv == exact => OneCopy /\ OneWorker /\ WorkLeft /\ CounterRight

LEMMA ExactInit == ASSUME InboxInit PROVE ExactInv
<1>1. Included = {}
  BY DEF InboxInit, Included, Waiting
<1>2. \A c \in Consumers : ~Counting(c) /\ ~Stands(c, "set")
  BY DEF InboxInit, Counting, Stands, Waiting
<1> QED
  BY <1>1, <1>2, FS_EmptySet
  DEF InboxInit, ExactInv, OneCopy, OneWorker, WorkLeft, CounterRight

\* A consumer that neither counts nor has counted moves on, restarts or ends.
LEMMA BeforeCounting ==
  ASSUME InboxTypeOK, ExactInv, exact, NEW c \in Consumers, NEW k, Goes(c, k),
         consumer[c] # Waiting, ~Counting(c),
         consumer[c].step = "save" => consumer[c].verdict # "Sended",
         k = Waiting \/ /\ k # Waiting /\ k.letter = consumer[c].letter
                        /\ k.step \notin {"remove", "set"}
                        /\ k.step = "save" => k.verdict # "Sended"
                        /\ k.staged => k.letter \notin stored',
         stored' \subseteq stored \cup {consumer[c].letter},
         UNCHANGED <<status, unread, commands>>
  PROVE  ExactInv'
<1>1. consumer' = [consumer EXCEPT ![c] = k] /\ consumer'[c] = k
  BY DEF Goes, InboxTypeOK
<1>2. /\ k.step # "remove" /\ k.step # "set"
      /\ k.step = "save" => k.verdict # "Sended"
  BY DEF Waiting
<1>3. \A d \in Consumers : d # c => consumer'[d] = consumer[d]
  BY <1>1 DEF InboxTypeOK
<1>4. Included' = Included
  BY <1>1, <1>2, <1>3 DEF Included
<1>5. OneCopy' /\ OneWorker'
  BY <1>1, <1>3 DEF ExactInv, OneCopy, OneWorker
<1>6. WorkLeft'
  <2> SUFFICES ASSUME NEW d \in Consumers, consumer'[d] # Waiting
               PROVE  /\ status[consumer'[d].letter] # "Sended"
                      /\ consumer'[d].staged => consumer'[d].letter \notin stored'
    BY DEF WorkLeft
  <2>1. CASE d = c
    BY <2>1, <1>1 DEF ExactInv, WorkLeft
  <2>2. CASE d # c
    BY <2>2, <1>3 DEF ExactInv, WorkLeft, OneWorker
  <2> QED BY <2>1, <2>2
<1>7. CounterRight'
  <2>1. ~Stands(c, "set")
    BY DEF Counting, Stands
  <2>2. \A d \in Consumers : (Counting(d)' => d # c) /\ (Stands(d, "set")' <=> Stands(d, "set"))
    BY <2>1, <1>1, <1>2, <1>3 DEF Counting, Stands
  <2>3. \A d \in Consumers : Counting(d)' => Counting(d) /\ consumer'[d] = consumer[d]
    BY <2>2, <1>3 DEF Counting
  <2> QED BY <2>2, <2>3, <1>4 DEF ExactInv, CounterRight
<1> QED BY <1>5, <1>6, <1>7 DEF ExactInv

\* A consumer that retries or gives up before it counts.
LEMMA RetryBeforeCounting ==
  ASSUME InboxTypeOK, ExactInv, exact, NEW c \in Consumers, Retried(c),
         consumer[c] # Waiting, ~Counting(c), consumer[c].step # "save",
         UNCHANGED <<stored, status, unread, commands>>
  PROVE  ExactInv'
<1>1. PICK k : /\ Goes(c, k)
               /\ k = Waiting \/ k = Opened(consumer[c].letter, consumer[c].attempt + 1)
  BY DEF Retried, Closes
<1>2. k # Waiting => k.step = "load" /\ k.letter = consumer[c].letter /\ k.staged = FALSE
  BY <1>1 DEF Opened
<1> QED BY <1>1, <1>2, BeforeCounting

LEMMA TakeExact ==
  ASSUME InboxTypeOK, ExactInv, exact, NEW c \in Consumers, NEW m \in Letters, TakeLetter(c, m)
  PROVE  ExactInv'
<1> PICK k : k = Opened(m, 0)
  OBVIOUS
<1>1. k.step = "load" /\ k.letter = m /\ k.staged = FALSE /\ k # Waiting
  BY DEF Opened, Waiting
<1>2. /\ consumer' = [consumer EXCEPT ![c] = k] /\ consumer[c] = Waiting
      /\ consumer'[c] = k /\ \A d \in Consumers : d # c => consumer'[d] = consumer[d]
  BY DEF TakeLetter, Goes, InboxTypeOK
<1>3. commands[m] = 1 /\ commands' = [commands EXCEPT ![m] = 0]
  <2>1. commands[m] \in {0, 1} /\ commands[m] > 0
    BY DEF TakeLetter, ExactInv, OneCopy
  <2>2. commands[m] = 1 /\ commands[m] - 1 = 0
    BY <2>1
  <2>3. commands' = [commands EXCEPT ![m] = commands[m] - 1]
    BY DEF TakeLetter
  <2> QED BY <2>2, <2>3
<1>4. UNCHANGED <<stored, status, unread>>
  BY DEF TakeLetter
<1>5. Included' = Included
  BY <1>1, <1>2, <1>4 DEF Included, Waiting
<1>6. OneCopy'
  BY <1>1, <1>2, <1>3, <1>4 DEF ExactInv, OneCopy, InboxTypeOK
<1>7. OneWorker' /\ WorkLeft'
  BY <1>1, <1>2, <1>3, <1>4 DEF ExactInv, OneCopy, OneWorker, WorkLeft
<1>8. CounterRight'
  <2>1. \A d \in Consumers : /\ Counting(d)' => d # c
                             /\ Stands(d, "set")' <=> Stands(d, "set")
    BY <1>1, <1>2 DEF Counting, Stands, Waiting
  <2>2. \A d \in Consumers : Counting(d)' => Counting(d) /\ consumer'[d] = consumer[d]
    BY <2>1, <1>2 DEF Counting
  <2> QED BY <2>1, <2>2, <1>4, <1>5 DEF ExactInv, CounterRight
<1> QED BY <1>6, <1>7, <1>8 DEF ExactInv

LEMMA LoadExact ==
  ASSUME InboxTypeOK, ExactInv, exact, NEW c \in Consumers, LoadLetter(c)
  PROVE  ExactInv'
<1>1. consumer[c] # Waiting /\ consumer[c].step = "load" /\ consumer[c] \in Consumer
  BY StandsSomewhere, StandingWorks DEF LoadLetter, Stands
<1>0. UNCHANGED <<stored, status, unread, commands>>
  BY DEF LoadLetter
<1>2. ~Counting(c)
  BY <1>1 DEF Counting
<1>3. CASE Closes(c)
  BY <1>1, <1>2, <1>3, BeforeCounting DEF Closes, LoadLetter
<1>4. CASE Goes(c, [consumer[c] EXCEPT !.step = "find"])
  <2> PICK k : k = [consumer[c] EXCEPT !.step = "find"]
    OBVIOUS
  <2>1. k.step = "find" /\ k # Waiting /\ k.letter = consumer[c].letter /\ k.staged = consumer[c].staged
    BY <1>1 DEF Consumer, Waiting
  <2>2. k.staged => k.letter \notin stored'
    BY <1>0, <1>1, <2>1 DEF ExactInv, WorkLeft
  <2> QED BY <1>0, <1>1, <1>2, <1>4, <2>1, <2>2, BeforeCounting
<1>5. CASE Goes(c, [consumer[c] EXCEPT !.step = "save", !.verdict = "InvalidDeny"])
  <2> PICK k : k = [consumer[c] EXCEPT !.step = "save", !.verdict = "InvalidDeny"]
    OBVIOUS
  <2>1. /\ k.step = "save" /\ k # Waiting /\ k.letter = consumer[c].letter
        /\ k.staged = consumer[c].staged /\ k.verdict = "InvalidDeny"
    BY <1>1 DEF Consumer, Waiting
  <2>2. k.staged => k.letter \notin stored'
    BY <1>0, <1>1, <2>1 DEF ExactInv, WorkLeft
  <2> QED BY <1>0, <1>1, <1>2, <1>5, <2>1, <2>2, BeforeCounting
<1> QED BY <1>3, <1>4, <1>5 DEF LoadLetter

LEMMA FindExact ==
  ASSUME InboxTypeOK, ExactInv, exact, NEW c \in Consumers, FindInbox(c)
  PROVE  ExactInv'
<1>1. consumer[c] # Waiting /\ consumer[c].step = "find" /\ consumer[c] \in Consumer
  BY StandsSomewhere, StandingWorks DEF FindInbox, Stands
<1>2. ~Counting(c) /\ UNCHANGED <<stored, status, unread, commands>>
  BY <1>1 DEF Counting, FindInbox
<1>3. CASE Retried(c)
  BY <1>1, <1>2, <1>3, RetryBeforeCounting
<1>4. ASSUME NEW k, Goes(c, k), k.step \in {"get", "insert"}, k.letter = consumer[c].letter,
             k.staged => k.letter \notin stored
      PROVE  ExactInv'
  BY <1>1, <1>2, <1>4, BeforeCounting DEF Waiting
<1>5. CASE consumer[c].letter \notin stored /\ Goes(c, [consumer[c] EXCEPT !.step = "get", !.staged = TRUE])
  <2> PICK k : k = [consumer[c] EXCEPT !.step = "get", !.staged = TRUE]
    OBVIOUS
  <2>1. k.step = "get" /\ k.letter = consumer[c].letter
    BY <1>1 DEF Consumer
  <2> QED BY <1>4, <1>5, <2>1
<1>6. CASE Goes(c, [consumer[c] EXCEPT !.step = "insert"])
  <2> PICK k : k = [consumer[c] EXCEPT !.step = "insert"]
    OBVIOUS
  <2>1. k.step = "insert" /\ k.letter = consumer[c].letter /\ k.staged = consumer[c].staged
    BY <1>1 DEF Consumer
  <2> QED BY <1>1, <1>4, <1>6, <2>1 DEF ExactInv, WorkLeft
<1>7. CASE Goes(c, [consumer[c] EXCEPT !.step = "get"])
  <2> PICK k : k = [consumer[c] EXCEPT !.step = "get"]
    OBVIOUS
  <2>1. k.step = "get" /\ k.letter = consumer[c].letter /\ k.staged = consumer[c].staged
    BY <1>1 DEF Consumer
  <2> QED BY <1>1, <1>4, <1>7, <2>1 DEF ExactInv, WorkLeft
<1> QED BY <1>3, <1>5, <1>6, <1>7 DEF FindInbox

LEMMA InsertExact ==
  ASSUME InboxTypeOK, ConsumersOK, ExactInv, exact, exact', NEW c \in Consumers, InsertInbox(c)
  PROVE  ExactInv'
<1>1. consumer[c] # Waiting /\ consumer[c].step = "insert" /\ consumer[c] \in Consumer
  BY StandsSomewhere, StandingWorks DEF InsertInbox, InsertCommitted, InsertRefused, Stands
<1>2. ~Counting(c) /\ UNCHANGED <<status, unread, commands>> /\ ~consumer[c].staged
  BY <1>1 DEF Counting, InsertInbox, ConsumersOK, ConsumerOK
<1>3. CASE InsertRefused(c)
  BY <1>1, <1>2, <1>3, RetryBeforeCounting DEF InsertRefused
<1>4. CASE InsertCommitted(c) /\ Goes(c, [consumer[c] EXCEPT !.step = "get"])
  <2> PICK k : k = [consumer[c] EXCEPT !.step = "get"]
    OBVIOUS
  <2>1. k.step = "get" /\ k.letter = consumer[c].letter /\ ~k.staged /\ k # Waiting
    BY <1>1, <1>2 DEF Consumer, Waiting
  <2> QED BY <1>1, <1>2, <1>4, <2>1, BeforeCounting DEF InsertCommitted
<1> QED BY <1>3, <1>4 DEF InsertInbox

LEMMA GetExact ==
  ASSUME InboxTypeOK, ExactInv, exact, exact', NEW c \in Consumers, GetCount(c)
  PROVE  ExactInv'
<1> PICK n : n = IF unread = NoLetter THEN 0 ELSE unread
  OBVIOUS
<1> PICK k : k = [consumer[c] EXCEPT !.step = "remove", !.verdict = "Sended", !.count = n]
  OBVIOUS
<1>1. consumer[c] # Waiting /\ consumer[c].step = "get" /\ consumer[c] \in Consumer
  BY StandsSomewhere, StandingWorks DEF GetCount, Stands
<1>2. /\ k.step = "remove" /\ k # Waiting /\ k.letter = consumer[c].letter
      /\ k.staged = consumer[c].staged /\ k.count = n
  BY <1>1 DEF Consumer, Waiting
<1>3. /\ consumer' = [consumer EXCEPT ![c] = k] /\ consumer'[c] = k
      /\ \A d \in Consumers : d # c => consumer'[d] = consumer[d]
  BY DEF GetCount, Goes, InboxTypeOK
<1>4. /\ UNCHANGED <<stored, status, unread, commands>>
      /\ \A d \in Consumers : ~Counting(d) /\ ~Stands(d, "set")
  BY DEF GetCount, Counting, Stands
<1>5. Included' = Included
  BY <1>1, <1>2, <1>3, <1>4 DEF Included
<1>6. n = Cardinality(Included)
  <2>1. CASE Included = {}
    BY <2>1, FS_EmptySet, <1>4 DEF ExactInv, CounterRight
  <2>2. CASE Included # {}
    <3>1. unread = Cardinality(Included) /\ Cardinality(Included) \in Nat
      BY <2>2, <1>4, FS_CardinalityType DEF ExactInv, CounterRight
    <3> QED BY <3>1, InboxAssumption
  <2> QED BY <2>1, <2>2
<1>7. OneCopy' /\ OneWorker' /\ WorkLeft'
  BY <1>1, <1>2, <1>3, <1>4 DEF ExactInv, OneCopy, OneWorker, WorkLeft
<1>8. CounterRight'
  <2>1. \A d \in Consumers : (Counting(d)' => d = c) /\ ~Stands(d, "set")'
    BY <1>2, <1>3, <1>4 DEF Counting, Stands
  <2> QED BY <2>1, <1>2, <1>3, <1>4, <1>5, <1>6 DEF ExactInv, CounterRight
<1> QED BY <1>7, <1>8 DEF ExactInv

LEMMA RemoveExact ==
  ASSUME InboxTypeOK, ExactInv, exact, NEW c \in Consumers, RemoveCount(c)
  PROVE  ExactInv'
<1> PICK k : k = [consumer[c] EXCEPT !.step = "set"]
  OBVIOUS
<1>1. consumer[c] # Waiting /\ consumer[c].step = "remove" /\ consumer[c] \in Consumer
  BY StandsSomewhere, StandingWorks DEF RemoveCount, Stands
<1>2. /\ k.step = "set" /\ k # Waiting /\ k.letter = consumer[c].letter
      /\ k.staged = consumer[c].staged /\ k.count = consumer[c].count
  BY <1>1 DEF Consumer, Waiting
<1>3. /\ consumer' = [consumer EXCEPT ![c] = k] /\ consumer'[c] = k
      /\ \A d \in Consumers : d # c => consumer'[d] = consumer[d]
  BY DEF RemoveCount, Goes, InboxTypeOK
<1>4. UNCHANGED <<stored, status, commands>> /\ unread' = NoLetter /\ Counting(c)
  BY <1>1 DEF RemoveCount, Counting
<1>5. Included' = Included
  BY <1>1, <1>2, <1>3, <1>4 DEF Included
<1>7. OneCopy' /\ OneWorker' /\ WorkLeft'
  BY <1>1, <1>2, <1>3, <1>4 DEF ExactInv, OneCopy, OneWorker, WorkLeft
<1>8. CounterRight'
  <2>1. \A d \in Consumers : Counting(d)' => d = c
    BY <1>3, <1>4 DEF Counting, ExactInv, CounterRight
  <2>2. Stands(c, "set")'
    BY <1>2, <1>3 DEF Stands
  <2> QED BY <2>1, <2>2, <1>2, <1>3, <1>4, <1>5 DEF ExactInv, CounterRight
<1> QED BY <1>7, <1>8 DEF ExactInv

\* The counter goes up by one, and so does the number of messages counted.
LEMMA SetExact ==
  ASSUME InboxTypeOK, ConsumersOK, ExactInv, exact, NEW c \in Consumers, SetCount(c)
  PROVE  ExactInv'
<1> PICK k : k = [consumer[c] EXCEPT !.step = "save"]
  OBVIOUS
<1> PICK m : m = consumer[c].letter
  OBVIOUS
<1>1. consumer[c] # Waiting /\ consumer[c].step = "set" /\ consumer[c] \in Consumer
  BY StandsSomewhere, StandingWorks DEF SetCount, Stands
<1>2. /\ k.step = "save" /\ k # Waiting /\ k.letter = m /\ m \in Letters
      /\ k.staged = consumer[c].staged /\ k.verdict = "Sended"
  BY <1>1 DEF Consumer, Waiting, ConsumersOK, ConsumerOK
<1>3. /\ consumer' = [consumer EXCEPT ![c] = k] /\ consumer'[c] = k
      /\ \A d \in Consumers : d # c => consumer'[d] = consumer[d]
  BY DEF SetCount, Goes, InboxTypeOK
<1>4. /\ UNCHANGED <<stored, status, commands>> /\ Counting(c)
      /\ unread' = Cardinality(Included) + 1
  <2>1. Counting(c)
    BY <1>1 DEF Counting
  <2> QED BY <2>1 DEF SetCount, ExactInv, CounterRight
<1>5. Included' = Included \cup {m} /\ m \notin Included
  <2>1. m \notin Included
    BY <1>1, <1>2 DEF Included, ExactInv, WorkLeft, OneWorker, Waiting
  <2>2. \A n \in Letters :
           n \in Included' <=> n \in Included \/ n = m
    <3>2. m \in Included'
      BY <1>2, <1>3 DEF Included
    <3>3. ASSUME NEW n \in Letters, n \in Included PROVE n \in Included'
      <4>1. CASE status[n] = "Sended"
        BY <4>1, <1>4 DEF Included
      <4>2. CASE status[n] # "Sended"
        <5>1. PICK d \in Consumers : /\ consumer[d].step = "save" /\ consumer[d].verdict = "Sended"
                                     /\ consumer[d].letter = n
          BY <3>3, <4>2 DEF Included
        <5>2. d # c
          BY <5>1, <1>1
        <5> QED BY <5>1, <5>2, <1>3 DEF Included
      <4> QED BY <4>1, <4>2
    <3>4. ASSUME NEW n \in Letters, n \in Included', n # m PROVE n \in Included
      <4>1. CASE status[n] = "Sended"
        BY <4>1 DEF Included
      <4>2. CASE status[n] # "Sended"
        <5>1. PICK d \in Consumers : /\ consumer'[d].step = "save" /\ consumer'[d].verdict = "Sended"
                                     /\ consumer'[d].letter = n
          BY <3>4, <4>2, <1>4 DEF Included
        <5>2. d # c
          BY <5>1, <3>4, <1>2, <1>3
        <5> QED BY <5>1, <5>2, <1>3 DEF Included
      <4> QED BY <4>1, <4>2
    <3> QED BY <3>2, <3>3, <3>4
  <2>3. Included' = Included \cup {m}
    BY <2>2, <1>2 DEF Included
  <2> QED BY <2>1, <2>3
<1>6. IsFiniteSet(Included') /\ Cardinality(Included') = Cardinality(Included) + 1
  BY <1>5, FS_AddElement DEF ExactInv, CounterRight
<1>7. OneCopy' /\ OneWorker' /\ WorkLeft'
  BY <1>1, <1>2, <1>3, <1>4 DEF ExactInv, OneCopy, OneWorker, WorkLeft
<1>8. CounterRight'
  <2>1. \A d \in Consumers : ~Counting(d)' /\ ~Stands(d, "set")'
    BY <1>2, <1>3, <1>4 DEF Counting, Stands, ExactInv, CounterRight
  <2> QED BY <2>1, <1>4, <1>5, <1>6 DEF CounterRight
<1> QED BY <1>7, <1>8 DEF ExactInv

LEMMA SaveExact ==
  ASSUME InboxTypeOK, ConsumersOK, ExactInv, exact, exact', NEW c \in Consumers, SaveLetter(c)
  PROVE  ExactInv'
<1>1. consumer[c] # Waiting /\ consumer[c].step = "save" /\ consumer[c] \in Consumer
  BY StandsSomewhere, StandingWorks DEF SaveLetter, SaveCommitted, Stands
<1> PICK m : m = consumer[c].letter
  OBVIOUS
<1>2. SaveCommitted(c) /\ Closes(c) /\ UNCHANGED <<unread, commands>> /\ m \in Letters
  BY <1>1 DEF SaveLetter, ExactInv, WorkLeft, Consumer
<1>3. /\ consumer' = [consumer EXCEPT ![c] = Waiting] /\ consumer'[c] = Waiting
      /\ \A d \in Consumers : d # c => consumer'[d] = consumer[d]
  BY <1>2 DEF Closes, Goes, InboxTypeOK
<1>4. /\ status' = [status EXCEPT ![m] = consumer[c].verdict]
      /\ stored' \subseteq stored \cup {m}
  BY <1>2 DEF SaveCommitted
<1>5. \A d \in Consumers : d # c /\ consumer[d] # Waiting => consumer[d].letter # m
  BY <1>1 DEF ExactInv, OneWorker
<1>6. Included' = Included
  <2>1. m \in Included <=> consumer[c].verdict = "Sended"
    <3>1. status[m] # "Sended"
      BY <1>1 DEF ExactInv, WorkLeft
    <3> QED BY <3>1, <1>1, <1>2, <1>5 DEF Included, Waiting
  <2>2. m \in Included' <=> consumer[c].verdict = "Sended"
    BY <1>2, <1>3, <1>4, <1>5 DEF Included, Waiting, InboxTypeOK
  <2>3. \A n \in Letters : n # m => (n \in Included' <=> n \in Included)
    BY <1>1, <1>3, <1>4 DEF Included, Waiting, InboxTypeOK
  <2> QED BY <2>1, <2>2, <2>3 DEF Included
<1>7. OneCopy' /\ OneWorker'
  BY <1>1, <1>2, <1>3, <1>4 DEF ExactInv, OneCopy, OneWorker, InboxTypeOK
<1>8. WorkLeft'
  BY <1>1, <1>3, <1>4, <1>5 DEF ExactInv, WorkLeft, InboxTypeOK
<1>9. CounterRight'
  <2>1. \A d \in Consumers : /\ Counting(d)' => d # c
                             /\ Stands(d, "set")' <=> Stands(d, "set")
    BY <1>1, <1>3 DEF Counting, Stands, Waiting
  <2>2. \A d \in Consumers : Counting(d)' => Counting(d) /\ consumer'[d] = consumer[d]
    BY <2>1, <1>3 DEF Counting
  <2> QED BY <2>1, <2>2, <1>2, <1>6 DEF ExactInv, CounterRight
<1> QED BY <1>7, <1>8, <1>9 DEF ExactInv

LEMMA ExactNext ==
  ASSUME InboxInv, ExactInv, [InboxNext]_inboxVars
  PROVE  ExactInv'
<1> SUFFICES ASSUME exact' PROVE ExactInv'
  BY DEF ExactInv
<1>1. CASE UNCHANGED inboxVars
  BY <1>1 DEF inboxVars, ExactInv, OneCopy, OneWorker, WorkLeft, CounterRight, Included,
     Counting, Stands
<1>2. CASE UserAppears
  BY <1>2 DEF UserAppears, ExactInv, OneCopy, OneWorker, WorkLeft, CounterRight, Included,
     Counting, Stands
<1>3. CASE InboxNext /\ ~UserAppears
  <2>1. exact
    BY <1>3 DEF InboxNext, CounterExpires, TakeLetter, LoadLetter, FindInbox, InsertInbox,
       GetCount, RemoveCount, SetCount, SaveLetter, LetterCallFails, LetterReturns
  <2>2. ~CounterExpires /\ \A c \in Consumers : ~LetterCallFails(c) /\ ~LetterReturns(c)
    BY DEF CounterExpires, LetterCallFails, LetterReturns
  <2>3. PICK c \in Consumers :
          \/ \E m \in Letters : TakeLetter(c, m)
          \/ LoadLetter(c) \/ FindInbox(c) \/ InsertInbox(c)
          \/ GetCount(c) \/ RemoveCount(c) \/ SetCount(c) \/ SaveLetter(c)
    BY <1>3, <2>2 DEF InboxNext
  <2> QED
    BY <2>1, <2>3, TakeExact, LoadExact, FindExact, InsertExact, GetExact, RemoveExact,
       SetExact, SaveExact DEF InboxInv
<1> QED BY <1>1, <1>2, <1>3

-----------------------------------------------------------------------------
(* The theorems about the inbox                                            *)

\* Every behaviour of the inbox keeps the invariant.
LEMMA InboxInvariant == InboxSpec => []InboxInv
BY InboxInitOK, InboxNextOK, PTL DEF InboxSpec

\* The types, and the shape of the tables: no inbox without its user, no message
\* without its inbox.
THEOREM InboxTypeCorrect == InboxSpec => []InboxTypeOK
<1>1. InboxInv => InboxTypeOK
  BY DEF InboxInv
<1> QED BY <1>1, InboxInvariant, PTL

\* SendNotificationMessageConsumer marks a message as sent only if it is stored, or
\* its user was unknown when it was handled, whatever fails and is repeated.
THEOREM InboxNotified == InboxSpec => []NotifiedMeansStored
<1>1. InboxInv => NotifiedMeansStored
  BY DEF InboxInv
<1> QED BY <1>1, InboxInvariant, PTL

\* Only the first message of an inbox, which AddMessageToUserInbox commits before
\* the row, can be stored and stay Pending: one message, however many there are.
THEOREM InboxOneStranded == InboxSpec => []OneStranded
<1>1. InboxInv => OneStranded
  BY StrandedAtMostOne DEF InboxInv
<1> QED BY <1>1, InboxInvariant, PTL

\* IncreaseUserUnreadInboxMessageCount: while no call failed, the entry did not
\* expire and no two consumers were between its read and its write, the cached
\* counter is the number of messages marked as sent, for any number of both.
THEOREM InboxUnread == InboxSpec => []UnreadExact
<1>1. InboxInv /\ ExactInv => UnreadExact
  <2> SUFFICES ASSUME InboxInv, ExactInv, exact, \A c \in Consumers : consumer[c] = Waiting
               PROVE  UnreadExact
    BY DEF UnreadExact
  <2>1. Included = {m \in Letters : status[m] = "Sended"}
    BY DEF Included, Waiting
  <2>2. \A c \in Consumers : ~Stands(c, "set")
    BY DEF Stands, Waiting
  <2> QED BY <2>1, <2>2 DEF ExactInv, CounterRight, UnreadExact
<1>2. InboxSpec => []ExactInv
  BY ExactInit, ExactNext, InboxInvariant, PTL DEF InboxSpec
<1> QED BY <1>1, <1>2, InboxInvariant, PTL

-----------------------------------------------------------------------------
(* The hub                                                                 *)

\* Connections the hub has been told of and has not been told to have lost.
Told == {p \in Pages : server[p] \in {"on", "leaving"}}

InCallback == {p \in Pages : server[p] \in {"entering", "leaving"}}

RealTimeTypes ==
  /\ hub \in Pages \cup {NoPage}
  /\ connectedUsers \subseteq Pages
  /\ totals \in [on : Nat, off : Nat]
  /\ server \in [Pages -> {"none", "open", "entering", "on", "leaving", "off"}]
  /\ link \in [Pages -> {"none", "up", "cut"}]
  /\ page \in [Pages -> {"none", "starting", "connected", "ready", "closed", "failed"}]
  /\ wire \in [Pages -> Seq(Notices)]
  /\ shown \in [Pages -> SUBSET Notices]
  /\ notice \in [Notices -> {"queued", "consumed", "error"}]
  /\ restarts \in 0..MaxRestarts
  /\ serial \in BOOLEAN
  /\ owed \in [Pages -> SUBSET Notices]

\* The totals count every callback, overlapping or not; the list of users follows
\* them as long as the hub's Context is that of the callback under way, and the
\* hub has Clients once it has seen a callback.
HubInv ==
  /\ totals.on = totals.off + Cardinality(Told)
  /\ serial => connectedUsers = Told
  /\ serial => \A p \in InCallback : hub = p
  /\ hub = NoPage => Told \cup InCallback = {}

\* A page is owed messages only once it is ready, and its link can then only be cut.
PageInv ==
  /\ \A p \in Pages : owed[p] # {} => page[p] \in {"ready", "closed"}
  /\ \A p \in Pages : page[p] = "closed" => link[p] = "cut"
  /\ \A p \in Pages : page[p] = "ready" => link[p] # "none"
  /\ \A p \in Pages : page[p] = "connected" => link[p] # "none"

RealTimeInv == RealTimeTypes /\ HubInv /\ PageInv /\ ReadyPageGetsIt

hubVars == <<hub, connectedUsers, totals, server, serial>>

-----------------------------------------------------------------------------
(* The hub                                                                 *)

LEMMA ToldFinite == IsFiniteSet(Told) /\ Cardinality(Told) \in Nat
<1>1. Told \subseteq Pages
  BY DEF Told
<1> QED BY <1>1, RealTimeAssumption, FS_Subset, FS_CardinalityType

LEMMA HubKeeps == ASSUME HubInv, UNCHANGED hubVars PROVE HubInv'
<1>1. Told' = Told /\ InCallback' = InCallback
  BY DEF hubVars, Told, InCallback
<1> QED BY <1>1 DEF HubInv, hubVars

LEMMA InitialHub == ASSUME RealTimeInit PROVE HubInv
<1>1. Told = {} /\ InCallback = {}
  BY DEF RealTimeInit, Told, InCallback
<1>2. Cardinality(Told) = 0
  BY <1>1, FS_EmptySet
<1> QED BY <1>1, <1>2 DEF RealTimeInit, HubInv

LEMMA AcceptHub == ASSUME RealTimeTypes, HubInv, NEW p \in Pages, AcceptPage(p) PROVE HubInv'
<1>1. Told' = Told /\ InCallback' = InCallback
  BY DEF AcceptPage, RealTimeTypes, Told, InCallback
<1> QED BY <1>1 DEF HubInv, AcceptPage

\* A callback begins: the hub's Context is its connection.
LEMMA CallbackHub ==
  ASSUME RealTimeTypes, HubInv, NEW p \in Pages, Connecting(p) \/ Disconnecting(p)
  PROVE  HubInv'
<1>1. PICK s \in {"entering", "leaving"} : InitializeHub(p, s)
  BY DEF Connecting, Disconnecting
<1>2. Told' = Told
  BY DEF Connecting, Disconnecting, InitializeHub, RealTimeTypes, Told
<1>3. InCallback' = InCallback \cup {p}
  BY <1>1 DEF InitializeHub, RealTimeTypes, InCallback
<1>4. serial' => serial /\ InCallback = {}
  BY <1>1 DEF InitializeHub, InCallback
<1>5. hub' = p /\ p # NoPage /\ UNCHANGED <<connectedUsers, totals>>
  BY <1>1, RealTimeAssumption DEF InitializeHub
<1> QED BY <1>2, <1>3, <1>4, <1>5 DEF HubInv

LEMMA ConnectedHub ==
  ASSUME RealTimeTypes, HubInv, NEW p \in Pages, OnConnected(p)
  PROVE  HubInv'
<1>1. Told' = Told \cup {p} /\ p \notin Told /\ p \in InCallback /\ InCallback' = InCallback \ {p}
  BY DEF OnConnected, RealTimeTypes, Told, InCallback
<1>2. Cardinality(Told') = Cardinality(Told) + 1
  BY <1>1, ToldFinite, FS_AddElement
<1>3. totals'.on = totals.on + 1 /\ totals'.off = totals.off
  BY DEF OnConnected, RealTimeTypes
<1>4. totals'.on = totals'.off + Cardinality(Told')
  BY <1>2, <1>3, ToldFinite DEF HubInv, RealTimeTypes
<1>5. UNCHANGED <<hub, serial>> /\ connectedUsers' = connectedUsers \cup {hub}
  BY DEF OnConnected
<1>6. hub # NoPage
  BY <1>1 DEF HubInv
<1> QED BY <1>1, <1>4, <1>5, <1>6 DEF HubInv

LEMMA DisconnectedHub ==
  ASSUME RealTimeTypes, HubInv, NEW p \in Pages, OnDisconnected(p)
  PROVE  HubInv'
<1>1. Told' = Told \ {p} /\ p \in Told /\ p \in InCallback /\ InCallback' = InCallback \ {p}
  BY DEF OnDisconnected, RealTimeTypes, Told, InCallback
<1>2. Cardinality(Told') = Cardinality(Told) - 1
  BY <1>1, ToldFinite, FS_RemoveElement
<1>3. totals'.on = totals.on /\ totals'.off = totals.off + 1
  BY DEF OnDisconnected, RealTimeTypes
<1>4. totals'.on = totals'.off + Cardinality(Told')
  BY <1>2, <1>3, ToldFinite DEF HubInv, RealTimeTypes
<1>5. UNCHANGED <<hub, serial>> /\ connectedUsers' = connectedUsers \ {hub}
  BY DEF OnDisconnected
<1>6. hub # NoPage
  BY <1>1 DEF HubInv
<1> QED BY <1>1, <1>4, <1>5, <1>6 DEF HubInv

LEMMA RestartedHub == ASSUME RealTimeTypes, HubInv, RestartHub PROVE HubInv'
<1>1. Told' = {} /\ InCallback' = {}
  BY DEF RestartHub, Told, InCallback
<1>2. Cardinality(Told') = 0
  BY <1>1, FS_EmptySet
<1>3. totals'.on = 0 /\ totals'.off = 0 /\ connectedUsers' = {}
  BY DEF RestartHub
<1> QED BY <1>1, <1>2, <1>3 DEF HubInv

-----------------------------------------------------------------------------
(* The pages                                                               *)

pageVars == <<page, link, wire, shown, owed>>

LEMMA PagesKeep ==
  ASSUME PageInv, ReadyPageGetsIt, UNCHANGED pageVars
  PROVE  PageInv' /\ ReadyPageGetsIt'
BY DEF PageInv, ReadyPageGetsIt, pageVars

LEMMA InitialPages == ASSUME RealTimeInit PROVE PageInv /\ ReadyPageGetsIt
BY DEF RealTimeInit, PageInv, ReadyPageGetsIt

\* Steps of the page's own state, before it is ready or after its link is cut.
LEMMA MovePages ==
  ASSUME RealTimeTypes, PageInv, ReadyPageGetsIt, NEW p \in Pages,
         Start(p) \/ StartFails(p) \/ Handshake(p) \/ OnSignalRConnect(p) \/ OnClose(p)
  PROVE  RealTimeTypes' /\ PageInv' /\ ReadyPageGetsIt'
<1>1. CASE Start(p)
  BY <1>1 DEF Start, PageBecomes, RealTimeTypes, PageInv, ReadyPageGetsIt
<1>2. CASE StartFails(p)
  BY <1>2 DEF StartFails, PageBecomes, RealTimeTypes, PageInv, ReadyPageGetsIt
<1>3. CASE Handshake(p)
  <2>1. owed[p] = {}
    BY <1>3 DEF Handshake, PageBecomes, PageInv
  <2> QED BY <1>3, <2>1 DEF Handshake, PageBecomes, RealTimeTypes, PageInv, ReadyPageGetsIt
<1>4. CASE OnSignalRConnect(p)
  BY <1>4 DEF OnSignalRConnect, PageBecomes, RealTimeTypes, PageInv, ReadyPageGetsIt
<1>5. CASE OnClose(p)
  BY <1>5 DEF OnClose, PageBecomes, RealTimeTypes, PageInv, ReadyPageGetsIt
<1> QED BY <1>1, <1>2, <1>3, <1>4, <1>5

\* What a message does on the wire.
LEMMA Appended ==
  ASSUME NEW q \in Seq(Notices), NEW m \in Notices
  PROVE  /\ Append(q, m) \in Seq(Notices)
         /\ \E i \in DOMAIN Append(q, m) : Append(q, m)[i] = m
         /\ \A i \in DOMAIN q : i \in DOMAIN Append(q, m) /\ Append(q, m)[i] = q[i]
<1>1. Len(q) + 1 \in DOMAIN Append(q, m) /\ Append(q, m)[Len(q) + 1] = m
  OBVIOUS
<1> QED BY <1>1

LEMMA Received ==
  ASSUME NEW q \in Seq(Notices), q # <<>>
  PROVE  /\ Tail(q) \in Seq(Notices) /\ Head(q) \in Notices
         /\ \A i \in DOMAIN q : q[i] = Head(q) \/ \E j \in DOMAIN Tail(q) : Tail(q)[j] = q[i]
<1>1. Tail(q) \in Seq(Notices) /\ Head(q) \in Notices
  OBVIOUS
<1>2. ASSUME NEW i \in DOMAIN q, i # 1
      PROVE  \E j \in DOMAIN Tail(q) : Tail(q)[j] = q[i]
  <2>1. i - 1 \in DOMAIN Tail(q) /\ Tail(q)[i - 1] = q[i]
    BY <1>2
  <2> QED BY <2>1
<1> QED BY <1>1, <1>2

\* What leaves the wire is shown, if anything is owed: then the page is ready.
LEMMA ReceivePages ==
  ASSUME RealTimeTypes, PageInv, ReadyPageGetsIt, NEW p \in Pages, Receive(p)
  PROVE  RealTimeTypes' /\ PageInv' /\ ReadyPageGetsIt'
<1> DEFINE q == wire[p]
<1>1. q \in Seq(Notices) /\ q # <<>> /\ link[p] = "up"
  BY DEF Receive, RealTimeTypes
<1>2. /\ Tail(q) \in Seq(Notices) /\ Head(q) \in Notices
      /\ \A i \in DOMAIN q : q[i] = Head(q) \/ \E j \in DOMAIN Tail(q) : Tail(q)[j] = q[i]
  BY <1>1, Received
<1>3. /\ wire' = [wire EXCEPT ![p] = Tail(q)]
      /\ shown' = IF page[p] = "ready" THEN [shown EXCEPT ![p] = @ \cup {Head(q)}] ELSE shown
      /\ UNCHANGED <<page, link, owed>>
  BY DEF Receive
<1>4. wire' \in [Pages -> Seq(Notices)] /\ shown' \in [Pages -> SUBSET Notices]
  BY <1>2, <1>3 DEF RealTimeTypes
<1>5. RealTimeTypes'
  BY <1>4 DEF RealTimeTypes, Receive
<1>6. PageInv'
  BY <1>3 DEF PageInv
<1>7. ReadyPageGetsIt'
  <2> SUFFICES ASSUME NEW o \in Pages, NEW m \in owed[o], link[o] # "cut"
               PROVE  m \in shown'[o] \/ \E i \in DOMAIN wire'[o] : wire'[o][i] = m
    BY <1>3 DEF ReadyPageGetsIt
  <2>1. m \in shown[o] \/ \E i \in DOMAIN wire[o] : wire[o][i] = m
    BY DEF ReadyPageGetsIt
  <2>2. CASE o # p
    BY <2>1, <2>2, <1>3 DEF RealTimeTypes
  <2>3. CASE o = p
    <3>1. page[p] = "ready"
      BY <2>3, <1>1 DEF PageInv, RealTimeTypes
    <3>2. shown'[p] = shown[p] \cup {Head(q)} /\ wire'[p] = Tail(q)
      BY <3>1, <1>3 DEF RealTimeTypes
    <3> QED BY <2>1, <2>3, <3>2, <1>2
  <2> QED BY <2>2, <2>3
<1> QED BY <1>5, <1>6, <1>7

LEMMA CutPages ==
  ASSUME RealTimeTypes, PageInv, ReadyPageGetsIt, NEW p \in Pages, Cut(p)
  PROVE  RealTimeTypes' /\ PageInv' /\ ReadyPageGetsIt'
<1>1. /\ link' = [link EXCEPT ![p] = "cut"] /\ wire' = [wire EXCEPT ![p] = <<>>]
      /\ UNCHANGED <<page, shown, owed>>
  BY DEF Cut
<1>2. <<>> \in Seq(Notices)
  OBVIOUS
<1>3. RealTimeTypes'
  BY <1>1, <1>2 DEF RealTimeTypes, Cut
<1>4. PageInv'
  BY <1>1 DEF PageInv, RealTimeTypes
<1>5. ReadyPageGetsIt'
  BY <1>1 DEF ReadyPageGetsIt, RealTimeTypes
<1> QED BY <1>3, <1>4, <1>5

LEMMA RestartPages ==
  ASSUME RealTimeTypes, PageInv, ReadyPageGetsIt, RestartHub
  PROVE  RealTimeTypes' /\ PageInv' /\ ReadyPageGetsIt'
<1>1. /\ link' = [p \in Pages |-> IF link[p] = "none" THEN "none" ELSE "cut"]
      /\ wire' = [p \in Pages |-> <<>>] /\ UNCHANGED <<page, shown, owed>>
  BY DEF RestartHub
<1>2. restarts' \in 0..MaxRestarts /\ totals' \in [on : Nat, off : Nat]
      /\ wire' \in [Pages -> Seq(Notices)]
  BY RealTimeAssumption DEF RestartHub, RealTimeTypes
<1>3. RealTimeTypes'
  BY <1>1, <1>2 DEF RealTimeTypes, RestartHub
<1>4. PageInv'
  BY <1>1 DEF PageInv, RealTimeTypes
<1>5. ReadyPageGetsIt'
  <2>1. \A p \in Pages : owed[p] # {} => link[p] # "none"
    BY DEF PageInv
  <2> QED BY <2>1, <1>1 DEF ReadyPageGetsIt, RealTimeTypes
<1> QED BY <1>3, <1>4, <1>5

\* The hub has Clients if a page is owed the message, and sends to it.
LEMMA SendPages ==
  ASSUME RealTimeTypes, HubInv, PageInv, ReadyPageGetsIt, NEW m \in Notices, NEW to \in SUBSET Pages,
         SendMessageToUser(m, to) \/ SendMessage(m, to)
  PROVE  RealTimeTypes' /\ PageInv' /\ ReadyPageGetsIt'
<1>1. /\ UNCHANGED <<hub, connectedUsers, totals, server, link, page, shown, restarts, serial>>
      /\ Owes(m, to)
  BY DEF SendMessageToUser, SendMessage
<1>2. notice' \in [Notices -> {"queued", "consumed", "error"}]
  BY DEF SendMessageToUser, SendMessage, SendAsync, RealTimeTypes
<1>3. owed' = [p \in Pages |-> IF /\ p \in to /\ page[p] = "ready" /\ link[p] = "up"
                                 /\ server[p] \in {"entering", "on"}
                              THEN owed[p] \cup {m} ELSE owed[p]]
  BY <1>1 DEF Owes
<1>4. \/ wire' = wire /\ hub = NoPage
      \/ wire' = [p \in Pages |-> IF p \in to \cap Open /\ link[p] = "up"
                                 THEN Append(wire[p], m) ELSE wire[p]]
  BY DEF SendMessageToUser, SendMessage, SendAsync, HasClients
<1>5. \A p \in Pages : /\ Append(wire[p], m) \in Seq(Notices)
                       /\ \E i \in DOMAIN Append(wire[p], m) : Append(wire[p], m)[i] = m
                       /\ \A i \in DOMAIN wire[p] : i \in DOMAIN Append(wire[p], m)
                                                   /\ Append(wire[p], m)[i] = wire[p][i]
  BY Appended DEF RealTimeTypes
<1>6. owed' \in [Pages -> SUBSET Notices]
  BY <1>3 DEF RealTimeTypes
<1>7. wire' \in [Pages -> Seq(Notices)]
  BY <1>4, <1>5 DEF RealTimeTypes
<1>8. RealTimeTypes'
  BY <1>1, <1>2, <1>6, <1>7 DEF RealTimeTypes
<1>9. PageInv'
  BY <1>1, <1>3 DEF PageInv
<1>10. ReadyPageGetsIt'
  <2> SUFFICES ASSUME NEW o \in Pages, NEW n \in owed'[o], link[o] # "cut"
               PROVE  n \in shown[o] \/ \E i \in DOMAIN wire'[o] : wire'[o][i] = n
    BY <1>1 DEF ReadyPageGetsIt
  <2>1. CASE n \in owed[o]
    <3>1. n \in shown[o] \/ \E i \in DOMAIN wire[o] : wire[o][i] = n
      BY <2>1 DEF ReadyPageGetsIt
    <3>2. wire'[o] = wire[o] \/ wire'[o] = Append(wire[o], m)
      BY <1>4 DEF RealTimeTypes
    <3> QED BY <3>1, <3>2, <1>5
  <2>2. CASE n \notin owed[o]
    <3>1. n = m /\ o \in to /\ link[o] = "up" /\ server[o] \in {"entering", "on"}
      BY <2>2, <1>3
    <3>2. o \in Open /\ hub # NoPage
      BY <3>1 DEF Open, HubInv, Told, InCallback
    <3>3. wire'[o] = Append(wire[o], m)
      BY <3>1, <3>2, <1>4
    <3> QED BY <3>1, <3>3, <1>5
  <2> QED BY <2>1, <2>2
<1> QED BY <1>8, <1>9, <1>10

-----------------------------------------------------------------------------
(* The theorems                                                            *)

LEMMA RealTimeTypesInit == ASSUME RealTimeInit PROVE RealTimeTypes
<1>1. /\ totals \in [on : Nat, off : Nat] /\ restarts \in 0..MaxRestarts
      /\ wire \in [Pages -> Seq(Notices)]
  BY RealTimeAssumption DEF RealTimeInit
<1> QED BY <1>1 DEF RealTimeInit, RealTimeTypes

LEMMA Counted ==
  ASSUME NEW t \in [on : Nat, off : Nat]
  PROVE  /\ [t EXCEPT !.on = @ + 1] \in [on : Nat, off : Nat]
         /\ [t EXCEPT !.off = @ + 1] \in [on : Nat, off : Nat]
<1>1. t.on + 1 \in Nat /\ t.off + 1 \in Nat
  OBVIOUS
<1>2. [t EXCEPT !.on = @ + 1] = [on |-> t.on + 1, off |-> t.off]
  OBVIOUS
<1>3. [t EXCEPT !.off = @ + 1] = [on |-> t.on, off |-> t.off + 1]
  OBVIOUS
<1> QED BY <1>1, <1>2, <1>3

LEMMA HubTypes ==
  ASSUME RealTimeTypes, HubInv, NEW p \in Pages,
         \/ AcceptPage(p) \/ Connecting(p) \/ Disconnecting(p)
         \/ OnConnected(p) \/ OnDisconnected(p)
  PROVE  RealTimeTypes' /\ UNCHANGED pageVars
<1>1. CASE AcceptPage(p)
  BY <1>1 DEF AcceptPage, RealTimeTypes, pageVars
<1>2. CASE Connecting(p)
  BY <1>2 DEF Connecting, InitializeHub, RealTimeTypes, pageVars
<1>3. CASE Disconnecting(p)
  BY <1>3 DEF Disconnecting, InitializeHub, RealTimeTypes, pageVars
<1>4. CASE OnConnected(p)
  <2>1. totals' = [totals EXCEPT !.on = @ + 1] /\ totals \in [on : Nat, off : Nat]
    BY <1>4 DEF OnConnected, RealTimeTypes
  <2>2. totals' \in [on : Nat, off : Nat]
    BY <2>1, Counted
  <2>3. hub \in Pages
    BY <1>4 DEF RealTimeTypes, HubInv, InCallback, OnConnected
  <2>4. connectedUsers' \subseteq Pages
    BY <1>4, <2>3 DEF OnConnected, RealTimeTypes
  <2>5. server' \in [Pages -> {"none", "open", "entering", "on", "leaving", "off"}]
    BY <1>4 DEF OnConnected, RealTimeTypes
  <2>6. UNCHANGED <<hub, link, page, wire, shown, notice, restarts, serial, owed>>
    BY <1>4 DEF OnConnected
  <2> QED BY <2>2, <2>4, <2>5, <2>6 DEF RealTimeTypes, pageVars
<1>5. CASE OnDisconnected(p)
  <2>1. totals' = [totals EXCEPT !.off = @ + 1] /\ totals \in [on : Nat, off : Nat]
    BY <1>5 DEF OnDisconnected, RealTimeTypes
  <2>2. totals' \in [on : Nat, off : Nat]
    BY <2>1, Counted
  <2>3. connectedUsers' \subseteq Pages
    BY <1>5 DEF OnDisconnected, RealTimeTypes
  <2>4. server' \in [Pages -> {"none", "open", "entering", "on", "leaving", "off"}]
    BY <1>5 DEF OnDisconnected, RealTimeTypes
  <2>5. UNCHANGED <<hub, link, page, wire, shown, notice, restarts, serial, owed>>
    BY <1>5 DEF OnDisconnected
  <2> QED BY <2>2, <2>3, <2>4, <2>5 DEF RealTimeTypes, pageVars
<1> QED BY <1>1, <1>2, <1>3, <1>4, <1>5

LEMMA RealTimeStutterOK ==
  ASSUME RealTimeInv, UNCHANGED realTimeVars
  PROVE  RealTimeInv'
<1>1. UNCHANGED hubVars /\ UNCHANGED pageVars
  BY DEF realTimeVars, hubVars, pageVars
<1>2. RealTimeTypes'
  BY DEF RealTimeInv, RealTimeTypes, realTimeVars
<1> QED BY <1>1, <1>2, HubKeeps, PagesKeep DEF RealTimeInv

\* What the pages do leaves the hub as it is.
LEMMA PageStep ==
  ASSUME RealTimeInv, NEW p \in Pages,
         \/ Start(p) \/ StartFails(p) \/ Handshake(p) \/ OnSignalRConnect(p)
         \/ OnClose(p) \/ Receive(p) \/ Cut(p)
  PROVE  RealTimeInv'
<1>1. UNCHANGED hubVars
  BY DEF Start, StartFails, Handshake, OnSignalRConnect, OnClose, Receive, Cut, hubVars
<1>2. HubInv'
  BY <1>1, HubKeeps DEF RealTimeInv
<1>3. RealTimeTypes' /\ PageInv' /\ ReadyPageGetsIt'
  BY MovePages, ReceivePages, CutPages DEF RealTimeInv
<1> QED BY <1>2, <1>3 DEF RealTimeInv

\* What the hub does leaves the pages as they are.
LEMMA HubStep ==
  ASSUME RealTimeInv, NEW p \in Pages,
         \/ AcceptPage(p) \/ Connecting(p) \/ Disconnecting(p)
         \/ OnConnected(p) \/ OnDisconnected(p)
  PROVE  RealTimeInv'
<1>1. RealTimeTypes' /\ UNCHANGED pageVars
  BY HubTypes DEF RealTimeInv
<1>2. HubInv'
  BY AcceptHub, CallbackHub, ConnectedHub, DisconnectedHub DEF RealTimeInv
<1>3. PageInv' /\ ReadyPageGetsIt'
  BY <1>1, PagesKeep DEF RealTimeInv
<1> QED BY <1>1, <1>2, <1>3 DEF RealTimeInv

LEMMA SendStep ==
  ASSUME RealTimeInv, NEW m \in Notices, NEW to \in SUBSET Pages,
         SendMessageToUser(m, to) \/ SendMessage(m, to)
  PROVE  RealTimeInv'
<1>1. UNCHANGED hubVars
  BY DEF SendMessageToUser, SendMessage, hubVars
<1>2. HubInv'
  BY <1>1, HubKeeps DEF RealTimeInv
<1>3. RealTimeTypes' /\ PageInv' /\ ReadyPageGetsIt'
  BY SendPages DEF RealTimeInv
<1> QED BY <1>2, <1>3 DEF RealTimeInv

\* The inductive invariant holds in every reachable state.
THEOREM RealTimeInvariant == RealTimeSpec => []RealTimeInv
<1>1. RealTimeInit => RealTimeInv
  BY RealTimeTypesInit, InitialHub, InitialPages DEF RealTimeInv
<1>2. RealTimeInv /\ [RealTimeNext]_realTimeVars => RealTimeInv'
  <2> SUFFICES ASSUME RealTimeInv, [RealTimeNext]_realTimeVars PROVE RealTimeInv'
    OBVIOUS
  <2>1. CASE UNCHANGED realTimeVars
    BY <2>1, RealTimeStutterOK
  <2>2. CASE RealTimeNext
    <3>1. CASE RestartHub
      BY <3>1, RestartedHub, RestartPages DEF RealTimeInv
    <3>2. ASSUME NEW p \in Pages,
                 \/ Start(p) \/ StartFails(p) \/ Handshake(p) \/ OnSignalRConnect(p)
                 \/ OnClose(p) \/ Receive(p) \/ Cut(p)
          PROVE  RealTimeInv'
      BY <3>2, PageStep
    <3>3. ASSUME NEW p \in Pages,
                 \/ AcceptPage(p) \/ Connecting(p) \/ Disconnecting(p)
                 \/ OnConnected(p) \/ OnDisconnected(p)
          PROVE  RealTimeInv'
      BY <3>3, HubStep
    <3>4. ASSUME NEW m \in Notices, NEW to \in SUBSET Pages,
                 SendMessageToUser(m, to) \/ SendMessage(m, to)
          PROVE  RealTimeInv'
      BY <3>4, SendStep
    <3> QED BY <2>2, <3>1, <3>2, <3>3, <3>4 DEF RealTimeNext
  <2> QED BY <2>1, <2>2
<1> QED BY <1>1, <1>2, PTL DEF RealTimeSpec

\* Every variable keeps its type, and the hub never counts more connections lost
\* than made.
THEOREM RealTimeTypeCorrect == RealTimeSpec => []RealTimeTypeOK
<1>1. RealTimeInv => RealTimeTypeOK
  <2> SUFFICES ASSUME RealTimeInv PROVE RealTimeTypeOK
    OBVIOUS
  <2>1. totals.off <= totals.on
    BY ToldFinite DEF RealTimeInv, RealTimeTypes, HubInv
  <2> QED BY <2>1 DEF RealTimeInv, RealTimeTypes, RealTimeTypeOK
<1> QED BY <1>1, RealTimeInvariant, PTL

\* As long as no two callbacks of the hub object have overlapped, the users it logs
\* as active are exactly the connections made and not lost.
THEOREM RealTimeActive == RealTimeSpec => []ActiveUsersExact
<1>1. RealTimeInv => ActiveUsersExact
  <2> SUFFICES ASSUME RealTimeInv, serial,
                      \A p \in Pages : server[p] \notin {"entering", "leaving"}
               PROVE  /\ connectedUsers = {p \in Pages : server[p] = "on"}
                      /\ Cardinality(connectedUsers) = totals.on - totals.off
    BY DEF ActiveUsersExact
  <2>1. Told = {p \in Pages : server[p] = "on"}
    BY DEF Told
  <2>2. connectedUsers = Told /\ totals.on = totals.off + Cardinality(Told)
    BY DEF RealTimeInv, HubInv
  <2>3. Cardinality(Told) = totals.on - totals.off
    BY <2>2, ToldFinite DEF RealTimeInv, RealTimeTypes
  <2> QED BY <2>1, <2>2, <2>3
<1> QED BY <1>1, RealTimeInvariant, PTL

\* A page that is ready gets every message consumed for it, however the hub's
\* callbacks overlap, unless its connection is cut.
THEOREM RealTimeReady == RealTimeSpec => []ReadyPageGetsIt
<1>1. RealTimeInv => ReadyPageGetsIt
  BY DEF RealTimeInv
<1> QED BY <1>1, RealTimeInvariant, PTL
=============================================================================
