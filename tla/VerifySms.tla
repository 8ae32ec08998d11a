----------------------------- MODULE VerifySms ------------------------------
(***************************************************************************)
(* Verification codes: SendVerifySmsConsumer checks that the code has not  *)
(* expired, calls the gateway configured for it (Mediana for a first code, *)
(* Kavenegar for a repeated or a spoken one) and publishes VerifySmsSent;  *)
(* VerifySmsSentConsumer inserts a VerifyMessages row; the delivery reports*)
(* of Kavenegar find that row by the provider's id.  An invalid command    *)
(* ends as an expired one does.                                            *)
(***************************************************************************)
EXTENDS Naturals, FiniteSets

CONSTANTS
  Codes,            \* SendVerifySms commands
  FirstCodes,       \* those sent through Mediana
  CodeConsumers,    \* concurrent consumers
  VerifyRetries,    \* retries of one delivery (ShortRetry: 3 in the code)
  MaxVerifyFaults,  \* bound: failures
  MaxReports,       \* bound: delivery reports
  EmptyId           \* the empty string Mediana returns for an id

ASSUME VerifyAssumption ==
  /\ FirstCodes \subseteq Codes
  /\ VerifyRetries \in Nat /\ MaxVerifyFaults \in Nat /\ MaxReports \in Nat

VARIABLES
  sends,         \* copies of each SendVerifySms in the queue
  expired,       \* codes whose ExpireTime has passed
  texts,         \* texts the gateways have accepted
  events,        \* VerifySmsSent in the queue
  guids,         \* ids given to events so far
  rows,          \* VerifyMessages
  reports,       \* SmsDeliveryChange in the queue
  reported,      \* all of them so far
  agent,         \* what each consumer is doing
  verifyFaults,  \* failures so far
  disturbed,     \* history: failed calls and second deliveries, per code
  inFlight,      \* history: attempts past their check when the code expired
  late           \* history: texts accepted after that

verifyVars == <<sends, expired, texts, events, guids, rows, reports, reported,
                agent, verifyFaults, disturbed, inFlight, late>>

\* The n-th text of a code; the gateway's id of it.
Text == [code : Codes, n : Nat]

ProviderId == Text \cup {EmptyId}

Event == [guid : Nat, code : Codes, id : ProviderId]

VerifyRow == [guid : Nat, code : Codes, id : ProviderId,
              status : {"Sended", "Delivered", "UnDelivered"}]

Idle == [at |-> "idle"]

Sending == [at : {"check", "call", "fallback", "publish"}, code : Codes,
            attempt : 0..VerifyRetries, id : ProviderId]

Recording == [at : {"insert"}, event : Event, attempt : 0..VerifyRetries]

VerifyTypeOK ==
  /\ sends \in [Codes -> Nat]
  /\ expired \subseteq Codes
  /\ texts \subseteq Text
  /\ events \subseteq Event /\ guids \in Nat
  /\ rows \subseteq VerifyRow
  /\ reports \subseteq reported /\ reported \subseteq Text \X BOOLEAN
  /\ agent \in [CodeConsumers -> Sending \cup Recording \cup {Idle}]
  /\ verifyFaults \in 0..MaxVerifyFaults
  /\ disturbed \in [Codes -> Nat] /\ inFlight \in [Codes -> Nat]
  /\ late \in [Codes -> Nat]
  /\ \A r, s \in rows : r.guid = s.guid => r = s

VerifyInit ==
  /\ sends = [k \in Codes |-> 1] /\ expired = {} /\ texts = {}
  /\ events = {} /\ guids = 0 /\ rows = {} /\ reports = {} /\ reported = {}
  /\ agent = [c \in CodeConsumers |-> Idle]
  /\ verifyFaults = 0
  /\ disturbed = [k \in Codes |-> 0] /\ inFlight = [k \in Codes |-> 0]
  /\ late = [k \in Codes |-> 0]

-----------------------------------------------------------------------------
(* MassTransit and failures                                                *)

Becomes(c, a) == agent' = [agent EXCEPT ![c] = a]

Ends(c) == Becomes(c, Idle)

VerifyFault ==
  /\ verifyFaults < MaxVerifyFaults
  /\ verifyFaults' = verifyFaults + 1

Disturbs(k) == VerifyFault /\ disturbed' = [disturbed EXCEPT ![k] = @ + 1]

RetriedUnchecked(c) ==
  LET a == agent[c] IN
  IF a.attempt < VerifyRetries
  THEN Becomes(c, [a EXCEPT !.attempt = @ + 1]) ELSE Ends(c)

\* ShortRetry, then DiscardFaultedMessages.  A retry starts at the check.
RetriedVerify(c) ==
  LET a == agent[c] IN
  IF a.attempt = VerifyRetries THEN Ends(c)
  ELSE Becomes(c, [a EXCEPT !.attempt = @ + 1,
                            !.at = IF @ = "insert" THEN "insert" ELSE "check"])

TakeSend(c, k) ==
  /\ agent[c] = Idle /\ sends[k] > 0
  /\ sends' = [sends EXCEPT ![k] = @ - 1]
  /\ Becomes(c, [at |-> "check", code |-> k, attempt |-> 0, id |-> EmptyId])
  /\ UNCHANGED <<expired, texts, events, guids, rows, reports, reported,
                 verifyFaults, disturbed, inFlight, late>>

\* The broker hands the command out again; a crash also ends the consumer.
SendReturns(c) ==
  /\ agent[c] \in Sending
  /\ Disturbs(agent[c].code)
  /\ sends' = [sends EXCEPT ![agent[c].code] = @ + 1]
  /\ Ends(c) \/ UNCHANGED agent
  /\ UNCHANGED <<expired, texts, events, guids, rows, reports, reported,
                 inFlight, late>>

\* The code's ExpireTime passes.
Expire(k) ==
  /\ k \notin expired
  /\ expired' = expired \cup {k}
  /\ inFlight' = [inFlight EXCEPT ![k] =
       Cardinality({c \in CodeConsumers : /\ agent[c] \in Sending
                                          /\ agent[c].code = k
                                          /\ agent[c].at \in {"call", "fallback"}})]
  /\ UNCHANGED <<sends, texts, events, guids, rows, reports, reported, agent,
                 verifyFaults, disturbed, late>>

-----------------------------------------------------------------------------
(* SendVerifySmsConsumer and the gateways                                  *)

CheckCode(c) ==
  /\ agent[c].at = "check"
  /\ IF agent[c].code \in expired THEN Ends(c)
     ELSE Becomes(c, [agent[c] EXCEPT !.at = "call"])
  /\ UNCHANGED <<sends, expired, texts, events, guids, rows, reports, reported,
                 verifyFaults, disturbed, inFlight, late>>

TextOf(k) == [code |-> k, n |-> Cardinality({t \in texts : t.code = k}) + 1]

Accepted(k) ==
  /\ texts' = texts \cup {TextOf(k)}
  /\ late' = IF k \in expired THEN [late EXCEPT ![k] = @ + 1] ELSE late

\* A failing call may have reached the gateway.
AcceptedOrNot(k) == Accepted(k) \/ UNCHANGED <<texts, late>>

Answered(c, id) == Becomes(c, [agent[c] EXCEPT !.at = "publish", !.id = id])

CallKavenegarSwallowing(c) ==
  LET k == agent[c].code IN
  /\ agent[c].at = "call" /\ k \notin FirstCodes
  /\ \/ Accepted(k) /\ Answered(c, TextOf(k)) /\ UNCHANGED <<verifyFaults, disturbed>>
     \/ Disturbs(k) /\ AcceptedOrNot(k) /\ Answered(c, EmptyId)
  /\ UNCHANGED <<sends, expired, events, guids, rows, reports, reported, inFlight>>

\* SendVerifyMessage: a failing request throws; a wrong number, an error status
\* or an answer it cannot read is null, which ends the command unrecorded.
CallKavenegar(c) ==
  LET k == agent[c].code IN
  /\ agent[c].at = "call" /\ k \notin FirstCodes
  /\ \/ Accepted(k) /\ Answered(c, TextOf(k)) /\ UNCHANGED <<verifyFaults, disturbed>>
     \/ Disturbs(k) /\ AcceptedOrNot(k) /\ (RetriedVerify(c) \/ Ends(c))
  /\ UNCHANGED <<sends, expired, events, guids, rows, reports, reported, inFlight>>

\* MedianaSmsSender.VerifyAsync: success has no id; an answer that is not a
\* success leads to a plain text; a failing request is swallowed.
CallMediana(c) ==
  LET k == agent[c].code IN
  /\ agent[c].at = "call" /\ k \in FirstCodes
  /\ \/ Accepted(k) /\ Answered(c, EmptyId) /\ UNCHANGED <<verifyFaults, disturbed>>
     \/ /\ Disturbs(k) /\ AcceptedOrNot(k)
        /\ Becomes(c, [agent[c] EXCEPT !.at = "fallback"]) \/ Answered(c, EmptyId)
  /\ UNCHANGED <<sends, expired, events, guids, rows, reports, reported, inFlight>>

\* Its SendAsync: only this one has an id, and no failure leaves it.
FallBack(c) ==
  LET k == agent[c].code IN
  /\ agent[c].at = "fallback"
  /\ \/ Accepted(k) /\ Answered(c, TextOf(k)) /\ UNCHANGED <<verifyFaults, disturbed>>
     \/ Disturbs(k) /\ AcceptedOrNot(k) /\ Answered(c, EmptyId)
  /\ UNCHANGED <<sends, expired, events, guids, rows, reports, reported, inFlight>>

PublishSentThrowing(c) ==
  /\ agent[c].at = "publish"
  /\ \/ /\ guids' = guids + 1 /\ Ends(c) /\ UNCHANGED verifyFaults
        /\ events' = events \cup {[guid |-> guids + 1, code |-> agent[c].code,
                                   id |-> agent[c].id]}
     \/ VerifyFault /\ RetriedVerify(c) /\ UNCHANGED <<events, guids>>
  /\ UNCHANGED <<sends, expired, texts, rows, reports, reported, disturbed,
                 inFlight, late>>

\* An id other than null is published; a failing publish is logged.
PublishSent(c) ==
  /\ agent[c].at = "publish"
  /\ Ends(c)
  /\ \/ /\ guids' = guids + 1 /\ UNCHANGED verifyFaults
        /\ events' = events \cup {[guid |-> guids + 1, code |-> agent[c].code,
                                   id |-> agent[c].id]}
     \/ VerifyFault /\ UNCHANGED <<events, guids>>
  /\ UNCHANGED <<sends, expired, texts, rows, reports, reported, disturbed,
                 inFlight, late>>

-----------------------------------------------------------------------------
(* VerifySmsSentConsumer and the delivery reports                          *)

TakeEvent(c, e) ==
  /\ agent[c] = Idle /\ e \in events
  /\ events' = events \ {e}
  /\ Becomes(c, [at |-> "insert", event |-> e, attempt |-> 0])
  /\ UNCHANGED <<sends, expired, texts, guids, rows, reports, reported,
                 verifyFaults, disturbed, inFlight, late>>

RowOf(e) == [guid |-> e.guid, code |-> e.code, id |-> e.id, status |-> "Sended"]

Inserted(e) == rows' = rows \cup {RowOf(e)}

HasRow(e) == \E r \in rows : r.guid = e.guid

InsertUnkeyed(c) ==
  LET e == agent[c].event IN
  /\ agent[c].at = "insert"
  /\ Inserted(e)
  /\ Ends(c)
  /\ \/ UNCHANGED <<events, verifyFaults>>
     \/ VerifyFault /\ events' = events \cup {e}
  /\ UNCHANGED <<sends, expired, texts, guids, reports, reported, disturbed,
                 inFlight, late>>

\* AddVerifyMessageRequestHandler: the event's id is the row's key, so a second
\* insert throws.  A crash or a lost answer brings the event back.
InsertRow(c) ==
  LET e == agent[c].event IN
  /\ agent[c].at = "insert"
  /\ \/ ~HasRow(e) /\ Inserted(e) /\ Ends(c) /\ UNCHANGED <<events, verifyFaults>>
     \/ HasRow(e) /\ RetriedVerify(c) /\ UNCHANGED <<rows, events, verifyFaults>>
     \/ /\ VerifyFault
        /\ (~HasRow(e) /\ Inserted(e)) \/ UNCHANGED rows
        /\ \/ RetriedVerify(c) /\ UNCHANGED events
           \/ Ends(c) /\ events' = events \cup {e}
  /\ UNCHANGED <<sends, expired, texts, guids, reports, reported, disturbed,
                 inFlight, late>>

\* KaveSmsDeliveryCallback.
ReportText(t, delivered) ==
  /\ t.code \notin FirstCodes /\ <<t, delivered>> \notin reported
  /\ Cardinality(reported) < MaxReports
  /\ reported' = reported \cup {<<t, delivered>>}
  /\ reports' = reports \cup {<<t, delivered>>}
  /\ UNCHANGED <<sends, expired, texts, events, guids, rows, agent, verifyFaults,
                 disturbed, inFlight, late>>

\* SmsDeliveryChangeRequestHandler, for an id no message has: Delivered and
\* UnDelivered look at nothing, so that reading and saving can be one step.
\* Without a row yet, the report is dropped.
CheckVerifyMessage(r) ==
  LET found == {v \in rows : v.id = r[1]} IN
  /\ r \in reports
  /\ reports' = reports \ {r}
  /\ IF found = {} THEN UNCHANGED rows
     ELSE \E v \in found :
            rows' = (rows \ {v}) \cup
              {[v EXCEPT !.status = IF r[2] THEN "Delivered" ELSE "UnDelivered"]}
  /\ UNCHANGED <<sends, expired, texts, events, guids, reported, agent,
                 verifyFaults, disturbed, inFlight, late>>

-----------------------------------------------------------------------------

VerifyNext ==
  \/ \E c \in CodeConsumers :
       \/ \E k \in Codes : TakeSend(c, k)
       \/ \E e \in events : TakeEvent(c, e)
       \/ CheckCode(c) \/ CallKavenegar(c) \/ CallMediana(c) \/ FallBack(c)
       \/ PublishSent(c) \/ InsertRow(c) \/ SendReturns(c)
  \/ \E k \in Codes : Expire(k)
  \/ \E t \in texts, delivered \in BOOLEAN : ReportText(t, delivered)
  \/ \E r \in reports : CheckVerifyMessage(r)

VerifySpec == VerifyInit /\ [][VerifyNext]_verifyVars

-----------------------------------------------------------------------------
(* Properties                                                              *)

\* A row of a code sent through Kavenegar names a text that was accepted.  A row
\* of a first code does not: Mediana's sender turns every failure into an empty
\* id, which is recorded as Sended; only without failures does the row mean a text.
RowMeansText ==
  \A r \in rows :
    /\ r.code \notin FirstCodes => r.id \in texts
    /\ verifyFaults = 0 => \E t \in texts : t.code = r.code

\* A code is texted at most once more for each failed call and each second
\* delivery of its command; a failing publish does not send it again.
TextsAreDisturbances ==
  \A k \in Codes : Cardinality({t \in texts : t.code = k}) <= 1 + disturbed[k]

\* After a code has expired, only the attempts that had passed their check by then
\* can text it, once each, or twice with Mediana's plain text: retries and second
\* deliveries are checked again.
FewLateTexts ==
  \A k \in Codes : late[k] <= inFlight[k] * (IF k \in FirstCodes THEN 2 ELSE 1)

=============================================================================
