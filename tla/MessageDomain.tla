--------------------------- MODULE MessageDomain ---------------------------
(***************************************************************************)
(* The Message aggregate of Domain.Core: the channel parts a row carries   *)
(* and the transitions their value objects allow.  A part is abstracted to *)
(* what the dispatch logic reads: its status, its retry counter and, for   *)
(* an SMS, the id the provider gave it.  An operation that the code may    *)
(* refuse with a BussinessException comes as a pair: Can<Op> is the test    *)
(* that does not throw, <Op> the value object it then returns.             *)
(***************************************************************************)
EXTENDS Naturals

\* The channels whose consumers share one shape; push and inbox parts differ.
ChannelNames == {"Sms", "Email", "Telegram"}

SmsStatus == {"Created", "Pending", "Sended", "Delivered", "UnDelivered",
              "Invalid", "InvalidDeny"}

\* The statuses of a message that was sent, as far as the code can tell.
SentStatuses == {"Sended", "Delivered", "UnDelivered"}

\* IdInProvider = null, or a text that no gateway gave out and no report names.
\* A provider numbers the SMSs it accepts from 1.
NoId == 0

Part == [status : SmsStatus, retry : Nat, id : Nat]

NewPart == [status |-> "Created", retry |-> 0, id |-> NoId]

\* Refused unless Created; its callers have just built the part.
Enqueued(part) == [part EXCEPT !.status = "Pending"]

\* Sms.Send and Email.Send test for Pending, Telegram.Send tests nothing.
CanSend(c, part) == c = "Telegram" \/ part.status = "Pending"

Send(c, part, id) ==
  [part EXCEPT !.status = "Sended", !.id = IF c = "Sms" THEN id ELSE @]

CanRetry(part) == part.status = "Pending"

Retry(part) == [part EXCEPT !.retry = @ + 1, !.id = NoId]

CanInvalid(part) == part.status = "Pending"

Invalid(part) == [part EXCEPT !.status = "Invalid", !.id = NoId]

\* No guard in any channel: a deny overwrites whatever status it finds.
\* Telegram is rebuilt by the constructor that forgets the retry counter.
ValidatorDeny(c, part) ==
  [part EXCEPT !.status = "InvalidDeny", !.id = NoId,
               !.retry = IF c = "Telegram" THEN 0 ELSE @]

CanReport(part) == part.status = "Sended"

\* Mutant of Report: an SMS that was not delivered waits to be sent again.
ReportAsPending(part, delivered) ==
  [part EXCEPT !.status = IF delivered THEN "Delivered" ELSE "Pending"]

Report(part, delivered) ==
  [part EXCEPT !.status = IF delivered THEN "Delivered" ELSE "UnDelivered"]

=============================================================================
