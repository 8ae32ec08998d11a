-------------------------- MODULE MessageLifecycle --------------------------
(***************************************************************************)
(* What an SMS promises whoever reads its status and its provider id: it is*)
(* created, queued and settled once; a settled SMS is never taken back; an *)
(* id means that the provider has the SMS, and is kept; a delivery status  *)
(* is shown only for an SMS with an id.  "Sended" alone promises nothing:  *)
(* the answer of the provider may have said nothing at all.  Reports may   *)
(* contradict each other, the last one written stands.                     *)
(***************************************************************************)
CONSTANT Msg

\* reached: messages the provider has; known: messages that have its id.
VARIABLES status, reached, known

vars == <<status, reached, known>>

Init == status = [m \in Msg |-> "Absent"] /\ reached = {} /\ known = {}

Turn(m, from, to) ==
  status[m] = from /\ status' = [status EXCEPT ![m] = to]

Create(m) == Turn(m, "Absent", "Created") /\ UNCHANGED <<reached, known>>

\* Queueing failed: the request will be tried again from the start.
Withdraw(m) == Turn(m, "Created", "Absent") /\ UNCHANGED <<reached, known>>

Enqueue(m) == Turn(m, "Created", "Pending") /\ UNCHANGED <<reached, known>>

\* The provider takes the message (again, if its answer was lost).
Reach(m) ==
  status[m] = "Pending" /\ reached' = reached \cup {m} /\ UNCHANGED <<status, known>>

\* Given up, or sent as far as anybody can tell.
Settle(m) ==
  /\ \E to \in {"Invalid", "InvalidDeny", "Sended"} : Turn(m, "Pending", to)
  /\ UNCHANGED <<reached, known>>

\* The provider's answer was read: the message is known to be there.
Acknowledge(m) ==
  /\ m \in reached /\ Turn(m, "Pending", "Sended")
  /\ known' = known \cup {m}
  /\ UNCHANGED reached

\* Reports that were read together are written one after the other.
Confirm(m) ==
  /\ m \in known
  /\ \E from \in {"Sended", "Delivered", "UnDelivered"},
        to \in {"Delivered", "UnDelivered"} : Turn(m, from, to)
  /\ UNCHANGED <<reached, known>>

Next ==
  \E m \in Msg : \/ Create(m) \/ Withdraw(m) \/ Enqueue(m) \/ Reach(m)
                 \/ Settle(m) \/ Acknowledge(m) \/ Confirm(m)

Spec == Init /\ [][Next]_vars
=============================================================================
