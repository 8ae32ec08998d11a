--------------------------------- MODULE Otp ---------------------------------
(***************************************************************************)
(* One-time passwords.  GenerateOtpHandler stores an entry under a fresh   *)
(* reference code and publishes the code; ValidateOtpHandler reads a copy  *)
(* of the entry, decides on the copy and then deletes the entry or writes  *)
(* the copy back with one more attempt.  Between its calls to Redis any    *)
(* other handler may run, the entry may run out, and each call may fail,   *)
(* before or after it took effect.  A code is abstracted to whether the    *)
(* request carries the right one.                                          *)
(***************************************************************************)
EXTENDS Naturals

CONSTANTS
  Ref,          \* reference codes, each given out at most once
  Purpose,      \* purposes, up to letter case
  Handlers,     \* concurrent validation requests
  MaxAttempts,  \* OtpConfiguration.MaxAttempts
  MaxFaults,    \* bound: injected failures
  NoEntry       \* nothing is cached under this key

\* The two kinds of destination the handler knows.
Types == {"sms", "email"}

Entry == [purpose : Purpose, attempts : 0..MaxAttempts]

ASSUME OtpAssumption ==
  MaxAttempts \in Nat \ {0} /\ MaxFaults \in Nat /\ NoEntry \notin Entry

VARIABLES
  cache,       \* Redis: the entry of each reference code, or NoEntry
  issue,       \* GenerateOtpHandler: progress and type of each reference code
  published,   \* reference codes whose SendVerifySms reached the bus
  handler,     \* ValidateOtpHandler: progress of each validation
  late,        \* reference codes whose ExpiresAt has come
  faults,      \* failures so far
  answers,     \* history: answers of each kind, per reference code
  overlapped   \* history: reference codes validated twice at the same time

vars == <<cache, issue, published, handler, late, faults, answers, overlapped>>

Idle == [step |-> "idle"]

Validating == [step : {"check", "delete", "set"}, ref : Ref, purpose : Purpose,
               right : BOOLEAN, copy : Entry]

TypeOK ==
  /\ cache \in [Ref -> Entry \cup {NoEntry}]
  /\ issue \in [Ref -> [phase : {"unused", "stored", "answered", "failed"},
                        type : Types]]
  /\ published \subseteq Ref
  /\ handler \in [Handlers -> Validating \cup {Idle}]
  /\ late \subseteq Ref
  /\ faults \in Nat
  /\ answers \in [Ref -> [valid : Nat, wrong : Nat]]
  /\ overlapped \subseteq Ref

Init ==
  /\ cache = [r \in Ref |-> NoEntry]
  /\ issue \in [Ref -> [phase : {"unused"}, type : Types]]
  /\ published = {}
  /\ handler = [h \in Handlers |-> Idle]
  /\ late = {}
  /\ faults = 0
  /\ answers = [r \in Ref |-> [valid |-> 0, wrong |-> 0]]
  /\ overlapped = {}

-----------------------------------------------------------------------------

Fault == faults < MaxFaults /\ faults' = faults + 1

Works == UNCHANGED faults

Stored(r, entry) == cache' = [cache EXCEPT ![r] = entry]

\* Mutant of Removed: the used code stays in the cache.
RemovedNot(r) == r \in Ref /\ cache' = cache

Removed(r) == cache' = [cache EXCEPT ![r] = NoEntry]

Busy(r) == {h \in Handlers : handler[h] # Idle /\ handler[h].ref = r}

At(h, step) == handler[h] # Idle /\ handler[h].step = step

Become(h, state) == handler' = [handler EXCEPT ![h] = state]

Answer(r, kind) == answers' = [answers EXCEPT ![r][kind] = @ + 1]

Reaches(r, phase) == issue' = [issue EXCEPT ![r].phase = phase]

-----------------------------------------------------------------------------
(* GenerateOtpHandler                                                      *)

\* SetAsync of the new entry.
Generate(r, purpose) ==
  /\ issue[r].phase = "unused"
  /\ \/ /\ Stored(r, [purpose |-> purpose, attempts |-> 0])
        /\ Reaches(r, "stored")
        /\ Works
     \/ /\ Fault
        /\ Stored(r, [purpose |-> purpose, attempts |-> 0]) \/ UNCHANGED cache
        /\ Reaches(r, "failed")
  /\ UNCHANGED <<published, handler, late, answers, overlapped>>

\* SendOtpAsync, then the response "OTP sent to ...".
SendOtp(r) ==
  /\ issue[r].phase = "stored"
  /\ \/ /\ published' = IF issue[r].type = "sms" THEN published \cup {r}
                                                 ELSE published
        /\ Reaches(r, "answered")
        /\ Works
     \/ /\ issue[r].type = "sms" /\ Fault
        /\ published' \in {published, published \cup {r}}
        /\ Reaches(r, "failed")
  /\ UNCHANGED <<cache, handler, late, answers, overlapped>>

-----------------------------------------------------------------------------
(* ValidateOtpHandler                                                      *)

\* GetAsync; without an entry, or if the call fails, the handler is done.
Get(h, r, purpose, right) ==
  /\ handler[h] = Idle
  /\ cache[r] # NoEntry
  /\ Become(h, [step |-> "check", ref |-> r, purpose |-> purpose,
                right |-> right, copy |-> cache[r]])
  /\ overlapped' = IF Busy(r) = {} THEN overlapped ELSE overlapped \cup {r}
  /\ UNCHANGED <<cache, issue, published, late, faults, answers>>

\* Mutant of Exhausted: one attempt too many.
ExhaustedAfter(entry) == entry.attempts > MaxAttempts

Exhausted(entry) == entry.attempts >= MaxAttempts

Refused(h) ==
  \/ handler[h].ref \in late
  \/ Exhausted(handler[h].copy)
  \/ handler[h].copy.purpose # handler[h].purpose

\* All tests on the copy; a refusal is answered and changes nothing.
Check(h) ==
  /\ At(h, "check")
  /\ \/ Refused(h) /\ Become(h, Idle)
     \/ /\ ~Refused(h) /\ handler[h].right
        /\ Become(h, [handler[h] EXCEPT !.step = "delete"])
     \/ /\ ~Refused(h) /\ ~handler[h].right
        /\ Become(h, [handler[h] EXCEPT !.step = "set", !.copy.attempts = @ + 1])
  /\ UNCHANGED <<cache, issue, published, late, faults, answers, overlapped>>

\* DeleteAsync, then the answer IsValid = true; a failed call is a 500.
Delete(h) ==
  LET r == handler[h].ref IN
  /\ At(h, "delete")
  /\ \/ Removed(r) /\ Answer(r, "valid") /\ Works
     \/ Fault /\ (Removed(r) \/ UNCHANGED cache) /\ UNCHANGED answers
  /\ Become(h, Idle)
  /\ UNCHANGED <<issue, published, late, overlapped>>

\* SetAsync of the copy, existing entry or not, then "Invalid OTP code".  The
\* cache refuses an expiry that lies in the past with an exception.
Set(h) ==
  LET r == handler[h].ref IN
  /\ At(h, "set")
  /\ \/ /\ r \notin late
        /\ Stored(r, handler[h].copy) /\ Answer(r, "wrong") /\ Works
     \/ r \in late /\ UNCHANGED <<cache, answers, faults>>
     \/ /\ Fault /\ UNCHANGED answers
        /\ Stored(r, handler[h].copy) \/ UNCHANGED cache
  /\ Become(h, Idle)
  /\ UNCHANGED <<issue, published, late, overlapped>>

-----------------------------------------------------------------------------
(* Time and Redis                                                          *)

ExpiresAtComes(r) ==
  /\ issue[r].phase # "unused" /\ r \notin late
  /\ late' = late \cup {r}
  /\ UNCHANGED <<cache, issue, published, handler, faults, answers, overlapped>>

\* Redis drops the entry: its clock and its whole-second TTL are not the
\* handler's clock, so this may come before or after ExpiresAt.
Evict(r) ==
  /\ cache[r] # NoEntry
  /\ Removed(r)
  /\ UNCHANGED <<issue, published, handler, late, faults, answers, overlapped>>

\* The process dies and with it a validation.
Crash(h) ==
  /\ handler[h] # Idle
  /\ Fault
  /\ Become(h, Idle)
  /\ UNCHANGED <<cache, issue, published, late, answers, overlapped>>

Next ==
  \/ \E r \in Ref : SendOtp(r) \/ ExpiresAtComes(r) \/ Evict(r)
  \/ \E r \in Ref, p \in Purpose : Generate(r, p)
  \/ \E h \in Handlers, r \in Ref, p \in Purpose, right \in BOOLEAN :
        Get(h, r, p, right)
  \/ \E h \in Handlers : Check(h) \/ Delete(h) \/ Set(h) \/ Crash(h)

Spec == Init /\ [][Next]_vars

-----------------------------------------------------------------------------
(* Properties                                                              *)

\* While no two validations of a reference code overlap, the code opens the
\* door once, and wrong codes are answered at most MaxAttempts times, whatever
\* calls fail and whenever the entry runs out.
SerialOtp ==
  \A r \in Ref \ overlapped :
     answers[r].valid <= 1 /\ answers[r].wrong <= MaxAttempts

\* Two validations at a time can undo each other's count, but not for ever:
\* each write-back of an old copy still moves the oldest count ahead by one.
PairBound ==
  \A r \in Ref : answers[r].wrong <= (MaxAttempts * (MaxAttempts + 3)) \div 2

\* A used code is used up: "OTP (One-Time Password)".
OneTime == \A r \in Ref : answers[r].valid <= 1
=============================================================================
