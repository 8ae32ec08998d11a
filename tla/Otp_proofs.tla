----------------------------- MODULE Otp_proofs -----------------------------
(***************************************************************************)
(* Proofs about Otp: its types, that a code validated by one request at a  *)
(* time is a one-time code with a limited number of attempts, and what two *)
(* requests that overlap can do to these limits.                           *)
(***************************************************************************)
EXTENDS Otp, TLAPS

\* A reference code that was not given out yet has left no trace.
Fresh(r) ==
  issue[r].phase = "unused" =>
    /\ cache[r] = NoEntry
    /\ Busy(r) = {}
    /\ answers[r].valid = 0 /\ answers[r].wrong = 0

\* At most one validation is under way; after a valid answer nothing is left
\* to validate; the entry, and the copy of it somebody holds, count at least
\* the wrong answers given, a copy about to be written one more.
Serial(r) ==
  /\ \A g, h \in Busy(r) : g = h
  /\ answers[r].valid <= 1
  /\ answers[r].valid = 1 => cache[r] = NoEntry /\ Busy(r) = {}
  /\ answers[r].wrong <= MaxAttempts
  /\ cache[r] # NoEntry => answers[r].wrong <= cache[r].attempts
  /\ \A h \in Busy(r) :
        /\ answers[r].wrong <= handler[h].copy.attempts
        /\ handler[h].step = "set" => answers[r].wrong < handler[h].copy.attempts

SerialInv ==
  /\ TypeOK
  /\ \A r \in Ref : Fresh(r)
  /\ \A r \in Ref \ overlapped : Serial(r)

-----------------------------------------------------------------------------

\* The states of a validation are told apart by their step.
LEMMA IdleIsNotValidating == Idle \notin Validating
BY DEF Idle, Validating

\* Init establishes the types: nothing is cached, issued or under way.
LEMMA InitTypeOK == Init => TypeOK
BY OtpAssumption DEF Init, TypeOK, Types, Idle

\* Every step keeps the types; the one that matters is Check, whose test of
\* Exhausted keeps the attempts written back within MaxAttempts.
LEMMA NextTypeOK == TypeOK /\ [Next]_vars => TypeOK'
<1> SUFFICES ASSUME TypeOK, [Next]_vars PROVE TypeOK'
  OBVIOUS
<1> USE OtpAssumption DEF TypeOK
<1>1. ASSUME NEW r \in Ref, NEW p \in Purpose, Generate(r, p) PROVE TypeOK'
  <2>1. [purpose |-> p, attempts |-> 0] \in Entry
    BY DEF Entry
  <2>2. cache' \in [Ref -> Entry \cup {NoEntry}]
    BY <1>1, <2>1 DEF Generate, Stored
  <2>3. issue' \in [Ref -> [phase : {"unused", "stored", "answered", "failed"},
                            type : Types]]
    BY <1>1 DEF Generate, Reaches
  <2> QED BY <1>1, <2>2, <2>3 DEF Generate, Fault, Works
<1>2. ASSUME NEW r \in Ref, SendOtp(r) PROVE TypeOK'
  <2>1. issue' \in [Ref -> [phase : {"unused", "stored", "answered", "failed"},
                            type : Types]]
    BY <1>2 DEF SendOtp, Reaches
  <2> QED BY <1>2, <2>1 DEF SendOtp, Fault, Works
<1>3. ASSUME NEW h \in Handlers, NEW r \in Ref, NEW p \in Purpose,
             NEW right \in BOOLEAN, Get(h, r, p, right)
      PROVE TypeOK'
  <2>1. [step |-> "check", ref |-> r, purpose |-> p, right |-> right,
         copy |-> cache[r]] \in Validating
    BY <1>3 DEF Get, Validating
  <2> QED BY <1>3, <2>1 DEF Get, Become
<1>4. ASSUME NEW h \in Handlers, Check(h) PROVE TypeOK'
  <2>1. handler[h] \in Validating
    BY <1>4 DEF Check, At
  <2>2. CASE Refused(h) /\ Become(h, Idle)
    BY <1>4, <2>2 DEF Check, Become
  <2>3. CASE Become(h, [handler[h] EXCEPT !.step = "delete"])
    <3>1. [handler[h] EXCEPT !.step = "delete"] \in Validating
      BY <2>1 DEF Validating
    <3> QED BY <1>4, <2>3, <3>1 DEF Check, Become
  <2>4. CASE /\ ~Refused(h)
             /\ Become(h, [handler[h] EXCEPT !.step = "set", !.copy.attempts = @ + 1])
    <3>1. handler[h].copy.attempts + 1 \in 0..MaxAttempts
      BY <2>1, <2>4 DEF Refused, Exhausted, Validating, Entry
    <3>2. [handler[h] EXCEPT !.step = "set", !.copy.attempts = @ + 1] \in Validating
      BY <2>1, <3>1 DEF Validating, Entry
    <3> QED BY <1>4, <2>4, <3>2 DEF Check, Become
  <2> QED BY <1>4, <2>2, <2>3, <2>4 DEF Check
<1>5. ASSUME NEW h \in Handlers, Delete(h) PROVE TypeOK'
  <2>1. handler[h] \in Validating /\ handler[h].ref \in Ref
    BY <1>5 DEF Delete, At, Validating
  <2>2. answers' \in [Ref -> [valid : Nat, wrong : Nat]]
    BY <1>5, <2>1 DEF Delete, Answer
  <2> QED BY <1>5, <2>1, <2>2 DEF Delete, Removed, Become, Fault, Works
<1>6. ASSUME NEW h \in Handlers, Set(h) PROVE TypeOK'
  <2>1. handler[h] \in Validating /\ handler[h].ref \in Ref /\ handler[h].copy \in Entry
    BY <1>6 DEF Set, At, Validating
  <2>2. answers' \in [Ref -> [valid : Nat, wrong : Nat]]
    BY <1>6, <2>1 DEF Set, Answer
  <2>3. cache' \in [Ref -> Entry \cup {NoEntry}]
    BY <1>6, <2>1 DEF Set, Stored
  <2> QED BY <1>6, <2>2, <2>3 DEF Set, Become, Fault, Works
<1>7. ASSUME NEW r \in Ref, ExpiresAtComes(r) \/ Evict(r) PROVE TypeOK'
  BY <1>7 DEF ExpiresAtComes, Evict, Removed
<1>8. ASSUME NEW h \in Handlers, Crash(h) PROVE TypeOK'
  BY <1>8 DEF Crash, Become, Fault
<1>9. CASE UNCHANGED vars
  BY <1>9 DEF vars
<1> QED
  BY <1>1, <1>2, <1>3, <1>4, <1>5, <1>6, <1>7, <1>8, <1>9 DEF Next

\* Type correctness of the one-time passwords, in particular: no entry and no
\* copy of one ever counts more than MaxAttempts attempts.
THEOREM OtpTypeCorrect == Spec => []TypeOK
BY InitTypeOK, NextTypeOK, PTL DEF Spec

-----------------------------------------------------------------------------

\* Init establishes the serial invariant.
LEMMA InitSerialInv == Init => SerialInv
BY InitTypeOK, OtpAssumption
   DEF Init, SerialInv, Fresh, Serial, Busy, TypeOK, Types, Idle

\* A step that ends a validation without an answer, and may drop entries,
\* keeps what is known of a reference code.
LEMMA Fewer ==
  ASSUME NEW r \in Ref, cache'[r] \in {cache[r], NoEntry}, answers'[r] = answers[r],
         Busy(r)' \subseteq Busy(r), \A h \in Busy(r)' : handler'[h] = handler[h]
  PROVE  /\ Fresh(r) /\ (issue'[r].phase = "unused" => issue[r].phase = "unused")
              => Fresh(r)'
         /\ Serial(r) => Serial(r)'
BY DEF Fresh, Serial

\* Every step keeps the serial invariant.
LEMMA NextSerialInv == SerialInv /\ [Next]_vars => SerialInv'
<1> SUFFICES ASSUME SerialInv, [Next]_vars PROVE SerialInv'
  OBVIOUS
<1>1. TypeOK /\ TypeOK'
  BY NextTypeOK DEF SerialInv
<1> SUFFICES ASSUME NEW r \in Ref
             PROVE  /\ Fresh(r)'
                    /\ r \notin overlapped' => Serial(r)'
  BY <1>1 DEF SerialInv
<1>2. Fresh(r) /\ (r \notin overlapped => Serial(r))
  BY DEF SerialInv
<1>3. answers[r].valid \in Nat /\ answers[r].wrong \in Nat
  BY <1>1 DEF TypeOK
<1>4. ASSUME NEW q \in Ref, NEW p \in Purpose, Generate(q, p)
      PROVE  Fresh(r)' /\ (r \notin overlapped' => Serial(r)')
  <2>1. UNCHANGED <<handler, answers, overlapped>> /\ Busy(r)' = Busy(r)
    BY <1>4 DEF Generate, Busy
  <2>2. CASE r # q
    BY <1>1, <1>2, <1>4, <2>1, <2>2, Fewer DEF Generate, Stored, Reaches, TypeOK
  <2>3. CASE r = q
    <3>1. cache[r] = NoEntry /\ Busy(r) = {} /\ answers[r].valid = 0 /\ answers[r].wrong = 0
      BY <1>2, <1>4, <2>3 DEF Generate, Fresh
    <3>2. issue'[r].phase # "unused"
      BY <1>1, <1>4, <2>3 DEF Generate, Reaches, TypeOK
    <3>3. cache'[r] = NoEntry \/ cache'[r].attempts = 0
      BY <1>1, <1>4, <2>3, <3>1 DEF Generate, Stored, TypeOK
    <3> QED BY <2>1, <3>1, <3>2, <3>3, OtpAssumption DEF Fresh, Serial
  <2> QED BY <2>2, <2>3
<1>5. ASSUME NEW q \in Ref, SendOtp(q) \/ ExpiresAtComes(q)
      PROVE  Fresh(r)' /\ (r \notin overlapped' => Serial(r)')
  <2>1. UNCHANGED <<cache, handler, answers, overlapped>> /\ Busy(r)' = Busy(r)
    BY <1>5 DEF SendOtp, ExpiresAtComes, Busy
  <2>2. issue'[r].phase = "unused" => issue[r].phase = "unused"
    BY <1>1, <1>5 DEF SendOtp, ExpiresAtComes, Reaches, TypeOK
  <2> QED BY <1>2, <2>1, <2>2, Fewer
<1>6. ASSUME NEW q \in Ref, Evict(q)
      PROVE  Fresh(r)' /\ (r \notin overlapped' => Serial(r)')
  <2>1. UNCHANGED <<issue, handler, answers, overlapped>> /\ Busy(r)' = Busy(r)
    BY <1>6 DEF Evict, Busy
  <2>2. cache'[r] \in {cache[r], NoEntry}
    BY <1>1, <1>6 DEF Evict, Removed, TypeOK
  <2> QED BY <1>2, <2>1, <2>2, Fewer
<1>7. ASSUME NEW h \in Handlers, NEW q \in Ref, NEW p \in Purpose,
             NEW right \in BOOLEAN, Get(h, q, p, right)
      PROVE  Fresh(r)' /\ (r \notin overlapped' => Serial(r)')
  <2>1. UNCHANGED <<cache, issue, answers>>
    BY <1>7 DEF Get
  <2>2. handler[h] = Idle /\ handler' = [handler EXCEPT ![h] = handler'[h]]
        /\ handler'[h].step = "check" /\ handler'[h].ref = q
        /\ handler'[h].copy = cache[q] /\ handler'[h] # Idle
    BY <1>1, <1>7 DEF Get, Become, TypeOK, Idle
  <2>3. CASE r # q
    <3>1. Busy(r)' = Busy(r) /\ h \notin Busy(r)
      BY <1>1, <2>2, <2>3 DEF Busy, TypeOK
    <3>2. \A g \in Busy(r) : handler'[g] = handler[g]
      BY <1>1, <2>2, <3>1 DEF Busy, TypeOK
    <3>3. r \notin overlapped' => r \notin overlapped
      BY <1>7 DEF Get
    <3> QED BY <1>2, <2>1, <3>1, <3>2, <3>3, Fewer
  <2>4. CASE r = q
    <3>1. cache[r] # NoEntry
      BY <1>7, <2>4 DEF Get
    <3>2. Fresh(r)'
      BY <1>2, <2>1, <3>1 DEF Fresh
    <3>3. ASSUME r \notin overlapped' PROVE Serial(r)'
      <4>1. Busy(r) = {} /\ r \notin overlapped
        BY <1>7, <2>4, <3>3 DEF Get
      <4>2. Busy(r)' = {h}
        BY <1>1, <2>2, <2>4, <4>1 DEF Busy, TypeOK
      <4> QED BY <1>2, <1>3, <2>1, <2>2, <2>4, <3>1, <4>1, <4>2 DEF Serial
    <3> QED BY <3>2, <3>3
  <2> QED BY <2>3, <2>4
<1>8. ASSUME NEW h \in Handlers, Crash(h) \/ (Check(h) /\ Become(h, Idle))
      PROVE  Fresh(r)' /\ (r \notin overlapped' => Serial(r)')
  <2>1. UNCHANGED <<cache, issue, answers, overlapped>>
    BY <1>8 DEF Crash, Check
  <2>2. handler' = [handler EXCEPT ![h] = Idle]
    BY <1>8 DEF Crash, Become
  <2>3. Busy(r)' \subseteq Busy(r) /\ \A g \in Busy(r)' : handler'[g] = handler[g]
    BY <1>1, <2>2 DEF Busy, TypeOK
  <2> QED BY <1>2, <2>1, <2>3, Fewer
<1>9. ASSUME NEW h \in Handlers, Check(h), ~Become(h, Idle)
      PROVE  Fresh(r)' /\ (r \notin overlapped' => Serial(r)')
  <2>1. UNCHANGED <<cache, issue, answers, overlapped>>
    BY <1>9 DEF Check
  <2>2. handler[h] # Idle /\ handler[h] \in Validating
    BY <1>1, <1>9 DEF Check, At, TypeOK
  <2>3. /\ handler' = [handler EXCEPT ![h] = handler'[h]]
        /\ handler'[h].ref = handler[h].ref
        /\ \/ /\ handler'[h].step = "delete" /\ handler'[h].copy = handler[h].copy
           \/ /\ handler'[h].step = "set"
              /\ handler'[h].copy.attempts = handler[h].copy.attempts + 1
    <3>1. CASE Become(h, [handler[h] EXCEPT !.step = "delete"])
      <4>1. handler'[h] = [handler[h] EXCEPT !.step = "delete"]
        BY <1>1, <3>1 DEF Become, TypeOK
      <4> QED BY <2>2, <3>1, <4>1 DEF Become, Validating
    <3>2. CASE Become(h, [handler[h] EXCEPT !.step = "set", !.copy.attempts = @ + 1])
      <4>1. handler'[h] = [handler[h] EXCEPT !.step = "set", !.copy.attempts = @ + 1]
        BY <1>1, <3>2 DEF Become, TypeOK
      <4>2. handler'[h].copy = [handler[h].copy EXCEPT !.attempts = @ + 1]
        BY <2>2, <4>1 DEF Validating
      <4>3. handler'[h].copy.attempts = handler[h].copy.attempts + 1
        BY <2>2, <4>2 DEF Validating, Entry
      <4>4. handler'[h].step = "set" /\ handler'[h].ref = handler[h].ref
        BY <2>2, <4>1 DEF Validating
      <4>5. handler' = [handler EXCEPT ![h] = handler'[h]]
        BY <3>2, <4>1 DEF Become
      <4> QED BY <4>3, <4>4, <4>5
    <3> QED BY <1>9, <3>1, <3>2 DEF Check
  <2>4. handler'[h] # Idle
    BY <2>3 DEF Idle
  <2>5. Busy(r)' = Busy(r) /\ \A g \in Busy(r) \ {h} : handler'[g] = handler[g]
    BY <1>1, <2>2, <2>3, <2>4 DEF Busy, TypeOK
  <2>6. Fresh(r)'
    BY <1>2, <2>1, <2>5 DEF Fresh
  <2>7. ASSUME r \notin overlapped', h \in Busy(r) PROVE Serial(r)'
    <3>1. handler[h].copy.attempts \in Nat
      BY <2>2 DEF Validating, Entry
    <3> QED BY <1>2, <1>3, <2>1, <2>3, <2>5, <2>7, <3>1 DEF Serial
  <2>8. ASSUME r \notin overlapped', h \notin Busy(r) PROVE Serial(r)'
    BY <1>2, <2>1, <2>5, <2>8 DEF Serial
  <2> QED BY <2>6, <2>7, <2>8
<1>10. ASSUME NEW h \in Handlers, Delete(h) \/ Set(h)
       PROVE  Fresh(r)' /\ (r \notin overlapped' => Serial(r)')
  <2>1. UNCHANGED <<issue, overlapped>> /\ handler' = [handler EXCEPT ![h] = Idle]
    BY <1>10 DEF Delete, Set, Become
  <2>2. handler[h] # Idle /\ handler[h] \in Validating
    BY <1>1, <1>10 DEF Delete, Set, At, TypeOK
  <2>3. Busy(r)' = Busy(r) \ {h} /\ \A g \in Busy(r)' : handler'[g] = handler[g]
    BY <1>1, <2>1 DEF Busy, TypeOK
  <2>4. CASE r # handler[h].ref
    <3>1. cache'[r] = cache[r] /\ answers'[r] = answers[r]
      BY <1>1, <1>10, <2>4 DEF Delete, Set, Removed, Stored, Answer, TypeOK
    <3> QED BY <1>2, <2>1, <2>3, <3>1, Fewer
  <2>5. CASE r = handler[h].ref
    <3>1. h \in Busy(r)
      BY <2>2, <2>5 DEF Busy
    <3>2. Fresh(r)'
      BY <1>2, <2>1, <3>1 DEF Fresh
    <3>3. ASSUME r \notin overlapped' PROVE Serial(r)'
      <4>1. Serial(r)
        BY <1>2, <2>1, <3>3
      <4>2. Busy(r)' = {} /\ answers[r].valid = 0
        BY <1>3, <2>3, <3>1, <4>1 DEF Serial
      <4>3. CASE Delete(h)
        <5>1. \/ cache'[r] = NoEntry /\ answers'[r] = [answers[r] EXCEPT !.valid = @ + 1]
              \/ cache'[r] \in {cache[r], NoEntry} /\ answers'[r] = answers[r]
          BY <1>1, <2>5, <4>3 DEF Delete, Removed, Answer, TypeOK
        <5>2. answers'[r].wrong = answers[r].wrong
              /\ answers'[r].valid = (IF answers'[r] = answers[r] THEN 0 ELSE 1)
          BY <1>1, <4>2, <5>1 DEF TypeOK
        <5>3. answers'[r] = answers[r] \/ cache'[r] = NoEntry
          BY <5>1
        <5> QED BY <4>1, <4>2, <5>1, <5>2, <5>3 DEF Serial
      <4>4. CASE Set(h)
        <5>1. handler[h].copy.attempts \in 0..MaxAttempts /\ handler[h].step = "set"
          BY <2>2, <4>4 DEF Validating, Entry, Set, At
        <5>2. \/ cache'[r] = handler[h].copy /\ answers'[r] = [answers[r] EXCEPT !.wrong = @ + 1]
              \/ cache'[r] \in {cache[r], handler[h].copy} /\ answers'[r] = answers[r]
          BY <1>1, <2>5, <4>4 DEF Set, Stored, Answer, TypeOK
        <5>3. /\ answers'[r].valid = 0
              /\ \/ answers'[r].wrong = answers[r].wrong
                 \/ /\ answers'[r].wrong = answers[r].wrong + 1
                    /\ cache'[r] = handler[h].copy
          BY <1>1, <4>2, <5>2 DEF TypeOK
        <5>4. answers[r].wrong < handler[h].copy.attempts
          BY <3>1, <4>1, <5>1 DEF Serial
        <5> QED BY <1>3, <4>1, <4>2, <5>1, <5>2, <5>3, <5>4, OtpAssumption DEF Serial
      <4> QED BY <1>10, <4>3, <4>4
    <3> QED BY <3>2, <3>3
  <2> QED BY <2>4, <2>5
<1>11. CASE UNCHANGED vars
  BY <1>2, <1>11 DEF vars, Fresh, Serial, Busy
<1> QED
  BY <1>4, <1>5, <1>6, <1>7, <1>8, <1>9, <1>10, <1>11 DEF Next

\* A code that is validated by one request at a time is accepted at most once
\* and refused as wrong at most MaxAttempts times, for any number of codes
\* and requests and whatever calls to the cache fail.
THEOREM OtpSerial == Spec => []SerialOtp
<1>1. SerialInv => SerialOtp
  BY DEF SerialInv, Serial, SerialOtp
<1> QED
  BY <1>1, InitSerialInv, NextSerialInv, PTL DEF Spec

-----------------------------------------------------------------------------
(* Two validations at a time                                               *)

\* Twice the wrong answers still to come when an entry counts k attempts and nobody
\* has read it.
TwiceLeft(k) == (MaxAttempts - k) * (MaxAttempts - k + 3)

\* The count h will write back unless it is refused, or has the right code.
Writes(h) ==
  IF handler[h].step = "check" THEN handler[h].copy.attempts + 1 ELSE handler[h].copy.attempts

MayWrite(h, r) == h \in Busy(r) /\ handler[h].step # "delete" /\ Writes(h) <= MaxAttempts

\* A copy that is held back moves the entry down when it is written, and that is the
\* most that can be gained by it: the entry is counted up to its end first, by the
\* other validation, and again from the copy.
Pair(r) ==
  LET n == 2 * answers[r].wrong
      all == MaxAttempts * (MaxAttempts + 3)
  IN /\ n <= all
     /\ cache[r] # NoEntry => n + TwiceLeft(cache[r].attempts) <= all
     /\ \A h \in Handlers :
          MayWrite(h, r) =>
            /\ n + 2 + TwiceLeft(Writes(h)) <= all
            /\ cache[r] # NoEntry =>
                 n + 2 * (MaxAttempts - cache[r].attempts) + 2 + TwiceLeft(Writes(h)) <= all
     /\ \A g, h \in Handlers :
          (g # h /\ MayWrite(g, r) /\ MayWrite(h, r)) =>
            n + 2 * (MaxAttempts - Writes(g)) + 4 + TwiceLeft(Writes(h)) <= all

PairInv == \A r \in Ref : Pair(r)

LEMMA ProductFalls ==
  ASSUME NEW x \in Nat, NEW y \in Nat, y <= x
  PROVE  y * (y + 3) + 2 * (x - y) <= x * (x + 3)
<1>1. PICK d \in Nat : x = y + d
  <2>1. x - y \in Nat /\ x = y + (x - y)
    OBVIOUS
  <2> QED BY <2>1
<1>2. x * (x + 3) = y * (y + 3) + 2 * (d * y) + 3 * d + d * d
  BY <1>1
<1>3. d * y \in Nat /\ d * d \in Nat /\ y * (y + 3) \in Nat
  OBVIOUS
<1>4. x - y = d
  BY <1>1
<1> QED BY <1>2, <1>3, <1>4

LEMMA TwiceLeftFalls ==
  ASSUME NEW j \in 0..MaxAttempts, NEW k \in 0..MaxAttempts, j <= k
  PROVE  /\ TwiceLeft(k) + 2 * (k - j) <= TwiceLeft(j)
         /\ TwiceLeft(j) \in Nat /\ TwiceLeft(k) \in Nat
<1> PICK x \in Nat, y \in Nat : x = MaxAttempts - j /\ y = MaxAttempts - k
  BY OtpAssumption
<1>1. y <= x /\ x - y = k - j
  BY OtpAssumption
<1>2. TwiceLeft(j) = x * (x + 3) /\ TwiceLeft(k) = y * (y + 3)
  BY DEF TwiceLeft
<1>3. x * (x + 3) \in Nat /\ y * (y + 3) \in Nat
  OBVIOUS
<1> QED BY <1>1, <1>2, <1>3, ProductFalls

LEMMA TwiceLeftNext ==
  ASSUME NEW k \in 0..MaxAttempts, k + 1 <= MaxAttempts
  PROVE  TwiceLeft(k) = TwiceLeft(k + 1) + 2 * (MaxAttempts - k) + 2
<1> PICK y \in Nat : y = MaxAttempts - (k + 1)
  BY OtpAssumption
<1>1. MaxAttempts - k = y + 1
  BY OtpAssumption
<1>2. TwiceLeft(k) = (y + 1) * (y + 4) /\ TwiceLeft(k + 1) = y * (y + 3)
  BY <1>1, OtpAssumption DEF TwiceLeft
<1>3. (y + 1) * (y + 4) = y * (y + 3) + 2 * y + 4
  OBVIOUS
<1> QED BY <1>1, <1>2, <1>3

\* The numbers Pair is about.
LEMMA PairNumbers ==
  ASSUME TypeOK, NEW r \in Ref
  PROVE  /\ answers[r].wrong \in Nat /\ MaxAttempts * (MaxAttempts + 3) \in Nat
         /\ cache[r] # NoEntry => cache[r].attempts \in 0..MaxAttempts
         /\ \A h \in Handlers : MayWrite(h, r) => Writes(h) \in 0..MaxAttempts
<1>1. answers[r].wrong \in Nat /\ (cache[r] # NoEntry => cache[r].attempts \in 0..MaxAttempts)
  BY DEF TypeOK, Entry
<1>2. MaxAttempts * (MaxAttempts + 3) \in Nat
  BY OtpAssumption
<1>3. ASSUME NEW h \in Handlers, MayWrite(h, r) PROVE Writes(h) \in 0..MaxAttempts
  <2>1. handler[h].copy.attempts \in 0..MaxAttempts
    BY <1>3 DEF MayWrite, Busy, TypeOK, Validating, Entry
  <2> QED BY <2>1, <1>3, OtpAssumption DEF MayWrite, Writes
<1> QED BY <1>1, <1>2, <1>3

\* Fewer entries, and fewer validations with the same counts to write.
LEMMA PairFewer ==
  ASSUME TypeOK, NEW r \in Ref, Pair(r), answers'[r].wrong = answers[r].wrong,
         cache'[r] \in {cache[r], NoEntry},
         \A h \in Handlers : MayWrite(h, r)' => MayWrite(h, r) /\ Writes(h)' = Writes(h)
  PROVE  Pair(r)'
<1>1. \A h \in Handlers : MayWrite(h, r)' => TwiceLeft(Writes(h))' = TwiceLeft(Writes(h))
  BY DEF TwiceLeft
<1>2. cache'[r] # NoEntry => TwiceLeft(cache[r].attempts)' = TwiceLeft(cache[r].attempts)
  BY DEF TwiceLeft
<1> QED BY <1>1, <1>2 DEF Pair

\* Nothing is known to have been answered for a fresh reference code.
LEMMA PairFresh ==
  ASSUME TypeOK, NEW r \in Ref, answers[r].wrong = 0, Busy(r) = {},
         cache[r] # NoEntry => cache[r].attempts = 0
  PROVE  Pair(r)
<1>1. \A h \in Handlers : ~MayWrite(h, r)
  BY DEF MayWrite
<1>2. TwiceLeft(0) = MaxAttempts * (MaxAttempts + 3)
  BY OtpAssumption DEF TwiceLeft
<1> QED BY <1>1, <1>2, PairNumbers DEF Pair

\* Of two validations one reads the entry: what the other holds back is not older
\* than what Pair says, or it is, and the entry was counted up meanwhile.
LEMMA PairReads ==
  ASSUME TypeOK, TypeOK', NEW r \in Ref, Pair(r), NEW h \in Handlers,
         NEW p \in Purpose, NEW right \in BOOLEAN, Get(h, r, p, right),
         \A f, g \in Handlers : f # h /\ g # h => f = g
  PROVE  Pair(r)'
<1> PICK c \in 0..MaxAttempts : c = cache[r].attempts
  BY PairNumbers DEF Get
<1>1. /\ UNCHANGED <<cache, answers>> /\ cache[r] # NoEntry
      /\ h \notin Busy(r)
      /\ handler'[h] = [step |-> "check", ref |-> r, purpose |-> p, right |-> right, copy |-> cache[r]]
      /\ \A g \in Handlers : g # h => handler'[g] = handler[g]
  BY DEF Get, Busy, Become, TypeOK
<1>2. /\ ~MayWrite(h, r)
      /\ MayWrite(h, r)' => c + 1 <= MaxAttempts
      /\ Writes(h)' = c + 1
  BY <1>1 DEF MayWrite, Writes, Busy
<1>3. \A g \in Handlers : g # h => (MayWrite(g, r)' <=> MayWrite(g, r)) /\ Writes(g)' = Writes(g)
  BY <1>1 DEF MayWrite, Writes, Busy
<1>4. /\ \A k : TwiceLeft(k)' = TwiceLeft(k)
      /\ 2 * answers[r].wrong \in Nat
      /\ MaxAttempts * (MaxAttempts + 3) \in Nat /\ MaxAttempts \in Nat
  BY PairNumbers, OtpAssumption DEF TwiceLeft
<1> PICK n \in Nat, all \in Nat, m \in Nat :
      n = 2 * answers[r].wrong /\ all = MaxAttempts * (MaxAttempts + 3) /\ m = MaxAttempts
  BY <1>4
<1>5. n <= all /\ n + TwiceLeft(c) <= all
  BY <1>1 DEF Pair
<1>6. ASSUME NEW g \in Handlers, MayWrite(g, r)
      PROVE  /\ n + 2 + TwiceLeft(Writes(g)) <= all
             /\ n + 2 * (m - c) + 2 + TwiceLeft(Writes(g)) <= all
  BY <1>1, <1>6 DEF Pair
<1>7. TwiceLeft(c) \in Nat
  BY TwiceLeftFalls
<1>8. ASSUME c + 1 <= m
      PROVE  /\ TwiceLeft(c + 1) \in Nat
             /\ TwiceLeft(c) = TwiceLeft(c + 1) + 2 * (m - c) + 2
  <2>1. c + 1 \in 0..MaxAttempts
    BY <1>8, OtpAssumption
  <2> QED BY <1>8, <2>1, TwiceLeftFalls, TwiceLeftNext
<1>9. ASSUME c + 1 <= m
      PROVE  /\ n + 2 + TwiceLeft(c + 1) <= all
             /\ n + 2 * (m - c) + 2 + TwiceLeft(c + 1) <= all
  BY <1>5, <1>8, <1>9
<1>10. ASSUME NEW g \in Handlers, MayWrite(g, r), c + 1 <= m
       PROVE  /\ n + 2 * (m - Writes(g)) + 4 + TwiceLeft(c + 1) <= all
              /\ n + 2 * (m - (c + 1)) + 4 + TwiceLeft(Writes(g)) <= all
  <2> PICK w \in 0..MaxAttempts : w = Writes(g)
    BY <1>10, PairNumbers
  <2> PICK t \in Nat, u \in Nat, v \in Nat :
        t = TwiceLeft(c) /\ u = TwiceLeft(c + 1) /\ v = TwiceLeft(w)
    BY <1>7, <1>8, <1>10, TwiceLeftFalls
  <2>1. w \in Nat /\ c \in Nat /\ w <= m /\ t = u + 2 * (m - c) + 2
    BY <1>8, <1>10, OtpAssumption
  <2>2. n + t <= all /\ n + 2 * (m - c) + 2 + v <= all
    BY <1>5, <1>6, <1>10
  <2>3. CASE w >= c + 1
    <3>1. n + 2 * (m - w) + 4 + u <= all
      BY <2>1, <2>2, <2>3
    <3>2. n + 2 * (m - (c + 1)) + 4 + v <= all
      BY <2>1, <2>2
    <3> QED BY <3>1, <3>2
  <2>4. CASE w <= c
    <3>1. t + 2 * (c - w) <= v
      BY <2>4, <2>1, TwiceLeftFalls
    <3>2. n + 2 * (m - w) + 4 + u <= all
      BY <2>1, <2>2, <3>1
    <3>3. n + 2 * (m - (c + 1)) + 4 + v <= all
      BY <2>1, <2>2
    <3> QED BY <3>2, <3>3
  <2> QED BY <2>1, <2>3, <2>4
<1>11. ASSUME NEW g \in Handlers, MayWrite(g, r)'
       PROVE  /\ n + 2 + TwiceLeft(Writes(g)') <= all
              /\ n + 2 * (m - c) + 2 + TwiceLeft(Writes(g)') <= all
  <2>1. CASE g = h
    BY <2>1, <1>2, <1>9, <1>11
  <2>2. CASE g # h
    BY <2>2, <1>3, <1>6, <1>11
  <2> QED BY <2>1, <2>2
<1>12. ASSUME NEW f \in Handlers, NEW g \in Handlers, f # g, MayWrite(f, r)', MayWrite(g, r)'
       PROVE  n + 2 * (m - Writes(f)') + 4 + TwiceLeft(Writes(g)') <= all
  <2>1. CASE f = h
    BY <2>1, <1>2, <1>3, <1>10, <1>12
  <2>2. CASE g = h
    BY <2>2, <1>2, <1>3, <1>10, <1>12
  <2> QED BY <2>1, <2>2, <1>12
<1> QED BY <1>1, <1>4, <1>5, <1>11, <1>12 DEF Pair

\* One writes its copy back: whatever the other holds was counted on top of it.
LEMMA PairWrites ==
  ASSUME TypeOK, TypeOK', NEW r \in Ref, Pair(r), NEW h \in Handlers, Set(h), handler[h].ref = r,
         \A f, g \in Handlers : f # h /\ g # h => f = g
  PROVE  Pair(r)'
<1>1. /\ handler[h] \in Validating /\ handler[h].step = "set"
      /\ handler[h].copy.attempts \in 0..MaxAttempts /\ handler[h] # Idle
  BY DEF Set, At, TypeOK, Validating, Entry
<1>2. MayWrite(h, r) /\ Writes(h) = handler[h].copy.attempts
  BY <1>1, OtpAssumption DEF MayWrite, Writes, Busy
<1> PICK w \in 0..MaxAttempts : w = Writes(h)
  BY <1>1, <1>2
<1>3. /\ handler'[h] = Idle
      /\ \A g \in Handlers : g # h => handler'[g] = handler[g]
  BY DEF Set, Become, TypeOK
<1>4. ~MayWrite(h, r)'
  BY <1>3 DEF MayWrite, Busy
<1>5. \A g \in Handlers : g # h => (MayWrite(g, r)' <=> MayWrite(g, r)) /\ Writes(g)' = Writes(g)
  BY <1>3 DEF MayWrite, Writes, Busy
<1>6. \/ cache'[r] = cache[r] /\ answers'[r] = answers[r]
      \/ /\ cache'[r] = handler[h].copy
         /\ \/ answers'[r] = answers[r]
            \/ answers'[r] = [answers[r] EXCEPT !.wrong = answers[r].wrong + 1]
  BY DEF Set, Stored, Answer, TypeOK
<1>7. CASE cache'[r] = cache[r] /\ answers'[r] = answers[r]
  <2>1. \A g \in Handlers : MayWrite(g, r)' => MayWrite(g, r) /\ Writes(g)' = Writes(g)
    BY <1>4, <1>5
  <2> QED BY <1>7, <2>1, PairFewer
<1>8. CASE /\ cache'[r] = handler[h].copy
           /\ \/ answers'[r] = answers[r]
              \/ answers'[r] = [answers[r] EXCEPT !.wrong = answers[r].wrong + 1]
  <2>1. \A k : TwiceLeft(k)' = TwiceLeft(k)
    BY DEF TwiceLeft
  <2> PICK n \in Nat, all \in Nat, m \in Nat :
        n = 2 * answers[r].wrong /\ all = MaxAttempts * (MaxAttempts + 3) /\ m = MaxAttempts
    BY PairNumbers, OtpAssumption
  <2> PICK o \in Nat : o = 2 * answers'[r].wrong
    BY DEF TypeOK
  <2>2. o <= n + 2
    <3>1. answers'[r].wrong = answers[r].wrong \/ answers'[r].wrong = answers[r].wrong + 1
      BY <1>8 DEF TypeOK
    <3>2. answers[r].wrong \in Nat
      BY PairNumbers
    <3> QED BY <3>1, <3>2
  <2>3. n + 2 + TwiceLeft(w) <= all /\ TwiceLeft(w) \in Nat /\ w <= m
    BY <1>2, TwiceLeftFalls, OtpAssumption DEF Pair
  <2>4. ASSUME NEW g \in Handlers, MayWrite(g, r)'
        PROVE  /\ o + 2 + TwiceLeft(Writes(g)') <= all
               /\ o + 2 * (m - w) + 2 + TwiceLeft(Writes(g)') <= all
    <3>1. g # h /\ MayWrite(g, r) /\ Writes(g)' = Writes(g)
      BY <1>4, <1>5, <2>4
    <3> PICK u \in 0..MaxAttempts : u = Writes(g)
      BY <3>1, PairNumbers
    <3> PICK v \in Nat : v = TwiceLeft(u)
      BY TwiceLeftFalls
    <3>2. n + 2 * (m - w) + 4 + v <= all
      BY <1>2, <3>1 DEF Pair
    <3>3. o + 2 + v <= all /\ o + 2 * (m - w) + 2 + v <= all
      BY <2>2, <2>3, <3>2
    <3> QED BY <3>1, <3>3
  <2>5. o <= all /\ o + TwiceLeft(w) <= all
    BY <2>2, <2>3
  <2>6. cache'[r].attempts = w
    BY <1>2, <1>8
  <2>7. \A f, g \in Handlers : f # g => ~(MayWrite(f, r)' /\ MayWrite(g, r)')
    BY <1>4
  <2> QED BY <2>1, <2>4, <2>5, <2>6, <2>7 DEF Pair
<1> QED BY <1>6, <1>7, <1>8

LEMMA PairInit == Init => PairInv
<1> SUFFICES ASSUME Init, NEW r \in Ref PROVE Pair(r)
  BY DEF PairInv
<1>1. answers[r].wrong = 0 /\ Busy(r) = {} /\ cache[r] = NoEntry
  BY DEF Init, Busy
<1> QED BY <1>1, InitTypeOK, PairFresh

\* Every step, with at most two validations at a time; that a fresh reference code
\* has left no trace comes from SerialInv.
LEMMA PairNext ==
  ASSUME NEW a, NEW b, Handlers \subseteq {a, b}, SerialInv, PairInv, [Next]_vars
  PROVE  PairInv'
<1>1. TypeOK /\ TypeOK'
  BY NextTypeOK DEF SerialInv
<1>2. \A f, g, h \in Handlers : f # h /\ g # h => f = g
  OBVIOUS
<1> SUFFICES ASSUME NEW r \in Ref PROVE Pair(r)'
  BY DEF PairInv
<1>3. Pair(r) /\ Fresh(r)
  BY DEF PairInv, SerialInv
<1>4. ASSUME NEW q \in Ref, NEW p \in Purpose, Generate(q, p) PROVE Pair(r)'
  <2>1. UNCHANGED <<handler, answers>> /\ Busy(r)' = Busy(r)
    BY <1>4 DEF Generate, Busy
  <2>2. CASE r # q
    <3>1. cache'[r] = cache[r]
      BY <1>1, <1>4, <2>2 DEF Generate, Stored, TypeOK
    <3>2. \A h \in Handlers : MayWrite(h, r)' => MayWrite(h, r) /\ Writes(h)' = Writes(h)
      BY <2>1 DEF MayWrite, Writes
    <3> QED BY <1>1, <1>3, <2>1, <3>1, <3>2, PairFewer
  <2>3. CASE r = q
    <3>1. cache[r] = NoEntry /\ Busy(r) = {} /\ answers[r].wrong = 0
      BY <1>3, <1>4, <2>3 DEF Generate, Fresh
    <3>2. cache'[r] # NoEntry => cache'[r].attempts = 0
      BY <1>1, <1>4, <2>3, <3>1 DEF Generate, Stored, TypeOK
    <3>3. \A h \in Handlers : ~MayWrite(h, r)'
      BY <2>1, <3>1 DEF MayWrite
    <3>4. TwiceLeft(0) = MaxAttempts * (MaxAttempts + 3)
      BY OtpAssumption DEF TwiceLeft
    <3>5. answers'[r].wrong = 0 /\ TwiceLeft(0)' = TwiceLeft(0)
      BY <2>1, <3>1 DEF TwiceLeft
    <3> QED BY <3>2, <3>3, <3>4, <3>5, <1>1, PairNumbers DEF Pair
  <2> QED BY <2>2, <2>3
<1>5. ASSUME NEW q \in Ref, SendOtp(q) \/ ExpiresAtComes(q) \/ Evict(q) PROVE Pair(r)'
  <2>1. UNCHANGED <<handler, answers>> /\ Busy(r)' = Busy(r)
    BY <1>5 DEF SendOtp, ExpiresAtComes, Evict, Busy
  <2>2. cache'[r] \in {cache[r], NoEntry}
    BY <1>1, <1>5 DEF SendOtp, ExpiresAtComes, Evict, Removed, TypeOK
  <2>3. \A h \in Handlers : MayWrite(h, r)' => MayWrite(h, r) /\ Writes(h)' = Writes(h)
    BY <2>1 DEF MayWrite, Writes
  <2> QED BY <1>1, <1>3, <2>1, <2>2, <2>3, PairFewer
<1>6. ASSUME NEW h \in Handlers, NEW q \in Ref, NEW p \in Purpose, NEW right \in BOOLEAN,
             Get(h, q, p, right)
      PROVE  Pair(r)'
  <2>1. CASE r = q
    BY <1>1, <1>2, <1>3, <1>6, <2>1, PairReads
  <2>2. CASE r # q
    <3>1. /\ UNCHANGED <<cache, answers>>
          /\ handler'[h].ref = q /\ \A g \in Handlers : g # h => handler'[g] = handler[g]
      BY <1>1, <1>6 DEF Get, Become, TypeOK
    <3>2. \A g \in Handlers : MayWrite(g, r)' => MayWrite(g, r) /\ Writes(g)' = Writes(g)
      BY <2>2, <3>1 DEF MayWrite, Writes, Busy
    <3> QED BY <1>1, <1>3, <3>1, <3>2, PairFewer
  <2> QED BY <2>1, <2>2
<1>7. ASSUME NEW h \in Handlers, Crash(h) \/ Delete(h) \/ (Check(h) /\ Become(h, Idle))
      PROVE  Pair(r)'
  <2>1. handler'[h] = Idle /\ \A g \in Handlers : g # h => handler'[g] = handler[g]
    BY <1>1, <1>7 DEF Crash, Delete, Become, TypeOK
  <2>2. \A g \in Handlers : MayWrite(g, r)' => MayWrite(g, r) /\ Writes(g)' = Writes(g)
    BY <2>1 DEF MayWrite, Writes, Busy
  <2>3. cache'[r] \in {cache[r], NoEntry} /\ answers'[r].wrong = answers[r].wrong
    <3>1. CASE Delete(h)
      <4>1. cache'[r] \in {cache[r], NoEntry}
        BY <1>1, <3>1 DEF Delete, Removed, TypeOK, At, Validating
      <4>2. answers'[r].wrong = answers[r].wrong
        BY <1>1, <3>1 DEF Delete, Answer, TypeOK, At, Validating
      <4> QED BY <4>1, <4>2
    <3>2. CASE Crash(h) \/ Check(h)
      BY <3>2 DEF Crash, Check
    <3> QED BY <1>7, <3>1, <3>2
  <2> QED BY <1>1, <1>3, <2>2, <2>3, PairFewer
<1>8. ASSUME NEW h \in Handlers, Check(h), ~Become(h, Idle) PROVE Pair(r)'
  <2>1. UNCHANGED <<cache, answers>> /\ handler[h] \in Validating /\ handler[h].step = "check"
    BY <1>1, <1>8 DEF Check, At, TypeOK
  <2>2. CASE Become(h, [handler[h] EXCEPT !.step = "delete"])
    <3>1. handler'[h].step = "delete" /\ \A g \in Handlers : g # h => handler'[g] = handler[g]
      BY <1>1, <2>1, <2>2 DEF Become, TypeOK, Validating
    <3>2. \A g \in Handlers : MayWrite(g, r)' => MayWrite(g, r) /\ Writes(g)' = Writes(g)
      BY <3>1 DEF MayWrite, Writes, Busy
    <3> QED BY <1>1, <1>3, <2>1, <3>2, PairFewer
  <2>3. CASE Become(h, [handler[h] EXCEPT !.step = "set", !.copy.attempts = @ + 1])
    <3>1. handler'[h] = [handler[h] EXCEPT !.step = "set", !.copy.attempts = @ + 1]
          /\ \A g \in Handlers : g # h => handler'[g] = handler[g]
      BY <1>1, <2>3 DEF Become, TypeOK
    <3>2. handler'[h].copy = [handler[h].copy EXCEPT !.attempts = @ + 1]
          /\ handler'[h].step = "set" /\ handler'[h].ref = handler[h].ref
      BY <2>1, <3>1 DEF Validating
    <3>3. handler'[h].copy.attempts = handler[h].copy.attempts + 1
      BY <2>1, <3>2 DEF Validating, Entry
    <3>4. Writes(h)' = Writes(h) /\ handler[h] # Idle
      BY <2>1, <3>2, <3>3 DEF Writes, Idle
    <3>5. \A g \in Handlers : MayWrite(g, r)' => MayWrite(g, r) /\ Writes(g)' = Writes(g)
      <4> SUFFICES ASSUME NEW g \in Handlers, MayWrite(g, r)'
                   PROVE  MayWrite(g, r) /\ Writes(g)' = Writes(g)
        OBVIOUS
      <4>1. CASE g = h
        <5>1. h \in Busy(r)
          BY <4>1, <3>2, <3>4 DEF MayWrite, Busy
        <5> QED BY <4>1, <5>1, <2>1, <3>4 DEF MayWrite
      <4>2. CASE g # h
        BY <4>2, <3>1 DEF MayWrite, Writes, Busy
      <4> QED BY <4>1, <4>2
    <3> QED BY <1>1, <1>3, <2>1, <3>5, PairFewer
  <2> QED BY <1>8, <2>2, <2>3 DEF Check
<1>9. ASSUME NEW h \in Handlers, Set(h) PROVE Pair(r)'
  <2>1. CASE handler[h].ref = r
    BY <1>1, <1>2, <1>3, <1>9, <2>1, PairWrites
  <2>2. CASE handler[h].ref # r
    <3>1. handler[h] \in Validating /\ handler[h].ref \in Ref
      BY <1>1, <1>9 DEF Set, At, TypeOK, Validating
    <3>2. handler'[h] = Idle /\ \A g \in Handlers : g # h => handler'[g] = handler[g]
      BY <1>1, <1>9 DEF Set, Become, TypeOK
    <3>3. \A g \in Handlers : MayWrite(g, r)' => MayWrite(g, r) /\ Writes(g)' = Writes(g)
      BY <3>2 DEF MayWrite, Writes, Busy
    <3>4. cache'[r] = cache[r] /\ answers'[r] = answers[r]
      BY <1>1, <1>9, <2>2, <3>1 DEF Set, Stored, Answer, TypeOK
    <3> QED BY <1>1, <1>3, <3>3, <3>4, PairFewer
  <2> QED BY <2>1, <2>2
<1>10. CASE UNCHANGED vars
  <2>1. \A h \in Handlers : MayWrite(h, r)' => MayWrite(h, r) /\ Writes(h)' = Writes(h)
    BY <1>10 DEF vars, MayWrite, Writes, Busy
  <2> QED BY <1>1, <1>3, <1>10, <2>1, PairFewer DEF vars
<1> QED
  BY <1>4, <1>5, <1>6, <1>7, <1>8, <1>9, <1>10 DEF Next

\* ValidateOtpHandler reads, decides and writes back: with two requests at a time the
\* write-backs can undo each other, but wrong codes are answered at most
\* MaxAttempts * (MaxAttempts + 3) / 2 times, for every MaxAttempts and whatever fails.
THEOREM OtpPair ==
  ASSUME NEW a, NEW b, Handlers \subseteq {a, b}
  PROVE  Spec => []PairBound
<1>1. SerialInv /\ PairInv => PairBound
  <2> SUFFICES ASSUME SerialInv, PairInv, NEW r \in Ref
               PROVE  answers[r].wrong <= (MaxAttempts * (MaxAttempts + 3)) \div 2
    BY DEF PairBound
  <2>1. TypeOK /\ Pair(r)
    BY DEF SerialInv, PairInv
  <2> PICK n \in Nat, all \in Nat : n = answers[r].wrong /\ all = MaxAttempts * (MaxAttempts + 3)
    BY <2>1, PairNumbers
  <2>2. 2 * n <= all
    BY <2>1 DEF Pair
  <2>3. n <= all \div 2
    BY <2>2
  <2> QED BY <2>3
<1>2. SerialInv /\ PairInv /\ [Next]_vars => PairInv'
  BY PairNext
<1>3. SerialInv /\ [Next]_vars => SerialInv'
  BY NextSerialInv
<1> QED
  BY <1>1, <1>2, <1>3, InitSerialInv, PairInit, PTL DEF Spec

=============================================================================
