------------------------------ MODULE Contact -------------------------------
(***************************************************************************)
(* SendMessageToContact: a message whose channels are taken step by step,  *)
(* each with a delay after the previous one, and possibly only if none of  *)
(* the earlier steps was handled (its dependencies).  The handler turns the*)
(* steps into parts with due times and dependencies, adds the row, and     *)
(* AddJobAndSetToDomainSeparate schedules one Hangfire job per part that   *)
(* waits and publishes a command for each of the others.  What a dependency*)
(* asks is an endpoint whose controller is commented out: the answer is 404*)
(* and the consumer denies the part.                                       *)
(***************************************************************************)
EXTENDS Naturals, FiniteSets, Sequences

CONSTANTS
  StepChannels,      \* channels a request can use
  Delays,            \* values of DelayAfterPreviousStep other than null
  DueTimes,          \* values of the request's DueTime other than null
  OwnTime,           \* the due time of a part that has one of its own
  MaxSteps,          \* bound: steps of the request
  MaxContactFaults,  \* bound: failing saves, Hangfire calls and publishes, crashes, re-runs
  Null               \* null

AllChannels == {"Push", "Notification", "Sms", "Email", "Telegram"}

ASSUME ContactAssumption ==
  /\ StepChannels \subseteq AllChannels
  /\ Delays \subseteq Nat /\ DueTimes \subseteq Nat
  /\ OwnTime \in Nat /\ MaxSteps \in Nat /\ MaxContactFaults \in Nat

VARIABLES
  ask,            \* the request without its steps, or Null
  steps,          \* the steps the loop has taken
  dueTime,        \* the loop's dueTime
  plan,           \* the parts made so far
  stage,          \* what the handler does next
  todo,           \* parts still to schedule or to publish, in the code's order
  card,           \* the row, or Null
  jobs,           \* Hangfire jobs that are not over, with the attempt that made them
  attempt,        \* attempts of the handler
  queued,         \* commands waiting, per channel
  handled,        \* commands handled by a consumer that found the row, per channel
  jobReruns,      \* history: jobs that published and are run again, per channel
  contactFaults,  \* failures so far
  removed         \* the one delete: not yet, while the handler worked, or after it

contactVars == <<ask, steps, dueTime, plan, stage, todo, card, jobs, attempt,
                 queued, handled, jobReruns, contactFaults, removed>>

Times == Nat \cup {Null}

\* available: channels with content and a recipient; own: those with a due
\* time of their own.
Ask == [due : DueTimes \cup {Null}, available : SUBSET StepChannels, own : SUBSET (StepChannels \ {"Email"})]

Step == [channel : StepChannels, delay : Delays \cup {Null}, skip : BOOLEAN]

Segment == [due : Times, deps : SUBSET StepChannels]

Plan == [AllChannels -> Segment \cup {Null}]

JobOf == [attempt : Nat, channel : AllChannels]

Card == [saved : BOOLEAN, job : JobOf \cup {Null}]

\* null is neither a time nor a part nor a row.
ASSUME NullAssumption == Null \notin Nat \cup Segment \cup Card

ContactTypeOK ==
  /\ ask \in Ask \cup {Null}
  /\ steps \in Seq(Step) /\ Len(steps) <= MaxSteps
  /\ dueTime \in Times /\ plan \in Plan
  /\ stage \in {"idle", "steps", "exist", "row", "jobs", "save", "publish", "undo", "done"}
  /\ todo \in Seq(AllChannels)
  /\ card \in Card \cup {Null}
  /\ jobs \subseteq JobOf
  /\ attempt \in 0..(MaxContactFaults + 1)
  /\ queued \in [AllChannels -> Nat] /\ handled \in [AllChannels -> Nat]
  /\ jobReruns \in [AllChannels -> Nat]
  /\ contactFaults \in 0..MaxContactFaults
  /\ removed \in {"no", "early", "late"}
  /\ \A i \in DOMAIN todo : plan[todo[i]] # Null

NoPlan == [c \in AllChannels |-> Null]

ContactInit ==
  /\ ask = Null /\ steps = <<>> /\ dueTime = Null /\ plan = NoPlan
  /\ stage = "idle" /\ todo = <<>> /\ card = Null /\ jobs = {} /\ attempt = 0
  /\ queued = [c \in AllChannels |-> 0] /\ handled = [c \in AllChannels |-> 0]
  /\ jobReruns = [c \in AllChannels |-> 0]
  /\ contactFaults = 0 /\ removed = "no"

-----------------------------------------------------------------------------
(* From steps to parts                                                     *)

\* HandelSms and its like: no part without content and recipient; the part's
\* own due time wins unless the step has dependencies.  HandelEmail takes
\* neither the due time nor the dependencies.
Handel(c, due, deps) ==
  CASE c \notin ask.available -> Null
    [] c \in ask.available /\ c = "Email" -> [due |-> Null, deps |-> {}]
    [] OTHER ->
         [due |-> IF c \in ask.own /\ (deps = {} \/ due = Null) THEN OwnTime ELSE due,
          deps |-> deps]

\* The part whose existence the loop tests for an earlier step of channel c.
Tested(c) == IF c = "Notification" THEN "Push" ELSE c

DependenciesOnAll(step) ==
  IF steps # <<>> /\ step.skip THEN {steps[j].channel : j \in DOMAIN steps} ELSE {}

Dependencies(step) ==
  IF steps # <<>> /\ step.skip
  THEN {c \in {steps[j].channel : j \in DOMAIN steps} : plan[Tested(c)] # Null}
  ELSE {}

DelayedFromNow(step) ==
  IF steps = <<>> \/ step.delay = Null \/ (step.skip /\ Dependencies(step) = {})
  THEN dueTime
  ELSE step.delay

\* The first step's delay, and the delay of a step to be skipped that has
\* nothing to depend on, are ignored.  Now is time 0.
Delayed(step) ==
  IF steps = <<>> \/ step.delay = Null \/ (step.skip /\ Dependencies(step) = {})
  THEN dueTime
  ELSE (IF dueTime = Null THEN 0 ELSE dueTime) + step.delay

ReceiveContact(r) ==
  /\ stage = "idle" /\ r.own \subseteq r.available
  /\ ask' = r /\ dueTime' = r.due /\ stage' = "steps"
  /\ UNCHANGED <<steps, plan, todo, card, jobs, attempt, queued, handled,
                 jobReruns, contactFaults, removed>>

\* One round of the loop; a channel's later step replaces its earlier part.
TakeStep(step) ==
  /\ stage = "steps" /\ Len(steps) < MaxSteps
  /\ dueTime' = Delayed(step)
  /\ plan' = [plan EXCEPT ![step.channel] =
                Handel(step.channel, Delayed(step), Dependencies(step))]
  /\ steps' = Append(steps, step)
  /\ UNCHANGED <<ask, stage, todo, card, jobs, attempt, queued, handled,
                 jobReruns, contactFaults, removed>>

\* A request without steps uses every channel; one without parts is dropped.
\* From here on only the parts matter, and whether they wait.
EndSteps ==
  /\ stage = "steps"
  /\ LET all == [c \in AllChannels |-> Handel(c, dueTime, {})]
         made == IF steps = <<>> THEN all ELSE plan
     IN /\ plan' = [c \in AllChannels |->
                      IF made[c] = Null THEN Null
                      ELSE [due |-> IF made[c].due = Null THEN Null ELSE 0, deps |-> {}]]
        /\ stage' = IF made = NoPlan THEN "done" ELSE "row"
  /\ ask' = [ask EXCEPT !.available = {}, !.own = {}]
  /\ steps' = <<>> /\ dueTime' = Null
  /\ UNCHANGED <<todo, card, jobs, attempt, queued, handled, jobReruns, contactFaults,
                 removed>>

-----------------------------------------------------------------------------
(* The row and AddJobAndSetToDomainSeparate                                *)

ContactFault ==
  /\ contactFaults < MaxContactFaults
  /\ contactFaults' = contactFaults + 1

\* MassTransit calls the handler again; fewer failures than LongRetry allows.
Again == stage' = "exist" /\ attempt' = attempt + 1

IsExistContact ==
  /\ stage = "exist"
  /\ stage' = IF card = Null THEN "row" ELSE "done"
  /\ UNCHANGED <<ask, steps, dueTime, plan, todo, card, jobs, attempt, queued,
                 handled, jobReruns, contactFaults, removed>>

Delayable(c) == plan[c] # Null /\ plan[c].due # Null
Immediate(c) == plan[c] # Null /\ plan[c].due = Null

JobFor(c) == IF Delayable(c) THEN <<c>> ELSE <<>>
CommandFor(c) == IF Immediate(c) THEN <<c>> ELSE <<>>

ScheduleOrder ==
  JobFor("Push") \o JobFor("Notification") \o JobFor("Sms") \o JobFor("Email") \o JobFor("Telegram")

PublishOrderNoEmail ==
  CommandFor("Push") \o CommandFor("Sms") \o CommandFor("Notification") \o CommandFor("Telegram")

PublishOrder ==
  CommandFor("Push") \o CommandFor("Sms") \o CommandFor("Notification")
    \o CommandFor("Email") \o CommandFor("Telegram")

AddContactRow ==
  /\ stage = "row"
  /\ card' = [saved |-> FALSE, job |-> Null]
  /\ stage' = "jobs" /\ todo' = ScheduleOrder
  /\ UNCHANGED <<ask, steps, dueTime, plan, jobs, attempt, queued, handled,
                 jobReruns, contactFaults, removed>>

ScheduleOne ==
  /\ stage = "jobs"
  /\ IF todo = <<>> THEN stage' = "save" /\ UNCHANGED <<todo, jobs>>
     ELSE /\ jobs' = jobs \cup {[attempt |-> attempt, channel |-> Head(todo)]}
          /\ todo' = Tail(todo) /\ UNCHANGED stage
  /\ UNCHANGED <<ask, steps, dueTime, plan, card, attempt, queued, handled,
                 jobReruns, contactFaults, removed>>

\* The row keeps the id of the last job only.  An update of a row that was
\* deleted meanwhile throws.
SaveContactRow ==
  /\ stage = "save"
  /\ IF card = Null THEN stage' = "undo" /\ UNCHANGED <<card, todo>>
     ELSE /\ card' = [saved |-> TRUE,
                      job |-> IF ScheduleOrder = <<>> THEN Null
                              ELSE [attempt |-> attempt,
                                    channel |-> ScheduleOrder[Len(ScheduleOrder)]]]
          /\ stage' = "publish" /\ todo' = PublishOrder
  /\ UNCHANGED <<ask, steps, dueTime, plan, jobs, attempt, queued, handled,
                 jobReruns, contactFaults, removed>>

PublishOne ==
  /\ stage = "publish"
  /\ IF todo = <<>> THEN stage' = "done" /\ UNCHANGED <<todo, queued>>
     ELSE /\ queued' = [queued EXCEPT ![Head(todo)] = @ + 1]
          /\ todo' = Tail(todo) /\ UNCHANGED stage
  /\ UNCHANGED <<ask, steps, dueTime, plan, card, jobs, attempt, handled,
                 jobReruns, contactFaults, removed>>

\* A call fails: before the try block the exception ends the attempt, inside it
\* the catch block follows.  A publish that throws when the broker has it already
\* is PublishOne and then this.
ContactCallFails ==
  /\ ContactFault
  /\ \/ stage \in {"exist", "row"} /\ Again
     \/ stage \in {"jobs", "save", "publish"} /\ stage' = "undo" /\ UNCHANGED attempt
  /\ UNCHANGED <<ask, steps, dueTime, plan, todo, card, jobs, queued, handled, jobReruns,
                 removed>>

\* The catch block deletes the row, the finally block saves, the retry begins;
\* if the save fails, because the row is gone or otherwise, only the retry does.
UndoContact ==
  /\ stage = "undo"
  /\ \/ card' = Null /\ UNCHANGED contactFaults
     \/ ContactFault /\ UNCHANGED card
  /\ Again
  /\ UNCHANGED <<ask, steps, dueTime, plan, todo, jobs, queued, handled, jobReruns,
                 removed>>

\* The process dies and the broker delivers the request again.
ContactCrash ==
  /\ stage \in {"row", "jobs", "save", "publish", "undo"}
  /\ ContactFault /\ Again
  /\ UNCHANGED <<ask, steps, dueTime, plan, todo, card, jobs, queued, handled, jobReruns,
                 removed>>

-----------------------------------------------------------------------------
(* Jobs, consumers and a delete                                            *)

RunContactJob(j) ==
  /\ j \in jobs
  /\ jobs' = jobs \ {j}
  /\ queued' = [queued EXCEPT ![j.channel] = @ + 1]
  /\ UNCHANGED <<ask, steps, dueTime, plan, stage, todo, card, attempt, handled,
                 jobReruns, contactFaults, removed>>

\* The job has published, and the publish throws all the same or the server dies
\* before the job is over: Hangfire runs it again.
RerunContactJob(j) ==
  /\ j \in jobs
  /\ ContactFault
  /\ queued' = [queued EXCEPT ![j.channel] = @ + 1]
  /\ jobReruns' = [jobReruns EXCEPT ![j.channel] = @ + 1]
  /\ UNCHANGED <<ask, steps, dueTime, plan, stage, todo, card, jobs, attempt, handled,
                 removed>>

FindsRowAlways(c) == TRUE

\* A consumer looks for the row; SMS insists on Pending.
FindsRow(c) == card # Null /\ (c = "Sms" => card.saved)

ConsumePart(c) ==
  /\ queued[c] > 0
  /\ queued' = [queued EXCEPT ![c] = @ - 1]
  /\ handled' = IF FindsRow(c) THEN [handled EXCEPT ![c] = @ + 1] ELSE handled
  /\ UNCHANGED <<ask, steps, dueTime, plan, stage, todo, card, jobs, attempt,
                 jobReruns, contactFaults, removed>>

\* A handler deletes only a message with a DueTime of its own, and its job,
\* which may fail and is logged; the direct delete by tag also takes one whose
\* SMS or push part waits, and leaves every job.
DeleteContact ==
  /\ removed = "no" /\ card # Null
  /\ \/ ask.due # Null /\ jobs' = jobs \ {card.job}
     \/ (ask.due # Null \/ Delayable("Sms") \/ Delayable("Push")) /\ jobs' = jobs
  /\ card' = Null
  /\ removed' = IF stage = "done" THEN "late" ELSE "early"
  /\ UNCHANGED <<ask, steps, dueTime, plan, stage, todo, attempt, queued, handled,
                 jobReruns, contactFaults>>

-----------------------------------------------------------------------------

ContactNext ==
  \/ \E r \in Ask : ReceiveContact(r)
  \/ \E s \in Step : TakeStep(s)
  \/ EndSteps \/ IsExistContact \/ AddContactRow \/ ScheduleOne \/ SaveContactRow
  \/ PublishOne \/ ContactCallFails \/ UndoContact \/ ContactCrash \/ DeleteContact
  \/ \E j \in jobs : RunContactJob(j) \/ RerunContactJob(j)
  \/ \E c \in AllChannels : ConsumePart(c)

ContactSpec == ContactInit /\ [][ContactNext]_contactVars

-----------------------------------------------------------------------------
(* Properties                                                              *)

\* Step j is the last one of its channel, and has made a part.
Made(j) ==
  /\ plan[steps[j].channel] # Null
  /\ \A k \in DOMAIN steps : k > j => steps[k].channel # steps[j].channel

FromNow(t) == IF t = Null THEN 0 ELSE t

\* Parts go out in the order of their steps, a step that always runs at least its
\* delay after every earlier one, whatever steps in between make no part.  Parts
\* with a due time of their own are exempt, and e-mails, which never wait.
StepsInOrder ==
  \A j \in DOMAIN steps : \A i \in 1..(j - 1) :
    LET c == steps[i].channel
        d == steps[j].channel
    IN
    (Made(i) /\ Made(j) /\ {c, d} \cap (ask.own \cup {"Email"}) = {})
      => FromNow(plan[d].due) >= FromNow(plan[c].due)
           + (IF steps[j].skip \/ steps[j].delay = Null THEN 0 ELSE steps[j].delay)

\* A step to be skipped depends on exactly the earlier steps that have content and
\* a recipient.  The exemption is a real one: after a Notification step the loop
\* looks for a push part instead, and an e-mail step depends on nothing.
ConditionsComplete ==
  \A j \in DOMAIN steps :
    LET earlier == {steps[i].channel : i \in 1..(j - 1)} IN
    (/\ Made(j) /\ steps[j].skip /\ "Notification" \notin earlier
     /\ steps[j].channel # "Email")
      => plan[steps[j].channel].deps = earlier \cap ask.available

Ordered(c) == Cardinality({j \in jobs : j.channel = c}) + queued[c] + handled[c]

\* Every part leads to at most one command per attempt of the handler, through a
\* job or directly, and one more each time its job ran in vain; and to exactly one
\* and those when the first attempt succeeded, although the row remembers only one
\* of the jobs.  An SMS whose job is early may be dropped.
EachPartOnce ==
  \A c \in AllChannels :
    /\ Ordered(c) <= attempt + 1 + jobReruns[c]
    /\ (stage = "done" /\ attempt = 0 /\ card # Null /\ plan[c] # Null)
         => Ordered(c) = 1 + jobReruns[c] \/ (c = "Sms" /\ Delayable(c))

\* A delete after the handler is done stops every part, although it removes only
\* the last job: the others run and find no row.
ContactLateDelete ==
  [][removed = "late" => handled' = handled]_contactVars
=============================================================================
