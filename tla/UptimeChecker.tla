---------------------------- MODULE UptimeChecker ----------------------------
(***************************************************************************)
(* NikSmsUptimeChecker: a check asks the gateway for its time, deletes the *)
(* job of the check that the process scheduled last, whose id a static     *)
(* field keeps, and schedules the next one.  Every API process starts a    *)
(* chain of checks; Hangfire keeps the jobs in the database and lets any   *)
(* process run them.  The answer only sets the interval and NikSmsIsUp,    *)
(* which nothing reads: both are left out.                                 *)
(***************************************************************************)
EXTENDS Naturals, FiniteSets

CONSTANTS
  ApiHosts,        \* API processes; each runs a Hangfire server
  MaxChecks,       \* bound: jobs
  MaxHostStarts,   \* bound: starts of a process
  MaxCheckFaults   \* bound: failing storage calls

ASSUME CheckerAssumption ==
  /\ 0 \notin ApiHosts
  /\ MaxChecks \in Nat /\ MaxHostStarts \in Nat /\ MaxCheckFaults \in Nat

VARIABLES
  jobName,      \* JobName of each process; 0 is null
  scheduled,    \* jobs waiting to run
  deleted,      \* jobs deleted since
  running,      \* checks under way
  made,         \* jobs so far
  madeBy,       \* history: the process that made each job, 0 once it has stopped
  alive,        \* processes that are up
  hostStarts,   \* starts so far
  checkFaults,  \* failures so far
  alone,        \* history: processes none of whose checks overlapped or failed
  dead          \* history: a check whose own job was deleted never scheduled the next

checkerVars == <<jobName, scheduled, deleted, running, made, madeBy, alive,
                 hostStarts, checkFaults, alone, dead>>

JobId == 1..MaxChecks

Check == [host : ApiHosts, job : JobId, at : {"delete", "schedule", "over"}]

CheckerTypeOK ==
  /\ jobName \in [ApiHosts -> 0..made]
  /\ scheduled \subseteq 1..made /\ deleted \subseteq 1..made
  /\ running \subseteq Check
  /\ made \in 0..MaxChecks
  /\ madeBy \in [JobId -> ApiHosts \cup {0}]
  /\ alive \subseteq ApiHosts /\ alone \subseteq ApiHosts
  /\ hostStarts \in 0..MaxHostStarts /\ checkFaults \in 0..MaxCheckFaults
  /\ dead \in BOOLEAN
  /\ scheduled \cap deleted = {}
  /\ \A r, s \in running : r.job = s.job => r = s
  /\ \A r \in running : r.host \in alive /\ r.job \notin scheduled

CheckerInit ==
  /\ jobName = [h \in ApiHosts |-> 0]
  /\ scheduled = {} /\ deleted = {} /\ running = {} /\ made = 0
  /\ madeBy = [j \in JobId |-> 0]
  /\ alive = {} /\ hostStarts = 0 /\ checkFaults = 0
  /\ alone = ApiHosts /\ dead = FALSE

-----------------------------------------------------------------------------

\* BackgroundJobClient.Schedule.
Created(h) ==
  /\ made < MaxChecks
  /\ made' = made + 1
  /\ scheduled' = scheduled \cup {made + 1}
  /\ madeBy' = [madeBy EXCEPT ![made + 1] = h]

\* UseSmsMessaging: the static field is still null.
StartChecker(h) ==
  /\ h \notin alive /\ hostStarts < MaxHostStarts
  /\ hostStarts' = hostStarts + 1 /\ alive' = alive \cup {h}
  /\ Created(h) /\ jobName' = [jobName EXCEPT ![h] = made + 1]
  /\ UNCHANGED <<deleted, running, checkFaults, alone, dead>>

\* Hangfire hands a job to a worker of one process.
BeginCheck(h, j) ==
  /\ h \in alive /\ j \in scheduled
  /\ scheduled' = scheduled \ {j}
  /\ running' = running \cup {[host |-> h, job |-> j, at |-> "delete"]}
  /\ alone' = IF \E r \in running : r.host = h /\ r.at # "over" THEN alone \ {h} ELSE alone
  /\ UNCHANGED <<jobName, deleted, made, madeBy, alive, hostStarts, checkFaults, dead>>

CheckMoves(r, step) == running' = (running \ {r}) \cup {[r EXCEPT !.at = step]}

DeleteNothing(r) ==
  /\ r.at = "delete" /\ CheckMoves(r, "schedule")
  /\ UNCHANGED <<jobName, scheduled, deleted, made, madeBy, alive, hostStarts,
                 checkFaults, alone, dead>>

\* Start, Delete(JobName): usually the job that is running.
DeletePrevious(r) ==
  /\ r.at = "delete" /\ CheckMoves(r, "schedule")
  /\ scheduled' = scheduled \ {jobName[r.host]}
  /\ deleted' = deleted \cup ({jobName[r.host]} \ {0})
  /\ UNCHANGED <<jobName, made, madeBy, alive, hostStarts, checkFaults, alone, dead>>

ScheduleThenDelete(r) ==
  /\ r.at = "schedule" /\ CheckMoves(r, "over")
  /\ made < MaxChecks /\ made' = made + 1
  /\ deleted' = deleted \cup {made + 1}
  /\ madeBy' = [madeBy EXCEPT ![made + 1] = r.host]
  /\ jobName' = [jobName EXCEPT ![r.host] = made + 1]
  /\ UNCHANGED <<scheduled, alive, hostStarts, checkFaults, alone, dead>>

\* Start, Schedule.
ScheduleNext(r) ==
  /\ r.at = "schedule" /\ CheckMoves(r, "over")
  /\ Created(r.host) /\ jobName' = [jobName EXCEPT ![r.host] = made + 1]
  /\ UNCHANGED <<deleted, alive, hostStarts, checkFaults, alone, dead>>

\* Hangfire marks the job as done.
EndCheck(r) ==
  /\ r.at = "over" /\ running' = running \ {r}
  /\ UNCHANGED <<jobName, scheduled, deleted, made, madeBy, alive, hostStarts,
                 checkFaults, alone, dead>>

\* Jobs Hangfire runs again when their checks have failed or died.
Rerun(rs) == {r.job : r \in rs} \ deleted

\* Whether one of the checks had yet to schedule the next, and will not run again.
Dies(rs) == \E r \in rs : r.at # "over" /\ r.job \in deleted

\* A storage call throws in the finally block, after or without its effect; the
\* job fails and Hangfire retries it, unless it has been deleted.
StorageFails(r) ==
  /\ r.at \in {"delete", "schedule"} /\ checkFaults < MaxCheckFaults
  /\ checkFaults' = checkFaults + 1
  /\ running' = running \ {r}
  /\ \/ /\ scheduled' = scheduled \cup Rerun({r}) /\ dead' = (dead \/ Dies({r}))
        /\ UNCHANGED <<deleted, made, madeBy>>
     \/ /\ r.at = "delete"
        /\ deleted' = deleted \cup ({jobName[r.host]} \ {0})
        /\ scheduled' = (scheduled \cup {r.job}) \ deleted'
        /\ dead' = (dead \/ r.job \in deleted')
        /\ UNCHANGED <<made, madeBy>>
     \/ /\ r.at = "schedule" /\ made < MaxChecks /\ made' = made + 1
        /\ scheduled' = scheduled \cup {made + 1} \cup Rerun({r})
        /\ madeBy' = [madeBy EXCEPT ![made + 1] = r.host]
        /\ UNCHANGED <<deleted, dead>>
  /\ alone' = alone \ {r.host}
  /\ UNCHANGED <<jobName, alive, hostStarts>>

\* The process stops; its jobs return to the queue.
StopChecker(h) ==
  LET mine == {r \in running : r.host = h} IN
  /\ h \in alive /\ alive' = alive \ {h}
  /\ running' = running \ mine
  /\ scheduled' = scheduled \cup Rerun(mine)
  /\ dead' = (dead \/ Dies(mine))
  /\ jobName' = [jobName EXCEPT ![h] = 0]
  /\ madeBy' = [j \in JobId |-> IF madeBy[j] = h THEN 0 ELSE madeBy[j]]
  /\ alone' = alone \cup {h}
  /\ UNCHANGED <<deleted, made, hostStarts, checkFaults>>

-----------------------------------------------------------------------------

CheckerNext ==
  \/ \E h \in ApiHosts : StartChecker(h) \/ StopChecker(h) \/ \E j \in scheduled : BeginCheck(h, j)
  \/ \E r \in running :
       DeletePrevious(r) \/ ScheduleNext(r) \/ EndCheck(r) \/ StorageFails(r)

CheckerSpec == CheckerInit /\ [][CheckerNext]_checkerVars

-----------------------------------------------------------------------------
(* Properties                                                              *)

\* A process never has two jobs of its own waiting, however many jobs of stopped
\* and of other processes it runs, unless two of its checks overlapped or a
\* storage call failed.
OneJobOfItsOwn ==
  \A h \in alone \cap alive :
    {j \in scheduled : madeBy[j] = h} \subseteq {jobName[h]}

\* Once a process has started, a check is waiting or under way for ever, unless a
\* check that had deleted its own job failed or was stopped before the next
\* Schedule: then only a restart begins again.
CheckingGoesOn ==
  (hostStarts > 0 /\ ~dead) => scheduled # {} \/ \E r \in running : r.at # "over"
=============================================================================
