----------------------------- MODULE Scheduler -----------------------------
(***************************************************************************)
(* The foundation module: SchedulerApplicationService over APScheduler's    *)
(* in-memory jobs and the scheduler_job_config table, and the start of the  *)
(* process that loads the table.                                            *)
(*                                                                         *)
(* The service is a singleton whose repository keeps one AsyncSession for   *)
(* the life of the process.  Everything APScheduler does for a call happens *)
(* without an await, so a call gives way to others only at its SQL          *)
(* statements.                                                              *)
(***************************************************************************)
EXTENDS Integers, FiniteSets

CONSTANTS
  Jobs,            \* job ids
  JobRegistry,     \* those with a function in get_job_registry()
  RouteRegistry,   \* the registry the REST routes pass to the service
  SeededJobs,      \* jobs the migration inserts, enabled
  Crons,           \* cron expressions a request may carry
  SeedCron,        \* the one the migration gives a seeded job
  SixFieldCrons,   \* those of six parts: validated, but refused by from_crontab
  NoCron,          \* "not scheduled"
  Calls,           \* slots for service calls in progress
  MaxSchedFaults,  \* bound on failing statements
  MaxRestarts      \* bound on restarts of the process

ASSUME SchedulerAssumption ==
  /\ JobRegistry \cup SeededJobs \subseteq Jobs /\ RouteRegistry \subseteq JobRegistry
  /\ SixFieldCrons \cup {SeedCron} \subseteq Crons
  /\ NoCron \notin Crons
  /\ MaxSchedFaults \in Nat /\ MaxRestarts \in Nat

VARIABLES
  live,       \* APScheduler: the cron of each recurring job, or NoCron
  row,        \* the scheduler_job_config table
  poisoned,   \* the repository's session needs a rollback nobody issues
  degraded,   \* load_persisted_jobs failed in this life of the process
  call,       \* the service calls in progress
  promise,    \* history: what the last answered request left each job in
  schedFaults, restarts

schedulerVars == <<live, row, poisoned, degraded, call, promise, schedFaults, restarts>>

NoRow == [enabled |-> FALSE, cron |-> NoCron]
IdleCall == [pc |-> "idle", job |-> "none", cron |-> NoCron, exists |-> FALSE,
             alone |-> TRUE]

SchedulerTypeOK ==
  /\ live \in [Jobs -> Crons \cup {NoCron}]
  /\ row \in [Jobs -> [enabled : BOOLEAN, cron : Crons \cup {NoCron}]]
  /\ {poisoned, degraded} \subseteq BOOLEAN
  /\ call \in [Calls -> [pc : {"idle", "select", "write", "reread", "disable"},
                         job : Jobs \cup {"none"}, cron : Crons \cup {NoCron},
                         exists : BOOLEAN, alone : BOOLEAN]]
  /\ promise \in [Jobs -> {"none", "on", "off"}]
  /\ schedFaults \in 0..MaxSchedFaults
  /\ restarts \in 0..MaxRestarts

HasRow(j) == row[j] # NoRow
Disabled(j) == IF HasRow(j) THEN [row EXCEPT ![j].enabled = FALSE] ELSE row
Busy(j) == \E c \in Calls : call[c].pc # "idle" /\ call[c].job = j

\* load_persisted_jobs for one configuration: enabled, known to the registry,
\* accepted by schedule_job.
Loaded(j) ==
  IF row[j].enabled /\ j \in JobRegistry /\ row[j].cron \notin SixFieldCrons
  THEN row[j].cron ELSE NoCron

\* The process starts: start_scheduler, then load_persisted_jobs, before any
\* request is served.  Nothing in the loop over the configurations awaits.
LoadPersistedJobs ==
  /\ live' = [j \in Jobs |-> Loaded(j)]
  /\ poisoned' = FALSE
  /\ degraded' = FALSE

LoadFails ==
  /\ live' = [j \in Jobs |-> NoCron]
  /\ poisoned' = TRUE
  /\ degraded' = TRUE

SchedulerInit ==
  /\ row = [j \in Jobs |-> IF j \in SeededJobs
                           THEN [enabled |-> TRUE, cron |-> SeedCron] ELSE NoRow]
  /\ live = [j \in Jobs |-> Loaded(j)]
  /\ poisoned = FALSE
  /\ degraded = FALSE
  /\ call = [c \in Calls |-> IdleCall]
  /\ promise = [j \in Jobs |-> "none"]
  /\ schedFaults = 0
  /\ restarts = 0

-----------------------------------------------------------------------------
(* schedule_and_persist_job and stop_and_disable_job. *)

Return(c) == call' = [call EXCEPT ![c] = IdleCall]

Begin(c, j) ==
  /\ call[c].pc = "idle"
  /\ promise' = [promise EXCEPT ![j] = "none"]

\* Call c on job j goes on to its first statement.  Calls on one job that
\* overlap promise nothing: history tells which calls were alone.
Disturbed(j) == [d \in Calls |-> [call[d] EXCEPT !.alone = @ /\ call[d].job # j]]
Proceed(c, j, pc, cron) ==
  call' = [Disturbed(j) EXCEPT ![c] = [pc |-> pc, job |-> j, cron |-> cron, exists |-> FALSE,
                                       alone |-> ~Busy(j)]]
Promised(c, what) ==
  promise' = IF call[c].alone THEN [promise EXCEPT ![call[c].job] = what] ELSE promise

\* The adapter's add_job and remove_job.
Live(j, cron) == [live EXCEPT ![j] = cron]
Removed(j) == [live EXCEPT ![j] = NoCron]

\* schedule_job raises, with nothing scheduled and nothing to clean up, for a
\* job unknown to the registry, one already live, or a cron expression that
\* from_crontab refuses.
Schedulable(j, cron) ==
  /\ j \in RouteRegistry
  /\ live[j] = NoCron
  /\ cron \notin SixFieldCrons

\* The job is live before its configuration is stored.
ScheduleAndPersist(c, j, cron) ==
  /\ Begin(c, j)
  /\ Schedulable(j, cron)
  /\ live' = Live(j, cron)
  /\ Proceed(c, j, "select", cron)
  /\ UNCHANGED <<row, poisoned, degraded, schedFaults, restarts>>

\* A job name of blanks passes the DTOs and is refused by _validate_job_config,
\* before the job is looked for: the except clause takes it for a failure of
\* the second step and removes the job an earlier request has made live.  Its
\* row stays enabled.
RefuseConfig(c, j) ==
  /\ Begin(c, j)
  /\ j \in RouteRegistry
  /\ live' = Removed(j)
  /\ call' = Disturbed(j)
  /\ UNCHANGED <<row, poisoned, degraded, schedFaults, restarts>>

\* POST /jobs/schedule and POST /jobs/{job_id}/start.
ScheduleJob(c, j, cron) == ScheduleAndPersist(c, j, cron) \/ RefuseConfig(c, j)
StartJob(c, j, cron) == ScheduleAndPersist(c, j, cron)

\* A statement of the shared session: it runs on a usable session only.
Statement(c, at) == call[c].pc = at /\ ~poisoned

\* upsert: look the row up, ...
SelectRow(c) ==
  /\ Statement(c, "select")
  /\ call' = [call EXCEPT ![c].pc = "write", ![c].exists = HasRow(call[c].job)]
  /\ UNCHANGED <<live, row, poisoned, degraded, promise, schedFaults, restarts>>

\* Faulty: only new rows are written.
StoredOnce(c) ==
  IF call[c].exists THEN row[call[c].job] ELSE [enabled |-> TRUE, cron |-> call[c].cron]

Stored(c) == [enabled |-> TRUE, cron |-> call[c].cron]

\* ... then insert or update it, and commit, ...
WriteRow(c) ==
  /\ Statement(c, "write")
  /\ call[c].exists = HasRow(call[c].job)
  /\ row' = [row EXCEPT ![call[c].job] = Stored(c)]
  /\ call' = [call EXCEPT ![c].pc = "reread"]
  /\ UNCHANGED <<live, poisoned, degraded, promise, schedFaults, restarts>>

\* ... and read it back for the answer.
ReadBack(c) ==
  /\ Statement(c, "reread")
  /\ Promised(c, "on")
  /\ Return(c)
  /\ UNCHANGED <<live, row, poisoned, degraded, schedFaults, restarts>>

\* POST /jobs/{job_id}/stop.  remove_job raises for a job that is not live.
StopJob(c, j) ==
  /\ Begin(c, j)
  /\ live[j] # NoCron
  /\ live' = Removed(j)
  /\ Proceed(c, j, "disable", NoCron)
  /\ UNCHANGED <<row, poisoned, degraded, schedFaults, restarts>>

\* update_enabled: the answer does not depend on whether a row was found.
DisableRow(c) ==
  /\ Statement(c, "disable")
  /\ row' = Disabled(call[c].job)
  /\ Promised(c, "off")
  /\ Return(c)
  /\ UNCHANGED <<live, poisoned, degraded, schedFaults, restarts>>

\* The except clauses: schedule_and_persist_job takes the live job away again,
\* stop_and_disable_job does not put it back.
Compensate(c) ==
  /\ live' = IF call[c].pc = "disable" THEN live
             ELSE Removed(call[c].job)
  /\ Return(c)

\* A statement raises: the database fails, perhaps after the commit was done.
DatabaseFails(c) ==
  /\ call[c].pc # "idle"
  /\ ~poisoned
  /\ schedFaults < MaxSchedFaults /\ schedFaults' = schedFaults + 1
  /\ poisoned' = TRUE
  /\ row' \in {row} \cup CASE call[c].pc = "write" -> {[row EXCEPT ![call[c].job] = Stored(c)]}
                        [] call[c].pc = "disable" -> {Disabled(call[c].job)}
                        [] OTHER -> {}
  /\ Compensate(c)
  /\ UNCHANGED <<degraded, promise, restarts>>

\* The session is unusable since an earlier failure, or another call is inside
\* a statement of the same session.  A read-back that raises comes after the
\* commit.
SessionRefuses(c) ==
  /\ call[c].pc # "idle"
  /\ \/ poisoned /\ UNCHANGED poisoned
     \/ /\ ~poisoned /\ \E d \in Calls \ {c} : call[d].pc # "idle"
        /\ poisoned' \in BOOLEAN
  /\ Compensate(c)
  /\ UNCHANGED <<row, degraded, promise, schedFaults, restarts>>

\* The INSERT meets the unique constraint, or the UPDATE finds no row and the
\* read-back raises: another call changed the table since the look-up.
WriteMissesRow(c) ==
  /\ Statement(c, "write")
  /\ call[c].exists # HasRow(call[c].job)
  /\ poisoned' = ~call[c].exists
  /\ Compensate(c)
  /\ UNCHANGED <<row, degraded, promise, schedFaults, restarts>>

\* The process dies and starts again: the calls are gone.
Restart ==
  /\ restarts < MaxRestarts /\ restarts' = restarts + 1
  /\ \/ LoadPersistedJobs /\ UNCHANGED schedFaults
     \/ LoadFails /\ schedFaults < MaxSchedFaults /\ schedFaults' = schedFaults + 1
  /\ promise' = [j \in Jobs |-> IF Busy(j) THEN "none" ELSE promise[j]]
  /\ call' = [c \in Calls |-> IdleCall]
  /\ UNCHANGED row

SchedulerNext ==
  \/ \E c \in Calls, j \in Jobs :
       StopJob(c, j) \/ \E cron \in Crons : ScheduleJob(c, j, cron) \/ StartJob(c, j, cron)
  \/ \E c \in Calls : SelectRow(c) \/ WriteRow(c) \/ ReadBack(c) \/ DisableRow(c)
  \/ \E c \in Calls : DatabaseFails(c) \/ SessionRefuses(c) \/ WriteMissesRow(c)
  \/ Restart

SchedulerSpec == SchedulerInit /\ [][SchedulerNext]_schedulerVars

-----------------------------------------------------------------------------

\* GET /status: what get_all_jobs, get_job_status and get_all_jobs_status list.
AllJobs == {j \in Jobs : live[j] # NoCron}
JobStatus(j) == IF j \in AllJobs THEN {j} ELSE {}
AllJobsStatus == UNION {JobStatus(j) : j \in AllJobs}

\* What the last answered request said about a job is what the process and the
\* table agree on, now and after any number of restarts: a job reported as
\* scheduled is live with the stored cron expression (unless the table could
\* not be read at start), one reported as stopped does not come back.  The
\* live job and its row are written by separate steps, of which one may fail.
SchedulerAnswersHold ==
  \A j \in Jobs : ~Busy(j) =>
    /\ promise[j] = "on" =>
         row[j].enabled /\ (degraded \/ (j \in AllJobsStatus /\ live[j] = row[j].cron))
    /\ promise[j] = "off" => j \notin AllJobsStatus /\ ~row[j].enabled
=============================================================================
