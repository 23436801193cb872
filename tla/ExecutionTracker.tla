--------------------------- MODULE ExecutionTracker ---------------------------
(***************************************************************************)
(* The runs of scheduled jobs inside ExecutionTracker, the asynchronous      *)
(* context manager that opens an entry of scheduler_execution_log and closes *)
(* it.  Every run opens a session of its own.  Which jobs are live is the    *)
(* scheduler's business: any job may be, at any time.                        *)
(***************************************************************************)
EXTENDS Integers

CONSTANTS
  TrackedJobs,      \* job ids
  Runs,             \* ids of job runs (a bound)
  MaxTrackerFaults  \* bound on failing statements

ASSUME TrackerAssumption == MaxTrackerFaults \in Nat

VARIABLES
  run,  \* the job runs
  log,  \* scheduler_execution_log
  trackerFaults

trackerVars == <<run, log, trackerFaults>>

NewRun == [pc |-> "new", job |-> "none", end |-> "none"]

TrackerTypeOK ==
  /\ run \in [Runs -> [pc : {"new", "entering", "working", "leaving", "ended"},
                       job : TrackedJobs \cup {"none"}, end : {"none", "SUCCESS", "FAILED"}]]
  /\ log \in [Runs -> {"absent", "RUNNING", "SUCCESS", "FAILED"}]
  /\ trackerFaults \in 0..MaxTrackerFaults

TrackerInit ==
  /\ run = [r \in Runs |-> NewRun]
  /\ log = [r \in Runs |-> "absent"]
  /\ trackerFaults = 0

\* APScheduler's max_instances = 1 for the job under its own id.
AlreadyRunning(j) ==
  \E r \in Runs : run[r].job = j /\ run[r].pc \in {"entering", "working", "leaving"}

\* The cron time of a live job comes, or trigger_job adds a one-off job.
Fire(r, j) ==
  /\ run[r].pc = "new" /\ ~AlreadyRunning(j)
  /\ run' = [run EXCEPT ![r] = [pc |-> "entering", job |-> j, end |-> "none"]]
  /\ UNCHANGED <<log, trackerFaults>>

TriggerJob(r, j) ==
  /\ run[r].pc = "new"
  /\ run' = [run EXCEPT ![r] = [pc |-> "entering", job |-> j, end |-> "none"]]
  /\ UNCHANGED <<log, trackerFaults>>

EntryOpened(r) == [log EXCEPT ![r] = "RUNNING"]

\* __aenter__: the entry is written, or the failure is logged and the job runs.
EnterRun(r) ==
  /\ run[r].pc = "entering"
  /\ run' = [run EXCEPT ![r].pc = "working"]
  /\ \/ log' = EntryOpened(r) /\ UNCHANGED trackerFaults
     \/ trackerFaults < MaxTrackerFaults /\ trackerFaults' = trackerFaults + 1 /\ UNCHANGED log

Work(r) ==
  /\ run[r].pc = "working"
  /\ \E end \in {"SUCCESS", "FAILED"} :
       run' = [run EXCEPT ![r].pc = "leaving", ![r].end = end]
  /\ UNCHANGED <<log, trackerFaults>>

\* Faulty: every entry of the job is updated.
LastEntryClosed(r) ==
  [s \in Runs |-> IF run[s].job = run[r].job /\ log[s] # "absent" THEN run[r].end ELSE log[s]]

EntryClosed(r) == [log EXCEPT ![r] = run[r].end]

\* __aexit__: without an entry nothing is updated; a failing update is logged;
\* the job's own exception goes on in either case.
LeaveRun(r) ==
  /\ run[r].pc = "leaving"
  /\ run' = [run EXCEPT ![r].pc = "ended"]
  /\ \/ log[r] = "absent" /\ UNCHANGED <<log, trackerFaults>>
     \/ log[r] # "absent" /\ log' = EntryClosed(r) /\ UNCHANGED trackerFaults
     \/ /\ log[r] # "absent" /\ trackerFaults < MaxTrackerFaults
        /\ trackerFaults' = trackerFaults + 1 /\ UNCHANGED log

\* The process dies: its runs are gone, and their entries stay as they are.
ProcessDies ==
  /\ run' = [r \in Runs |-> IF run[r].pc = "new" THEN run[r]
                            ELSE [run[r] EXCEPT !.pc = "ended"]]
  /\ UNCHANGED <<log, trackerFaults>>

TrackerNext ==
  \/ \E r \in Runs, j \in TrackedJobs : Fire(r, j) \/ TriggerJob(r, j)
  \/ \E r \in Runs : EnterRun(r) \/ Work(r) \/ LeaveRun(r)
  \/ ProcessDies

TrackerSpec == TrackerInit /\ [][TrackerNext]_trackerVars

-----------------------------------------------------------------------------

\* An execution log entry that is closed says how its own run ended, however
\* many runs of the job overlap and whichever of the tracker's writes fail.
LogTellsOutcome ==
  \A r \in Runs : log[r] \in {"SUCCESS", "FAILED"} => log[r] = run[r].end
=============================================================================
