------------------------------ MODULE JobProofs ------------------------------
(***************************************************************************)
(* What holds of scheduled jobs and their configuration for every set of    *)
(* jobs and cron expressions and every number of calls, faults and restarts;*)
(* of the execution log for every set of runs, failing statements and       *)
(* process deaths; and of the two incremental syncs that are such jobs: of  *)
(* the daily bars for every set of stocks, every calendar, every number of  *)
(* overlapping runs and of faults, and of the failure records of the finance*)
(* sync for every set of stocks, every calendar and every number of faults. *)
(***************************************************************************)
EXTENDS Scheduler, ExecutionTracker, DailyCompensation, IncrementalFinance, WellFoundedInduction,
        NaturalsInduction, TLAPS

\* The cron expressions a job can be scheduled with.
GoodCrons == Crons \ SixFieldCrons

\* Nothing is promised of a job while a call works on it.
NoPromiseWhileBusy == \A c \in Calls : call[c].pc # "idle" => promise[call[c].job] = "none"

\* A call that counts as alone is the only one on its job.
AloneIsAlone ==
  \A c, d \in Calls :
    c # d /\ call[c].pc # "idle" /\ call[d].pc # "idle" /\ call[c].job = call[d].job
      => ~call[c].alone

\* How far an undisturbed call has come shows in APScheduler and in the table.
CallHolds(c) ==
  /\ call[c].pc # "idle" => call[c].job \in Jobs
  /\ call[c].pc \in {"select", "write", "reread"} =>
       /\ call[c].job \in RouteRegistry /\ call[c].cron \in GoodCrons
       /\ call[c].alone => live[call[c].job] = call[c].cron
  /\ call[c].pc = "reread" /\ call[c].alone => row[call[c].job] = Stored(c)
  /\ call[c].pc = "disable" /\ call[c].alone => live[call[c].job] = NoCron

\* A promise is kept by the process and by the table it is restarted from.
PromiseHolds(j) ==
  /\ promise[j] = "on" => /\ j \in JobRegistry /\ row[j].enabled /\ row[j].cron \in GoodCrons
                          /\ degraded \/ live[j] = row[j].cron
  /\ promise[j] = "off" => live[j] = NoCron /\ ~row[j].enabled

SchedulerInv ==
  /\ SchedulerTypeOK /\ NoPromiseWhileBusy /\ AloneIsAlone
  /\ \A c \in Calls : CallHolds(c)
  /\ \A j \in Jobs : PromiseHolds(j)

-----------------------------------------------------------------------------
(* Facts about the operators. *)

CallRecord == [pc : {"idle", "select", "write", "reread", "disable"},
               job : Jobs \cup {"none"}, cron : Crons \cup {NoCron},
               exists : BOOLEAN, alone : BOOLEAN]

ConfigRow == [enabled : BOOLEAN, cron : Crons \cup {NoCron}]

LEMMA CallType == SchedulerTypeOK => call \in [Calls -> CallRecord]
  BY DEF SchedulerTypeOK, CallRecord

LEMMA ConfigRowType == SchedulerTypeOK => row \in [Jobs -> ConfigRow]
  BY DEF SchedulerTypeOK, ConfigRow

LEMMA DisturbedFacts ==
  ASSUME SchedulerTypeOK, NEW j \in Jobs
  PROVE  /\ Disturbed(j) \in [Calls -> CallRecord]
         /\ \A d \in Calls :
              /\ Disturbed(j)[d].pc = call[d].pc /\ Disturbed(j)[d].job = call[d].job
              /\ Disturbed(j)[d].cron = call[d].cron /\ Disturbed(j)[d].exists = call[d].exists
              /\ Disturbed(j)[d].alone <=> (call[d].alone /\ call[d].job # j)
  BY CallType DEF Disturbed, CallRecord

LEMMA ProceedFacts ==
  ASSUME SchedulerTypeOK, NEW c \in Calls, NEW j \in Jobs, NEW pc \in {"select", "disable"},
         NEW cron \in Crons \cup {NoCron}, Proceed(c, j, pc, cron)
  PROVE  /\ call' \in [Calls -> CallRecord]
         /\ call'[c].pc = pc /\ call'[c].job = j /\ call'[c].cron = cron
         /\ call'[c].alone <=> ~Busy(j)
         /\ \A d \in Calls \ {c} :
              /\ call'[d].pc = call[d].pc /\ call'[d].job = call[d].job
              /\ call'[d].cron = call[d].cron
              /\ call'[d].alone <=> (call[d].alone /\ call[d].job # j)
  <1> DEFINE new == [pc |-> pc, job |-> j, cron |-> cron, exists |-> FALSE, alone |-> ~Busy(j)]
  <1>1. new \in CallRecord
    BY DEF CallRecord
  <1>2. call' = [Disturbed(j) EXCEPT ![c] = new]
    BY DEF Proceed
  <1>3. call'[c] = new /\ \A d \in Calls \ {c} : call'[d] = Disturbed(j)[d]
    BY <1>2, DisturbedFacts
  <1>4. call' \in [Calls -> CallRecord]
    BY <1>1, <1>2, DisturbedFacts
  <1>5. /\ call'[c].pc = pc /\ call'[c].job = j /\ call'[c].cron = cron
        /\ call'[c].alone <=> ~Busy(j)
    <2>1. new.pc = pc /\ new.job = j /\ new.cron = cron /\ new.alone = ~Busy(j)
      BY Zenon
    <2>2. QED
      BY <1>3, <2>1, Zenon
  <1>6. QED
    BY <1>3, <1>4, <1>5, DisturbedFacts

LEMMA ReturnFacts ==
  ASSUME SchedulerTypeOK, NEW c \in Calls, Return(c)
  PROVE  /\ call' \in [Calls -> CallRecord]
         /\ call'[c].pc = "idle" /\ \A d \in Calls \ {c} : call'[d] = call[d]
  BY CallType DEF Return, IdleCall, CallRecord

LEMMA StatusListsLive == AllJobsStatus = {j \in Jobs : live[j] # NoCron}
  BY DEF AllJobsStatus, JobStatus, AllJobs

-----------------------------------------------------------------------------
(* Starting a call. *)

LEMMA BeginStep ==
  ASSUME SchedulerInv, NEW c \in Calls, NEW j \in Jobs, Begin(c, j),
         NEW pc \in {"select", "disable"}, NEW cron \in Crons \cup {NoCron},
         Proceed(c, j, pc, cron), live' = [live EXCEPT ![j] = cron],
         pc = "select" => j \in RouteRegistry /\ cron \in GoodCrons,
         pc = "disable" => cron = NoCron,
         UNCHANGED <<row, poisoned, degraded, schedFaults, restarts>>
  PROVE  SchedulerInv'
  <1>1. SchedulerTypeOK /\ promise' = [promise EXCEPT ![j] = "none"] /\ call[c].pc = "idle"
    BY DEF SchedulerInv, Begin
  <1>2. /\ call' \in [Calls -> CallRecord]
        /\ call'[c].pc = pc /\ call'[c].job = j /\ call'[c].cron = cron
        /\ call'[c].alone <=> ~Busy(j)
        /\ \A d \in Calls \ {c} :
             /\ call'[d].pc = call[d].pc /\ call'[d].job = call[d].job
             /\ call'[d].cron = call[d].cron
             /\ call'[d].alone <=> (call[d].alone /\ call[d].job # j)
    BY <1>1, ProceedFacts
  <1>3. /\ live'[j] = cron /\ \A i \in Jobs \ {j} : live'[i] = live[i]
        /\ promise'[j] = "none" /\ \A i \in Jobs \ {j} : promise'[i] = promise[i]
    BY <1>1 DEF SchedulerTypeOK
  <1>4. SchedulerTypeOK'
    BY <1>1, <1>2 DEF SchedulerTypeOK, CallRecord
  <1>5. \A d \in Calls : call[d].pc # "idle" => call[d].job \in Jobs
    BY DEF SchedulerInv, CallHolds
  <1>6. NoPromiseWhileBusy'
    BY <1>2, <1>3, <1>5 DEF SchedulerInv, NoPromiseWhileBusy
  <1>7. AloneIsAlone'
    BY <1>2 DEF SchedulerInv, AloneIsAlone, Busy
  <1>8. ASSUME NEW d \in Calls PROVE CallHolds(d)'
    <2>1. CASE d = c
      BY <1>2, <1>3, <2>1 DEF CallHolds
    <2>2. CASE d # c
      <3>1. CallHolds(d)
        BY DEF SchedulerInv
      <3>2. CASE call[d].job = j
        BY <1>2, <2>2, <3>1, <3>2 DEF CallHolds
      <3>3. CASE call[d].job # j /\ call[d].pc # "idle"
        <4>1. live'[call'[d].job] = live[call[d].job] /\ row' = row
          BY <1>2, <1>3, <1>5, <2>2, <3>3
        <4>2. Stored(d)' = Stored(d)
          BY <1>2, <2>2 DEF Stored
        <4>3. QED
          BY <1>2, <2>2, <3>1, <4>1, <4>2 DEF CallHolds
      <3>4. QED
        BY <1>2, <2>2, <3>2, <3>3 DEF CallHolds
    <2>3. QED
      BY <2>1, <2>2
  <1>9. ASSUME NEW i \in Jobs PROVE PromiseHolds(i)'
    BY <1>3 DEF SchedulerInv, PromiseHolds
  <1>10. QED
    BY <1>4, <1>6, <1>7, <1>8, <1>9 DEF SchedulerInv

LEMMA RefuseStep ==
  ASSUME SchedulerInv, NEW c \in Calls, NEW j \in Jobs, RefuseConfig(c, j)
  PROVE  SchedulerInv'
  <1>1. /\ SchedulerTypeOK /\ promise' = [promise EXCEPT ![j] = "none"]
        /\ live' = [live EXCEPT ![j] = NoCron] /\ call' = Disturbed(j)
        /\ UNCHANGED <<row, poisoned, degraded, schedFaults, restarts>>
    BY DEF SchedulerInv, RefuseConfig, Begin, Removed
  <1>2. /\ call' \in [Calls -> CallRecord]
        /\ \A d \in Calls :
             /\ call'[d].pc = call[d].pc /\ call'[d].job = call[d].job
             /\ call'[d].cron = call[d].cron
             /\ call'[d].alone <=> (call[d].alone /\ call[d].job # j)
    BY <1>1, DisturbedFacts
  <1>3. /\ live'[j] = NoCron /\ \A i \in Jobs \ {j} : live'[i] = live[i]
        /\ promise'[j] = "none" /\ \A i \in Jobs \ {j} : promise'[i] = promise[i]
    BY <1>1 DEF SchedulerTypeOK
  <1>4. SchedulerTypeOK'
    BY <1>1, <1>2 DEF SchedulerTypeOK, CallRecord
  <1>5. \A d \in Calls : call[d].pc # "idle" => call[d].job \in Jobs
    BY DEF SchedulerInv, CallHolds
  <1>6. NoPromiseWhileBusy'
    BY <1>2, <1>3, <1>5 DEF SchedulerInv, NoPromiseWhileBusy
  <1>7. AloneIsAlone'
    BY <1>2 DEF SchedulerInv, AloneIsAlone
  <1>8. ASSUME NEW d \in Calls PROVE CallHolds(d)'
    <2>1. CallHolds(d)
      BY DEF SchedulerInv
    <2>2. CASE call[d].job = j
      BY <1>2, <2>1, <2>2 DEF CallHolds
    <2>3. CASE call[d].job # j /\ call[d].pc # "idle"
      <3>1. live'[call'[d].job] = live[call[d].job] /\ row' = row
        BY <1>1, <1>2, <1>3, <1>5, <2>3
      <3>2. Stored(d)' = Stored(d)
        BY <1>2 DEF Stored
      <3>3. QED
        BY <1>2, <2>1, <3>1, <3>2 DEF CallHolds
    <2>4. QED
      BY <1>2, <2>2, <2>3 DEF CallHolds
  <1>9. ASSUME NEW i \in Jobs PROVE PromiseHolds(i)'
    BY <1>1, <1>3 DEF SchedulerInv, PromiseHolds
  <1>10. QED
    BY <1>4, <1>6, <1>7, <1>8, <1>9 DEF SchedulerInv
-----------------------------------------------------------------------------
(* A call goes on or returns. *)

\* What a call does concerns its own job: another call on it counts on nothing.
LEMMA CallMoves ==
  ASSUME SchedulerInv, NEW c \in Calls, NEW j \in Jobs, call[c].pc # "idle", call[c].job = j,
         row' \in [Jobs -> ConfigRow], live' \in [Jobs -> Crons \cup {NoCron}],
         promise' \in [Jobs -> {"none", "on", "off"}], call' \in [Calls -> CallRecord],
         \A i \in Jobs \ {j} : row'[i] = row[i] /\ live'[i] = live[i] /\ promise'[i] = promise[i],
         \A d \in Calls \ {c} : call'[d] = call[d],
         call'[c].pc # "idle" => /\ call'[c].job = j /\ promise'[j] = "none"
                                 /\ call'[c].alone => call[c].alone,
         promise'[j] # "none" => call[c].alone,
         CallHolds(c)', PromiseHolds(j)',
         degraded' = degraded, poisoned' \in BOOLEAN, restarts' = restarts,
         schedFaults' \in 0..MaxSchedFaults
  PROVE  SchedulerInv'
  <1>1. SchedulerTypeOK'
    BY DEF SchedulerInv, SchedulerTypeOK, CallRecord, ConfigRow
  <1>2. \A d \in Calls \ {c} : call[d].pc # "idle" /\ call[d].job = j =>
          ~call[d].alone /\ ~call[c].alone
    BY DEF SchedulerInv, AloneIsAlone
  <1>3. \A d \in Calls : call[d].pc # "idle" => call[d].job \in Jobs
    BY DEF SchedulerInv, CallHolds
  <1>4. NoPromiseWhileBusy'
    <2> SUFFICES ASSUME NEW d \in Calls, call'[d].pc # "idle" PROVE promise'[call'[d].job] = "none"
      BY DEF NoPromiseWhileBusy
    <2>1. CASE d = c
      BY <2>1
    <2>2. CASE d # c /\ call[d].job = j
      BY <1>2, <2>2
    <2>3. CASE d # c /\ call[d].job # j
      BY <1>3, <2>3 DEF SchedulerInv, NoPromiseWhileBusy
    <2>4. QED
      BY <2>1, <2>2, <2>3
  <1>5. AloneIsAlone'
    BY <1>2 DEF SchedulerInv, AloneIsAlone
  <1>6. ASSUME NEW d \in Calls \ {c} PROVE CallHolds(d)'
    <2>1. CallHolds(d) /\ call'[d] = call[d]
      BY DEF SchedulerInv
    <2>2. CASE call[d].pc = "idle"
      BY <2>1, <2>2 DEF CallHolds
    <2>3. CASE call[d].pc # "idle" /\ call[d].job = j
      BY <1>2, <2>1, <2>3 DEF CallHolds
    <2>4. CASE call[d].pc # "idle" /\ call[d].job # j
      <3>1. live'[call'[d].job] = live[call[d].job] /\ row'[call'[d].job] = row[call[d].job]
        BY <1>3, <2>1, <2>4
      <3>2. Stored(d)' = Stored(d)
        BY <2>1 DEF Stored
      <3>3. QED
        BY <2>1, <3>1, <3>2 DEF CallHolds
    <2>5. QED
      BY <2>2, <2>3, <2>4
  <1>7. ASSUME NEW i \in Jobs \ {j} PROVE PromiseHolds(i)'
    BY DEF SchedulerInv, PromiseHolds
  <1>8. QED
    BY <1>1, <1>4, <1>5, <1>6, <1>7 DEF SchedulerInv

LEMMA BusyFacts ==
  ASSUME SchedulerInv, NEW c \in Calls, call[c].pc # "idle"
  PROVE  /\ call[c].job \in Jobs /\ promise[call[c].job] = "none"
         /\ call[c].cron \in Crons \cup {NoCron} /\ call[c].alone \in BOOLEAN
         /\ PromiseHolds(call[c].job)
  BY CallType DEF SchedulerInv, CallHolds, NoPromiseWhileBusy, CallRecord

LEMMA SelectRowStep ==
  ASSUME SchedulerInv, NEW c \in Calls, SelectRow(c)
  PROVE  SchedulerInv'
  <1> DEFINE j == call[c].job
  <1>1. /\ call[c].pc = "select"
        /\ call' = [call EXCEPT ![c] = [call[c] EXCEPT !.pc = "write", !.exists = HasRow(j)]]
        /\ UNCHANGED <<live, row, poisoned, degraded, promise, schedFaults, restarts>>
    BY CallType DEF SelectRow, Statement, SchedulerInv, CallRecord
  <1>2. j \in Jobs /\ promise[j] = "none" /\ PromiseHolds(j)
    BY <1>1, BusyFacts
  <1>3. call \in [Calls -> CallRecord] /\ HasRow(j) \in BOOLEAN
    BY CallType DEF SchedulerInv, HasRow
  <1>4. /\ call' \in [Calls -> CallRecord] /\ \A d \in Calls \ {c} : call'[d] = call[d]
        /\ call'[c].pc = "write" /\ call'[c].job = j /\ call'[c].cron = call[c].cron
        /\ call'[c].alone = call[c].alone
    BY <1>1, <1>3 DEF CallRecord
  <1>5. CallHolds(c)' /\ PromiseHolds(j)'
    BY <1>1, <1>2, <1>4 DEF SchedulerInv, CallHolds, PromiseHolds
  <1>6. QED
    BY <1>1, <1>2, <1>4, <1>5, CallMoves, ConfigRowType DEF SchedulerInv, SchedulerTypeOK

LEMMA WriteRowStep ==
  ASSUME SchedulerInv, NEW c \in Calls, WriteRow(c)
  PROVE  SchedulerInv'
  <1> DEFINE j == call[c].job
  <1>1. /\ call[c].pc = "write" /\ row' = [row EXCEPT ![j] = Stored(c)]
        /\ call' = [call EXCEPT ![c] = [call[c] EXCEPT !.pc = "reread"]]
        /\ UNCHANGED <<live, poisoned, degraded, promise, schedFaults, restarts>>
    BY CallType DEF WriteRow, Statement, SchedulerInv, CallRecord
  <1>2. j \in Jobs /\ promise[j] = "none" /\ call[c].cron \in Crons \cup {NoCron}
    BY <1>1, BusyFacts
  <1>3. call \in [Calls -> CallRecord] /\ row \in [Jobs -> ConfigRow]
    BY CallType, ConfigRowType DEF SchedulerInv
  <1>4. /\ call' \in [Calls -> CallRecord] /\ \A d \in Calls \ {c} : call'[d] = call[d]
        /\ call'[c].pc = "reread" /\ call'[c].job = j /\ call'[c].cron = call[c].cron
        /\ call'[c].alone = call[c].alone
    BY <1>1, <1>3 DEF CallRecord
  <1>5. Stored(c) \in ConfigRow /\ Stored(c)' = Stored(c)
    BY <1>2, <1>4 DEF Stored, ConfigRow
  <1>6. row' \in [Jobs -> ConfigRow] /\ row'[j] = Stored(c)
        /\ \A i \in Jobs \ {j} : row'[i] = row[i]
    BY <1>1, <1>2, <1>3, <1>5
  <1>7. CallHolds(c)' /\ PromiseHolds(j)'
    BY <1>1, <1>2, <1>4, <1>5, <1>6 DEF SchedulerInv, CallHolds, PromiseHolds
  <1>8. QED
    BY <1>1, <1>2, <1>4, <1>6, <1>7, CallMoves DEF SchedulerInv, SchedulerTypeOK

\* A call returns: what it did to its own job has to hold what is promised.
LEMMA ReturnStep ==
  ASSUME SchedulerInv, NEW c \in Calls, NEW j \in Jobs, call[c].pc # "idle", call[c].job = j,
         Return(c),
         row' \in [Jobs -> ConfigRow], live' \in [Jobs -> Crons \cup {NoCron}],
         promise' \in [Jobs -> {"none", "on", "off"}],
         \A i \in Jobs \ {j} : row'[i] = row[i] /\ live'[i] = live[i] /\ promise'[i] = promise[i],
         promise'[j] # "none" => call[c].alone,
         PromiseHolds(j)',
         degraded' = degraded, poisoned' \in BOOLEAN, restarts' = restarts,
         schedFaults' \in 0..MaxSchedFaults
  PROVE  SchedulerInv'
  <1>1. call' \in [Calls -> CallRecord] /\ call'[c].pc = "idle"
        /\ \A d \in Calls \ {c} : call'[d] = call[d]
    BY ReturnFacts DEF SchedulerInv
  <1>2. CallHolds(c)'
    BY <1>1 DEF CallHolds
  <1>3. QED
    BY <1>1, <1>2, CallMoves

LEMMA PromisedFacts ==
  ASSUME SchedulerInv, NEW c \in Calls, NEW j \in Jobs, call[c].pc # "idle", call[c].job = j,
         NEW what \in {"on", "off"}, Promised(c, what)
  PROVE  /\ promise' \in [Jobs -> {"none", "on", "off"}]
         /\ promise'[j] = IF call[c].alone THEN what ELSE "none"
         /\ \A i \in Jobs \ {j} : promise'[i] = promise[i]
  BY BusyFacts DEF SchedulerInv, SchedulerTypeOK, Promised

LEMMA DisabledFacts ==
  ASSUME row \in [Jobs -> ConfigRow], NEW j \in Jobs
  PROVE  /\ Disabled(j) \in [Jobs -> ConfigRow] /\ ~Disabled(j)[j].enabled
         /\ \A i \in Jobs \ {j} : Disabled(j)[i] = row[i]
  <1>1. CASE HasRow(j)
    <2>1. Disabled(j) = [row EXCEPT ![j] = [row[j] EXCEPT !.enabled = FALSE]]
      BY <1>1 DEF Disabled
    <2>2. [row[j] EXCEPT !.enabled = FALSE] \in ConfigRow
          /\ ~[row[j] EXCEPT !.enabled = FALSE].enabled
      BY DEF ConfigRow
    <2>3. QED
      BY <2>1, <2>2
  <1>2. CASE ~HasRow(j)
    <2>1. row[j].enabled = FALSE
      BY <1>2 DEF HasRow, NoRow
    <2>2. QED
      BY <1>2, <2>1 DEF Disabled
  <1>3. QED
    BY <1>1, <1>2

LEMMA AnswerStep ==
  ASSUME SchedulerInv, NEW c \in Calls, ReadBack(c) \/ DisableRow(c)
  PROVE  SchedulerInv'
  <1>1. call[c].pc \in {"reread", "disable"} /\ Return(c)
        /\ UNCHANGED <<live, poisoned, degraded, schedFaults, restarts>>
    BY DEF ReadBack, DisableRow, Statement
  <1>2. PICK j \in Jobs : j = call[c].job /\ promise[j] = "none" /\ CallHolds(c)
    BY <1>1, BusyFacts DEF SchedulerInv
  <1>3. SchedulerTypeOK /\ row \in [Jobs -> ConfigRow]
    BY ConfigRowType DEF SchedulerInv
  <1>4. CASE ReadBack(c)
    <2>1. row' = row /\ Promised(c, "on") /\ call[c].pc = "reread"
      BY <1>4 DEF ReadBack, Statement
    <2>2. /\ promise' \in [Jobs -> {"none", "on", "off"}]
          /\ promise'[j] = IF call[c].alone THEN "on" ELSE "none"
          /\ \A i \in Jobs \ {j} : promise'[i] = promise[i]
      BY <1>1, <1>2, <2>1, PromisedFacts
    <2>3. call[c].alone => /\ j \in JobRegistry /\ row[j].enabled /\ row[j].cron \in GoodCrons
                           /\ live[j] = row[j].cron
      BY <1>2, <2>1, SchedulerAssumption DEF CallHolds, Stored
    <2>4. PromiseHolds(j)'
      BY <1>1, <2>1, <2>2, <2>3 DEF PromiseHolds
    <2>5. QED
      BY <1>1, <1>2, <1>3, <2>1, <2>2, <2>4, ReturnStep DEF SchedulerTypeOK
  <1>5. CASE DisableRow(c)
    <2>1. row' = Disabled(j) /\ Promised(c, "off") /\ call[c].pc = "disable"
      BY <1>2, <1>5 DEF DisableRow, Statement
    <2>2. /\ promise' \in [Jobs -> {"none", "on", "off"}]
          /\ promise'[j] = IF call[c].alone THEN "off" ELSE "none"
          /\ \A i \in Jobs \ {j} : promise'[i] = promise[i]
      BY <1>1, <1>2, <2>1, PromisedFacts
    <2>3. row' \in [Jobs -> ConfigRow] /\ ~row'[j].enabled
          /\ \A i \in Jobs \ {j} : row'[i] = row[i]
      BY <1>2, <1>3, <2>1, DisabledFacts
    <2>4. call[c].alone => live[j] = NoCron
      BY <1>2, <2>1 DEF CallHolds
    <2>5. PromiseHolds(j)'
      BY <1>1, <2>2, <2>3, <2>4 DEF PromiseHolds
    <2>6. QED
      BY <1>1, <1>2, <1>3, <2>2, <2>3, <2>5, ReturnStep DEF SchedulerTypeOK
  <1>6. QED
    BY <1>4, <1>5

\* A call that fails promises nothing, and touches its own job only.
LEMMA FailureStep ==
  ASSUME SchedulerInv, NEW c \in Calls, DatabaseFails(c) \/ SessionRefuses(c) \/ WriteMissesRow(c)
  PROVE  SchedulerInv'
  <1>1. /\ call[c].pc # "idle" /\ Compensate(c)
        /\ UNCHANGED <<degraded, promise, restarts>>
    BY DEF DatabaseFails, SessionRefuses, WriteMissesRow, Statement
  <1>2. PICK j \in Jobs : j = call[c].job /\ promise[j] = "none" /\ call[c].cron \in Crons \cup {NoCron}
    BY <1>1, BusyFacts
  <1>3. SchedulerTypeOK /\ row \in [Jobs -> ConfigRow]
    BY ConfigRowType DEF SchedulerInv
  <1>4. Return(c) /\ live' \in [Jobs -> Crons \cup {NoCron}]
        /\ \A i \in Jobs \ {j} : live'[i] = live[i]
    BY <1>1, <1>2, <1>3 DEF Compensate, Removed, SchedulerTypeOK
  <1>5. poisoned' \in BOOLEAN
    BY <1>3 DEF DatabaseFails, SessionRefuses, WriteMissesRow, SchedulerTypeOK, HasRow
  <1>6. schedFaults' \in 0..MaxSchedFaults
    BY <1>3, SchedulerAssumption DEF DatabaseFails, SessionRefuses, WriteMissesRow, SchedulerTypeOK
  <1>7. row' \in [Jobs -> ConfigRow] /\ \A i \in Jobs \ {j} : row'[i] = row[i]
    <2>1. row' \in {row, [row EXCEPT ![j] = Stored(c)], Disabled(j)}
      BY <1>2 DEF DatabaseFails, SessionRefuses, WriteMissesRow
    <2>2. Stored(c) \in ConfigRow
      BY <1>2 DEF Stored, ConfigRow
    <2>3. Disabled(j) \in [Jobs -> ConfigRow] /\ \A i \in Jobs \ {j} : Disabled(j)[i] = row[i]
      BY <1>3, DisabledFacts
    <2>4. QED
      BY <1>2, <1>3, <2>1, <2>2, <2>3
  <1>8. PromiseHolds(j)'
    BY <1>1, <1>2 DEF PromiseHolds
  <1>9. promise' \in [Jobs -> {"none", "on", "off"}]
    BY <1>1, <1>3 DEF SchedulerTypeOK
  <1>10. QED
    BY <1>1, <1>2, <1>4, <1>5, <1>6, <1>7, <1>8, <1>9, ReturnStep

-----------------------------------------------------------------------------
(* The process starts again. *)

LEMMA LoadedFacts ==
  ASSUME SchedulerTypeOK, NEW j \in Jobs
  PROVE  /\ Loaded(j) \in Crons \cup {NoCron}
         /\ ~row[j].enabled => Loaded(j) = NoCron
         /\ j \in JobRegistry /\ row[j].enabled /\ row[j].cron \in GoodCrons
              => Loaded(j) = row[j].cron
  BY ConfigRowType DEF Loaded, ConfigRow, GoodCrons

LEMMA RestartStep ==
  ASSUME SchedulerInv, Restart
  PROVE  SchedulerInv'
  <1>1. /\ call' = [c \in Calls |-> IdleCall] /\ row' = row
        /\ promise' = [j \in Jobs |-> IF Busy(j) THEN "none" ELSE promise[j]]
        /\ restarts' \in 0..MaxRestarts /\ schedFaults' \in 0..MaxSchedFaults
    BY SchedulerAssumption DEF Restart, SchedulerInv, SchedulerTypeOK
  <1>2. /\ \/ live' = [j \in Jobs |-> Loaded(j)] /\ degraded' = FALSE
           \/ live' = [j \in Jobs |-> NoCron] /\ degraded' = TRUE
        /\ poisoned' \in BOOLEAN
    BY DEF Restart, LoadPersistedJobs, LoadFails
  <1>3. \A j \in Jobs : live'[j] \in {Loaded(j), NoCron} /\ (degraded' \/ live'[j] = Loaded(j))
    BY <1>2
  <1>4. IdleCall \in CallRecord
    BY DEF IdleCall, CallRecord
  <1>5. SchedulerTypeOK'
    <2>1. live' \in [Jobs -> Crons \cup {NoCron}]
      BY <1>2, LoadedFacts DEF SchedulerInv
    <2>2. call' \in [Calls -> CallRecord]
      BY <1>1, <1>4
    <2>3. promise' \in [Jobs -> {"none", "on", "off"}]
      BY <1>1 DEF SchedulerInv, SchedulerTypeOK
    <2>4. {poisoned', degraded'} \subseteq BOOLEAN
      BY <1>2
    <2>5. QED
      BY <1>1, <2>1, <2>2, <2>3, <2>4 DEF SchedulerInv, SchedulerTypeOK, CallRecord
  <1>6. \A c \in Calls : call'[c].pc = "idle"
    BY <1>1 DEF IdleCall
  <1>7. NoPromiseWhileBusy' /\ AloneIsAlone' /\ \A c \in Calls : CallHolds(c)'
    BY <1>6 DEF NoPromiseWhileBusy, AloneIsAlone, CallHolds
  <1>8. ASSUME NEW j \in Jobs PROVE PromiseHolds(j)'
    <2>1. PromiseHolds(j) /\ promise'[j] \in {"none", promise[j]}
      BY <1>1 DEF SchedulerInv
    <2>2. /\ ~row[j].enabled => Loaded(j) = NoCron
          /\ j \in JobRegistry /\ row[j].enabled /\ row[j].cron \in GoodCrons
               => Loaded(j) = row[j].cron
      BY LoadedFacts DEF SchedulerInv
    <2>3. QED
      BY <1>1, <1>3, <2>1, <2>2 DEF PromiseHolds
  <1>9. QED
    BY <1>5, <1>7, <1>8 DEF SchedulerInv

LEMMA SchedulerInvInit == SchedulerInit => SchedulerInv
  <1> SUFFICES ASSUME SchedulerInit PROVE SchedulerInv
    OBVIOUS
  <1>1. row \in [Jobs -> ConfigRow]
    BY SchedulerAssumption DEF SchedulerInit, NoRow, ConfigRow
  <1>2. call \in [Calls -> CallRecord] /\ \A c \in Calls : call[c].pc = "idle"
    BY DEF SchedulerInit, IdleCall, CallRecord
  <1>3. live \in [Jobs -> Crons \cup {NoCron}]
    BY <1>1 DEF SchedulerInit, Loaded, ConfigRow
  <1>4. SchedulerTypeOK
    <2>1. {poisoned, degraded} \subseteq BOOLEAN
      BY Zenon DEF SchedulerInit
    <2>2. /\ promise \in [Jobs -> {"none", "on", "off"}]
          /\ schedFaults \in 0..MaxSchedFaults /\ restarts \in 0..MaxRestarts
      BY SchedulerAssumption DEF SchedulerInit
    <2>3. QED
      BY <1>1, <1>2, <1>3, <2>1, <2>2 DEF SchedulerTypeOK, CallRecord, ConfigRow
  <1>5. NoPromiseWhileBusy /\ AloneIsAlone /\ \A c \in Calls : CallHolds(c)
    BY <1>2 DEF NoPromiseWhileBusy, AloneIsAlone, CallHolds
  <1>6. \A j \in Jobs : PromiseHolds(j)
    BY DEF SchedulerInit, PromiseHolds
  <1>7. QED
    BY <1>4, <1>5, <1>6 DEF SchedulerInv

LEMMA SchedulerInvNext == SchedulerInv /\ [SchedulerNext]_schedulerVars => SchedulerInv'
  <1> SUFFICES ASSUME SchedulerInv, [SchedulerNext]_schedulerVars PROVE SchedulerInv'
    OBVIOUS
  <1>1. ASSUME NEW c \in Calls, NEW j \in Jobs, NEW cron \in Crons, ScheduleAndPersist(c, j, cron)
        PROVE  SchedulerInv'
    <2>1. /\ Begin(c, j) /\ Proceed(c, j, "select", cron) /\ live' = [live EXCEPT ![j] = cron]
          /\ j \in RouteRegistry /\ cron \in GoodCrons
          /\ UNCHANGED <<row, poisoned, degraded, schedFaults, restarts>>
      BY <1>1 DEF ScheduleAndPersist, Schedulable, Live, GoodCrons
    <2>2. QED
      BY <2>1, BeginStep
  <1>2. ASSUME NEW c \in Calls, NEW j \in Jobs, StopJob(c, j) PROVE SchedulerInv'
    <2>1. /\ Begin(c, j) /\ Proceed(c, j, "disable", NoCron) /\ live' = [live EXCEPT ![j] = NoCron]
          /\ UNCHANGED <<row, poisoned, degraded, schedFaults, restarts>>
      BY <1>2 DEF StopJob, Removed
    <2>2. QED
      BY <2>1, BeginStep
  <1>3. CASE UNCHANGED schedulerVars
    BY <1>3 DEF schedulerVars, SchedulerInv, SchedulerTypeOK, NoPromiseWhileBusy, AloneIsAlone,
                CallHolds, PromiseHolds, Stored
  <1>4. QED
    BY <1>1, <1>2, <1>3, RefuseStep, SelectRowStep, WriteRowStep, AnswerStep, FailureStep,
       RestartStep
       DEF SchedulerNext, ScheduleJob, StartJob

\* What the last answered request said about a job is what the process and
\* scheduler_job_config agree on, through failing statements, failed loads and
\* any number of restarts.
THEOREM AnswersHold == SchedulerSpec => []SchedulerAnswersHold
  <1>1. SchedulerInv => SchedulerAnswersHold
    <2> SUFFICES ASSUME SchedulerInv, NEW j \in Jobs
                 PROVE  /\ promise[j] = "on" =>
                             row[j].enabled
                             /\ (degraded \/ (j \in AllJobsStatus /\ live[j] = row[j].cron))
                        /\ promise[j] = "off" => j \notin AllJobsStatus /\ ~row[j].enabled
      BY DEF SchedulerAnswersHold
    <2>1. row[j].cron \in GoodCrons => row[j].cron # NoCron
      BY SchedulerAssumption DEF GoodCrons
    <2>2. QED
      BY <2>1, StatusListsLive DEF SchedulerInv, PromiseHolds
  <1>2. QED
    BY <1>1, SchedulerInvInit, SchedulerInvNext, PTL DEF SchedulerSpec

-----------------------------------------------------------------------------
(* The execution log.                                                      *)

\* An entry is closed by its own run only, as the last thing it does.
ClosedAtTheEnd ==
  \A r \in Runs : log[r] \in {"SUCCESS", "FAILED"} =>
    run[r].pc = "ended" /\ log[r] = run[r].end

\* A run that leaves knows how it ended.
LeavingHasEnd == \A r \in Runs : run[r].pc = "leaving" => run[r].end # "none"

TrackerInv == TrackerTypeOK /\ ClosedAtTheEnd /\ LeavingHasEnd

-----------------------------------------------------------------------------

LEMMA TrackerInvInit == TrackerInit => TrackerInv
  BY TrackerAssumption
     DEF TrackerInit, TrackerInv, TrackerTypeOK, ClosedAtTheEnd, LeavingHasEnd, NewRun

\* A run changes its own record only, and does not reopen or close the log.
LEMMA OneTrackedRunMoves ==
  ASSUME TrackerInv, NEW r \in Runs, UNCHANGED log, trackerFaults' \in 0..MaxTrackerFaults,
         NEW v \in [pc : {"new", "entering", "working", "leaving", "ended"},
                    job : TrackedJobs \cup {"none"}, end : {"none", "SUCCESS", "FAILED"}],
         run' = [run EXCEPT ![r] = v],
         log[r] \notin {"SUCCESS", "FAILED"},
         v.pc = "leaving" => v.end # "none"
  PROVE  TrackerInv'
  <1>1. TrackerTypeOK'
    BY DEF TrackerInv, TrackerTypeOK
  <1>2. run'[r] = v /\ \A s \in Runs \ {r} : run'[s] = run[s]
    BY DEF TrackerInv, TrackerTypeOK
  <1>3. ClosedAtTheEnd'
    BY <1>2 DEF TrackerInv, ClosedAtTheEnd
  <1>4. LeavingHasEnd'
    BY <1>2 DEF TrackerInv, LeavingHasEnd
  <1>5. QED
    BY <1>1, <1>3, <1>4 DEF TrackerInv

LEMMA TrackerInvNext == TrackerInv /\ [TrackerNext]_trackerVars => TrackerInv'
  <1> SUFFICES ASSUME TrackerInv, [TrackerNext]_trackerVars PROVE TrackerInv'
    OBVIOUS
  <1>1. ASSUME NEW r \in Runs, NEW j \in TrackedJobs, Fire(r, j) \/ TriggerJob(r, j)
        PROVE  TrackerInv'
    <2> DEFINE v == [pc |-> "entering", job |-> j, end |-> "none"]
    <2>1. /\ run' = [run EXCEPT ![r] = v] /\ UNCHANGED <<log, trackerFaults>>
          /\ run[r].pc = "new"
      BY <1>1 DEF Fire, TriggerJob
    <2>2. log[r] \notin {"SUCCESS", "FAILED"}
      BY <2>1 DEF TrackerInv, ClosedAtTheEnd
    <2>3. trackerFaults' \in 0..MaxTrackerFaults
      BY <2>1 DEF TrackerInv, TrackerTypeOK
    <2>4. QED
      BY <2>1, <2>2, <2>3, OneTrackedRunMoves
  <1>2. ASSUME NEW r \in Runs, EnterRun(r) PROVE TrackerInv'
    <2>1. /\ run[r].pc = "entering"
          /\ run' = [run EXCEPT ![r].pc = "working"]
          /\ \A s \in Runs \ {r} : log'[s] = log[s]
          /\ log'[r] \in {log[r], "RUNNING"}
          /\ log' \in [Runs -> {"absent", "RUNNING", "SUCCESS", "FAILED"}]
          /\ trackerFaults' \in 0..MaxTrackerFaults
      BY <1>2, TrackerAssumption DEF EnterRun, EntryOpened, TrackerInv, TrackerTypeOK
    <2>2. log[r] \notin {"SUCCESS", "FAILED"}
      BY <2>1 DEF TrackerInv, ClosedAtTheEnd
    <2>3. TrackerTypeOK'
      BY <2>1 DEF TrackerInv, TrackerTypeOK
    <2>4. run'[r].pc = "working" /\ \A s \in Runs \ {r} : run'[s] = run[s]
      BY <2>1 DEF TrackerInv, TrackerTypeOK
    <2>5. ClosedAtTheEnd'
      BY <2>1, <2>2, <2>4 DEF TrackerInv, ClosedAtTheEnd
    <2>6. LeavingHasEnd'
      BY <2>4 DEF TrackerInv, LeavingHasEnd
    <2>7. QED
      BY <2>3, <2>5, <2>6 DEF TrackerInv
  <1>3. ASSUME NEW r \in Runs, Work(r) PROVE TrackerInv'
    <2>1. PICK end \in {"SUCCESS", "FAILED"} :
            run' = [run EXCEPT ![r] = [run[r] EXCEPT !.pc = "leaving", !.end = end]]
      BY <1>3 DEF Work, TrackerInv, TrackerTypeOK
    <2>2. run[r].pc = "working" /\ UNCHANGED <<log, trackerFaults>>
      BY <1>3 DEF Work
    <2>3. log[r] \notin {"SUCCESS", "FAILED"}
      BY <2>2 DEF TrackerInv, ClosedAtTheEnd
    <2> DEFINE v == [run[r] EXCEPT !.pc = "leaving", !.end = end]
    <2>4. v \in [pc : {"new", "entering", "working", "leaving", "ended"},
                 job : TrackedJobs \cup {"none"}, end : {"none", "SUCCESS", "FAILED"}]
          /\ v.end # "none"
      BY DEF TrackerInv, TrackerTypeOK
    <2>5. trackerFaults' \in 0..MaxTrackerFaults
      BY <2>2 DEF TrackerInv, TrackerTypeOK
    <2>6. QED
      BY <2>1, <2>2, <2>3, <2>4, <2>5, OneTrackedRunMoves
  <1>4. ASSUME NEW r \in Runs, LeaveRun(r) PROVE TrackerInv'
    <2>1. /\ run[r].pc = "leaving"
          /\ run' = [run EXCEPT ![r].pc = "ended"]
          /\ \A s \in Runs \ {r} : log'[s] = log[s]
          /\ log'[r] \in {log[r], run[r].end}
          /\ trackerFaults' \in 0..MaxTrackerFaults
      BY <1>4, TrackerAssumption DEF LeaveRun, EntryClosed, TrackerInv, TrackerTypeOK
    <2>2. run[r].end \in {"SUCCESS", "FAILED"} /\ log[r] \notin {"SUCCESS", "FAILED"}
      BY <2>1 DEF TrackerInv, TrackerTypeOK, ClosedAtTheEnd, LeavingHasEnd
    <2>3. log' \in [Runs -> {"absent", "RUNNING", "SUCCESS", "FAILED"}]
      BY <1>4, <2>2 DEF LeaveRun, EntryClosed, TrackerInv, TrackerTypeOK
    <2>4. TrackerTypeOK'
      BY <2>1, <2>3 DEF TrackerInv, TrackerTypeOK
    <2>5. /\ run'[r].pc = "ended" /\ run'[r].end = run[r].end
          /\ \A s \in Runs \ {r} : run'[s] = run[s]
      BY <2>1 DEF TrackerInv, TrackerTypeOK
    <2>6. ClosedAtTheEnd'
      BY <2>1, <2>2, <2>5 DEF TrackerInv, ClosedAtTheEnd
    <2>7. LeavingHasEnd'
      BY <2>5 DEF TrackerInv, LeavingHasEnd
    <2>8. QED
      BY <2>4, <2>6, <2>7 DEF TrackerInv
  <1>5. ASSUME ProcessDies PROVE TrackerInv'
    <2>1. /\ \A r \in Runs : /\ run'[r].end = run[r].end
                             /\ run'[r].pc = IF run[r].pc = "new" THEN "new" ELSE "ended"
          /\ UNCHANGED <<log, trackerFaults>>
      BY <1>5 DEF ProcessDies, TrackerInv, TrackerTypeOK
    <2>2. TrackerTypeOK'
      BY <1>5 DEF ProcessDies, TrackerInv, TrackerTypeOK
    <2>3. ClosedAtTheEnd' /\ LeavingHasEnd'
      BY <2>1 DEF TrackerInv, ClosedAtTheEnd, LeavingHasEnd
    <2>4. QED
      BY <2>2, <2>3 DEF TrackerInv
  <1>6. CASE UNCHANGED trackerVars
    BY <1>6 DEF trackerVars, TrackerInv, TrackerTypeOK, ClosedAtTheEnd, LeavingHasEnd
  <1>7. QED
    BY <1>1, <1>2, <1>3, <1>4, <1>5, <1>6 DEF TrackerNext

\* A closed entry of scheduler_execution_log tells how its own run ended,
\* however many runs of its job overlap, whichever of ExecutionTracker's
\* statements fail and whenever the process dies.
THEOREM TrackerTellsOutcome == TrackerSpec => []LogTellsOutcome
  <1>1. TrackerInv => LogTellsOutcome
    BY DEF TrackerInv, ClosedAtTheEnd, LogTellsOutcome
  <1>2. QED
    BY <1>1, TrackerInvInit, TrackerInvNext, PTL DEF TrackerSpec

-----------------------------------------------------------------------------
(* The daily bars.  NoSilentGap speaks of the days up to the latest bar,     *)
(* which any save may move forward over days that nobody has looked at       *)
(* since.  The invariant says the same of the days that a run in progress    *)
(* has walked past.                                                         *)

\* A run walks from a day of the calendar to one that is not in the future.
Walks(w) ==
  dailyRun[w].pc # "idle" =>
    /\ dailyRun[w].next \in BarDays /\ dailyRun[w].last \in BarDays
    /\ dailyRun[w].next <= dailyRun[w].last /\ dailyRun[w].last <= today

\* Nothing is quoted of the future.
QuotedInTime == \A d \in BarDays : quoted[d] # {} => d <= today

\* What a batch lacks was quoted after it was fetched.
BatchKnown(w) ==
  dailyRun[w].pc = "save" =>
    \A s \in quoted[dailyRun[w].next] \ dailyRun[w].batch : <<s, dailyRun[w].next>> \in passedLate

FilledHasBars == filled /\ BarStocks # {} => StoredDays # {}

\* A bar is stored, or it is known why not, or a run has its day before it.
Accounted(s, d) ==
  \/ s \in bars[d] \/ d \in lostDays \/ <<s, d>> \in passedLate
  \/ \E w \in DailyRuns : d \in Pending(w)

\* A day behind the latest bar or behind a run.
Passed(d) ==
  d <= LatestDay \/ \E w \in DailyRuns : dailyRun[w].pc # "idle" /\ d < dailyRun[w].next

PassedIsAccounted ==
  filled => \A d \in 1..LastDay : Passed(d) => \A s \in quoted[d] : Accounted(s, d)

DailyInv ==
  /\ DailyTypeOK /\ QuotedInTime /\ FilledHasBars /\ PassedIsAccounted
  /\ \A w \in DailyRuns : Walks(w) /\ BatchKnown(w)

-----------------------------------------------------------------------------

LEMMA LeastDay == ASSUME NEW T \in SUBSET Nat, T # {} PROVE \E x \in T : \A y \in T : x <= y
<1>1. \E R : IsWellFoundedOn(R, Nat) /\ \A x, y \in Nat : y < x => <<y, x>> \in R
  <2> DEFINE R == OpToRel(<, Nat)
  <2>1. \A x, y \in Nat : y < x => <<y, x>> \in R
    BY DEF OpToRel
  <2>2. IsWellFoundedOn(R, Nat)
    BY NatLessThanWellFounded
  <2> HIDE DEF R
  <2> QED BY <2>1, <2>2
<1>2. PICK R : IsWellFoundedOn(R, Nat) /\ \A x, y \in Nat : y < x => <<y, x>> \in R
  BY <1>1
<1>3. PICK x \in T : \A y \in T : ~ (<<y, x>> \in R)
  BY <1>2, WFMin
<1>4. ASSUME NEW y \in T PROVE x <= y
  <2>1. x \in Nat /\ y \in Nat
    OBVIOUS
  <2>2. ~(y < x)
    BY <1>2, <1>3, <2>1
  <2> QED BY <2>1, <2>2
<1> QED BY <1>4

\* get_latest_trade_date over days.
LastDayOf(T) == IF T = {} THEN NoDate ELSE CHOOSE d \in T : \A e \in T : e <= d

LEMMA LastDayOfDays ==
  ASSUME NEW T \in SUBSET BarDays
  PROVE  /\ T = {} => LastDayOf(T) = -1
         /\ T # {} => LastDayOf(T) \in T /\ \A e \in T : e <= LastDayOf(T)
         /\ LastDayOf(T) \in Int /\ LastDayOf(T) >= -1 /\ LastDayOf(T) <= LastDay /\ LastDay \in Nat
  <1> DEFINE Back == {LastDay - d : d \in T}
  <1>1. LastDay \in Nat /\ \A d \in T : d \in Nat /\ d <= LastDay
    BY DailyAssumption DEF BarDays
  <1>2. CASE T = {}
    BY <1>1, <1>2 DEF LastDayOf, NoDate
  <1>3. CASE T # {}
    <2>1. Back \in SUBSET Nat /\ Back # {}
      BY <1>1, <1>3
    <2> HIDE DEF Back
    <2>2. PICK b \in Back : \A c \in Back : b <= c
      BY <2>1, LeastDay
    <2>3. PICK d \in T : b = LastDay - d
      BY <2>2 DEF Back
    <2>4. ASSUME NEW e \in T PROVE e <= d
      <3>1. LastDay - d <= LastDay - e
        BY <2>2, <2>3 DEF Back
      <3>2. e \in Nat /\ d \in Nat
        BY <1>1
      <3>3. QED
        BY <1>1, <3>1, <3>2
    <2>5. LastDayOf(T) \in T /\ \A e \in T : e <= LastDayOf(T)
      BY <1>3, <2>4 DEF LastDayOf
    <2>6. QED
      BY <1>1, <1>3, <2>5
  <1>4. QED
    BY <1>2, <1>3

LEMMA LatestIsLast ==
  /\ StoredDays \in SUBSET BarDays /\ LatestDay = LastDayOf(StoredDays)
  BY DEF StoredDays, LatestDay, LastDayOf

\* Where bars are only added, the latest day stays or is one of those with new bars.
LEMMA LatestGrows ==
  ASSUME \A d \in BarDays : bars[d] \subseteq bars'[d]
  PROVE  /\ StoredDays \subseteq StoredDays'
         /\ \/ LatestDay' = LatestDay
            \/ LatestDay' \in BarDays /\ bars'[LatestDay'] # bars[LatestDay']
         /\ LatestDay \in Int /\ LatestDay' \in Int
  <1>1. StoredDays \subseteq StoredDays'
    BY DEF StoredDays
  <1>2. /\ StoredDays' \in SUBSET BarDays /\ LatestDay' = LastDayOf(StoredDays')
        /\ StoredDays \in SUBSET BarDays /\ LatestDay = LastDayOf(StoredDays)
    BY DEF StoredDays, LatestDay, LastDayOf
  <1>3. LatestDay \in Int /\ LatestDay' \in Int
    BY <1>2, LastDayOfDays
  <1>4. CASE StoredDays' = {}
    BY <1>1, <1>2, <1>3, <1>4
  <1>5. CASE StoredDays' # {}
    <2>1. LatestDay' \in StoredDays' /\ \A e \in StoredDays' : e <= LatestDay'
      BY <1>2, <1>5, LastDayOfDays
    <2>2. CASE LatestDay' \in StoredDays
      <3>1. LatestDay' <= LatestDay /\ LatestDay <= LatestDay'
        BY <1>1, <1>2, <2>1, <2>2, LastDayOfDays
      <3>2. QED
        BY <1>1, <1>3, <3>1
    <2>3. CASE LatestDay' \notin StoredDays
      <3>1. LatestDay' \in BarDays /\ bars[LatestDay'] = {} /\ bars'[LatestDay'] # {}
        BY <2>1, <2>3 DEF StoredDays
      <3>2. QED
        BY <1>1, <1>3, <3>1
    <2>4. QED
      BY <2>2, <2>3
  <1>6. QED
    BY <1>4, <1>5

LEMMA SameLatest ==
  ASSUME bars' = bars
  PROVE  StoredDays' = StoredDays /\ LatestDay' = LatestDay
  BY DEF StoredDays, LatestDay

LEMMA LatestFacts ==
  /\ StoredDays = {} => LatestDay = -1
  /\ StoredDays # {} => LatestDay \in BarDays
  /\ LatestDay \in Int /\ LatestDay >= -1 /\ LatestDay <= LastDay /\ LastDay \in Nat
  BY LatestIsLast, LastDayOfDays

\* One day of a walk is behind a run: the next one, or the end.
WalkStep(w) ==
  /\ dailyRun[w].pc # "idle"
  /\ \A v \in DailyRuns : v # w => dailyRun'[v] = dailyRun[v]
  /\ \/ dailyRun[w].next = dailyRun[w].last /\ dailyRun'[w].pc = "idle"
     \/ /\ dailyRun[w].next # dailyRun[w].last
        /\ dailyRun'[w].pc = "fetch" /\ dailyRun'[w].next = dailyRun[w].next + 1
        /\ dailyRun'[w].last = dailyRun[w].last

\* The day that a step of a walk leaves behind is accounted for, and so are then
\* the days that a bar of it has put behind the latest one.
LEMMA WalkKeeps ==
  ASSUME DailyInv, NEW w \in DailyRuns, WalkStep(w),
         filled' = filled, quoted' = quoted, today' = today, passedLate' = passedLate,
         \A d \in BarDays : bars[d] \subseteq bars'[d],
         \A d \in BarDays : bars'[d] # bars[d] => d = dailyRun[w].next,
         \A d \in lostDays : d \in lostDays' \/ d = dailyRun[w].next,
         \A s \in quoted[dailyRun[w].next] :
           \/ s \in bars'[dailyRun[w].next] \/ dailyRun[w].next \in lostDays'
           \/ <<s, dailyRun[w].next>> \in passedLate
  PROVE  /\ QuotedInTime' /\ FilledHasBars' /\ PassedIsAccounted'
         /\ \A v \in DailyRuns : (Walks(v) /\ BatchKnown(v))'
  <1> DEFINE barDay == dailyRun[w].next
  <1>1. /\ Walks(w) /\ barDay \in BarDays /\ dailyRun[w].last \in BarDays
        /\ barDay <= dailyRun[w].last /\ dailyRun[w].last <= today
        /\ dailyRun[w].pc # "idle" /\ LastDay \in Nat /\ BarDays \subseteq Nat
        /\ dailyRun[w].next \in Nat /\ dailyRun[w].last \in Nat
    BY LatestFacts DEF DailyInv, Walks, WalkStep, BarDays
  <1>2. QuotedInTime' /\ FilledHasBars'
    BY LatestGrows DEF DailyInv, QuotedInTime, FilledHasBars
  <1>3. ASSUME NEW v \in DailyRuns PROVE Walks(v)' /\ BatchKnown(v)'
    <2>1. CASE v = w
      BY <1>1, <2>1 DEF WalkStep, Walks, BatchKnown, BarDays
    <2>2. CASE v # w
      BY <2>2 DEF DailyInv, WalkStep, Walks, BatchKnown
    <2>3. QED
      BY <2>1, <2>2
  <1>4. PassedIsAccounted'
    <2>1. SUFFICES ASSUME filled, NEW d \in 1..LastDay, Passed(d)', NEW s \in quoted[d]
                   PROVE  Accounted(s, d)'
      BY DEF PassedIsAccounted
    <2>2. d \in BarDays /\ d \in Nat
      BY <1>1 DEF BarDays
    <2>3. CASE d = barDay
      BY <2>3 DEF Accounted
    <2>4. CASE d # barDay
      <3>1. Passed(d)
        <4>1. CASE d <= LatestDay'
          <5>1. CASE LatestDay' = LatestDay
            BY <4>1, <5>1 DEF Passed
          <5>2. CASE LatestDay' = barDay
            <6>1. d < dailyRun[w].next
              BY <1>1, <2>2, <2>4, <4>1, <5>2
            <6>2. QED
              BY <1>1, <6>1 DEF Passed
          <5>3. QED
            BY <5>1, <5>2, LatestGrows
        <4>2. CASE \E v \in DailyRuns : dailyRun'[v].pc # "idle" /\ d < dailyRun'[v].next
          <5>1. PICK v \in DailyRuns : dailyRun'[v].pc # "idle" /\ d < dailyRun'[v].next
            BY <4>2
          <5>2. CASE v = w
            <6>1. d < dailyRun[w].next
              BY <1>1, <2>2, <2>4, <5>1, <5>2 DEF WalkStep
            <6>2. QED
              BY <1>1, <6>1 DEF Passed
          <5>3. CASE v # w
            BY <5>1, <5>3 DEF WalkStep, Passed
          <5>4. QED
            BY <5>2, <5>3
        <4>3. QED
          BY <2>1, <4>1, <4>2 DEF Passed
      <3>2. Accounted(s, d)
        BY <2>1, <3>1 DEF DailyInv, PassedIsAccounted
      <3>3. CASE \E v \in DailyRuns : d \in Pending(v)
        <4>1. PICK v \in DailyRuns : d \in Pending(v)
          BY <3>3
        <4>2. CASE v = w
          <5>1. d \in dailyRun[w].next..dailyRun[w].last
            BY <1>1, <4>1, <4>2 DEF Pending
          <5>2. dailyRun[w].next < d /\ d <= dailyRun[w].last
            BY <1>1, <2>2, <2>4, <5>1
          <5>3. /\ dailyRun'[w].pc = "fetch" /\ dailyRun'[w].next = dailyRun[w].next + 1
                /\ dailyRun'[w].last = dailyRun[w].last
            BY <1>1, <2>2, <5>2 DEF WalkStep
          <5>4. d \in Pending(w)'
            BY <1>1, <2>2, <5>2, <5>3 DEF Pending
          <5>5. QED
            BY <5>4 DEF Accounted
        <4>3. CASE v # w
          BY <4>1, <4>3 DEF WalkStep, Pending, Accounted
        <4>4. QED
          BY <4>2, <4>3
      <3>4. QED
        BY <2>2, <2>4, <3>2, <3>3 DEF Accounted
    <2>5. QED
      BY <2>3, <2>4
  <1>5. QED
    BY <1>2, <1>3, <1>4

-----------------------------------------------------------------------------

RunRecord == [pc : {"idle", "fetch", "save"}, next : BarDays \cup {NoDate, LastDay + 1},
              last : BarDays \cup {NoDate}, alone : BOOLEAN, batch : SUBSET BarStocks,
              aborted : BOOLEAN]

LEMMA IdleIsRun == IdleRun \in RunRecord /\ IdleRun.pc = "idle"
  BY DEF IdleRun, RunRecord

\* A run that has left its day behind, whether its transaction is aborted or not.
LEMMA WalkOn ==
  ASSUME DailyTypeOK, NEW w \in DailyRuns, Walks(w), dailyRun[w].pc # "idle",
         NEW aborted \in BOOLEAN,
         \/ dailyRun[w].next = dailyRun[w].last /\ EndDailySync(w)
         \/ /\ dailyRun[w].next # dailyRun[w].last
            /\ dailyRun' = [dailyRun EXCEPT ![w] =
                 [dailyRun[w] EXCEPT !.pc = "fetch", !.next = dailyRun[w].next + 1, !.batch = {},
                                     !.aborted = aborted]]
  PROVE  WalkStep(w) /\ dailyRun' \in [DailyRuns -> RunRecord]
  <1>1. dailyRun \in [DailyRuns -> RunRecord] /\ dailyRun[w] \in RunRecord
    BY DEF DailyTypeOK, RunRecord
  <1>2. CASE dailyRun[w].next = dailyRun[w].last /\ EndDailySync(w)
    <2>1. dailyRun' = [dailyRun EXCEPT ![w] = IdleRun]
      BY <1>2 DEF EndDailySync
    <2>2. QED
      BY <1>1, <1>2, <2>1, IdleIsRun DEF WalkStep
  <1>3. CASE /\ dailyRun[w].next # dailyRun[w].last
             /\ dailyRun' = [dailyRun EXCEPT ![w] =
                  [dailyRun[w] EXCEPT !.pc = "fetch", !.next = dailyRun[w].next + 1, !.batch = {},
                                     !.aborted = aborted]]
    <2> DEFINE walk == [dailyRun[w] EXCEPT !.pc = "fetch", !.next = dailyRun[w].next + 1, !.batch = {},
                                          !.aborted = aborted]
    <2>1. dailyRun[w].next + 1 \in BarDays
      BY <1>3, LatestFacts DEF Walks, BarDays
    <2>2. walk \in RunRecord /\ walk.pc = "fetch" /\ walk.next = dailyRun[w].next + 1
          /\ walk.last = dailyRun[w].last
      BY <1>1, <2>1 DEF RunRecord
    <2>3. dailyRun' = [dailyRun EXCEPT ![w] = walk]
      BY <1>3
    <2> HIDE DEF walk
    <2>4. dailyRun'[w] = walk /\ \A v \in DailyRuns : v # w => dailyRun'[v] = dailyRun[v]
      BY <1>1, <2>3
    <2>5. WalkStep(w)
      BY <1>3, <2>2, <2>4 DEF WalkStep
    <2>6. QED
      BY <1>1, <2>2, <2>3, <2>5
  <1>4. QED
    BY <1>2, <1>3

LEMMA AdvanceWalks ==
  ASSUME DailyTypeOK, NEW w \in DailyRuns, Walks(w), dailyRun[w].pc # "idle", Advance(w)
  PROVE  WalkStep(w) /\ dailyRun' \in [DailyRuns -> RunRecord]
  <1>1. dailyRun \in [DailyRuns -> RunRecord] /\ dailyRun[w] \in RunRecord
    BY DEF DailyTypeOK, RunRecord
  <1>2. dailyRun[w].aborted \in BOOLEAN
    BY <1>1 DEF RunRecord
  <1>3. CASE dailyRun[w].next = dailyRun[w].last
    <2>1. EndDailySync(w)
      BY <1>3 DEF Advance
    <2>2. QED
      BY <1>2, <1>3, <2>1, WalkOn
  <1>4. CASE dailyRun[w].next # dailyRun[w].last
    <2>1. dailyRun' = [dailyRun EXCEPT ![w].pc = "fetch", ![w].next = @ + 1, ![w].batch = {}]
      BY <1>4 DEF Advance
    <2>2. dailyRun' = [dailyRun EXCEPT ![w] =
            [dailyRun[w] EXCEPT !.pc = "fetch", !.next = dailyRun[w].next + 1, !.batch = {},
                                !.aborted = dailyRun[w].aborted]]
      BY <1>1, <2>1 DEF RunRecord
    <2>3. QED
      BY <1>2, <1>4, <2>2, WalkOn
  <1>5. QED
    BY <1>3, <1>4

\* What DailyInv says beside the types.
DailyRest ==
  /\ QuotedInTime /\ FilledHasBars /\ PassedIsAccounted
  /\ \A v \in DailyRuns : Walks(v) /\ BatchKnown(v)

LEMMA SavedBarsFacts ==
  ASSUME DailyInv, NEW w \in DailyRuns, dailyRun[w].pc = "save", bars' = SavedBars(w)
  PROVE  /\ bars' \in [BarDays -> SUBSET BarStocks]
         /\ \A d \in BarDays : bars[d] \subseteq bars'[d]
         /\ \A d \in BarDays : bars'[d] # bars[d] => d = dailyRun[w].next
         /\ bars'[dailyRun[w].next] = bars[dailyRun[w].next] \cup dailyRun[w].batch
  <1>1. dailyRun[w].next \in BarDays /\ dailyRun[w].batch \in SUBSET BarStocks
    BY DEF DailyInv, DailyTypeOK, Walks
  <1>2. bars \in [BarDays -> SUBSET BarStocks]
    BY DEF DailyInv, DailyTypeOK
  <1>3. QED
    BY <1>1, <1>2 DEF SavedBars

LEMMA StartDailySyncKeeps ==
  ASSUME DailyInv, NEW w \in DailyRuns, NEW upTo \in BarDays, StartDailySync(w, upTo)
  PROVE  DailyInv'
  <1> DEFINE missing == IF LatestDay = NoDate THEN {} ELSE MissingDates(LatestDay, upTo)
             first == IF missing = {} THEN upTo
                      ELSE CHOOSE d \in missing : \A e \in missing : d <= e
             walk == [IdleRun EXCEPT !.pc = "fetch", !.next = first, !.last = upTo,
                                    !.alone = (missing = {})]
  <1>1. /\ dailyRun[w].pc = "idle" /\ upTo <= today /\ dailyRun' = [dailyRun EXCEPT ![w] = walk]
        /\ filled' = filled /\ today' = today /\ quoted' = quoted /\ bars' = bars
        /\ passedLate' = passedLate /\ lostDays' = lostDays
    BY DEF StartDailySync
  <1>2. upTo \in Nat /\ upTo <= LastDay /\ LatestDay \in Int /\ LatestDay >= -1 /\ LastDay \in Nat
    BY LatestFacts DEF BarDays
  <1>3. missing = {} => LatestDay = NoDate \/ upTo <= LatestDay + 1
    <2>1. SUFFICES ASSUME missing = {}, LatestDay # NoDate, ~(upTo <= LatestDay + 1)
                   PROVE  FALSE
      OBVIOUS
    <2>2. missing = (LatestDay + 1)..(upTo - 1)
      BY <2>1 DEF MissingDates
    <2>3. LatestDay + 1 \in (LatestDay + 1)..(upTo - 1)
      BY <1>2, <2>1
    <2>4. QED
      BY <2>1, <2>2, <2>3
  <1>4. missing # {} => first = LatestDay + 1 /\ first < upTo
    <2>1. SUFFICES ASSUME missing # {} PROVE first = LatestDay + 1 /\ first < upTo
      OBVIOUS
    <2>2. missing = (LatestDay + 1)..(upTo - 1)
      BY <2>1 DEF MissingDates
    <2>3. LatestDay + 1 <= upTo - 1
      BY <1>2, <2>1, <2>2
    <2>4. /\ LatestDay + 1 \in missing /\ \A e \in missing : LatestDay + 1 <= e
      BY <1>2, <2>2, <2>3
    <2>5. \A d \in missing : (\A e \in missing : d <= e) => d = LatestDay + 1
      BY <1>2, <2>2, <2>4
    <2>6. first = LatestDay + 1
      BY <2>1, <2>4, <2>5
    <2>7. QED
      BY <1>2, <2>3, <2>6
  <1>5. first \in BarDays /\ first <= upTo /\ (LatestDay # NoDate => first <= LatestDay + 1)
    <2>1. CASE missing = {}
      BY <1>2, <1>3, <2>1
    <2>2. CASE missing # {}
      BY <1>2, <1>4, <2>2 DEF BarDays
    <2>3. QED
      BY <2>1, <2>2
  <1> HIDE DEF first
  <1>6. walk \in RunRecord /\ walk.pc = "fetch" /\ walk.next = first /\ walk.last = upTo
    <2>1. (missing = {}) \in BOOLEAN
      OBVIOUS
    <2>2. QED
      BY <1>5, <2>1 DEF IdleRun, RunRecord
  <1> HIDE DEF walk
  <1>7. dailyRun \in [DailyRuns -> RunRecord]
    BY DEF DailyInv, DailyTypeOK, RunRecord
  <1>8. dailyRun'[w] = walk /\ \A v \in DailyRuns : v # w => dailyRun'[v] = dailyRun[v]
    BY <1>1, <1>7
  <1>9. DailyTypeOK'
    <2>1. dailyRun' \in [DailyRuns -> RunRecord]
      BY <1>1, <1>6, <1>7
    <2>2. QED
      BY <1>1, <2>1 DEF DailyInv, DailyTypeOK, RunRecord
  <1>10. QuotedInTime' /\ FilledHasBars'
    BY <1>1, SameLatest DEF DailyInv, QuotedInTime, FilledHasBars
  <1>11. ASSUME NEW v \in DailyRuns PROVE Walks(v)' /\ BatchKnown(v)'
    <2>1. CASE v = w
      BY <1>1, <1>5, <1>6, <1>8, <2>1 DEF Walks, BatchKnown
    <2>2. CASE v # w
      BY <1>1, <1>8, <2>2 DEF DailyInv, Walks, BatchKnown
    <2>3. QED
      BY <2>1, <2>2
  <1>12. PassedIsAccounted'
    <2>1. SUFFICES ASSUME filled, NEW d \in 1..LastDay, Passed(d)', NEW s \in quoted[d]
                   PROVE  Accounted(s, d)'
      BY <1>1 DEF PassedIsAccounted
    <2>2. LatestDay' = LatestDay /\ LatestDay # NoDate /\ d \in Nat /\ first \in Nat
      <3>1. StoredDays # {}
        <4>1. quoted \in [BarDays -> SUBSET BarStocks] /\ d \in BarDays
          BY <1>2 DEF DailyInv, DailyTypeOK, BarDays
        <4>2. BarStocks # {}
          BY <2>1, <4>1
        <4>3. QED
          BY <2>1, <4>2 DEF DailyInv, FilledHasBars
      <3>2. LatestDay \in BarDays
        BY <3>1, LatestFacts
      <3>3. QED
        BY <1>1, <1>2, <1>5, <3>2, SameLatest DEF BarDays, NoDate
    <2>3. Passed(d)
      <3>1. CASE \E v \in DailyRuns : dailyRun'[v].pc # "idle" /\ d < dailyRun'[v].next
        <4>1. PICK v \in DailyRuns : dailyRun'[v].pc # "idle" /\ d < dailyRun'[v].next
          BY <3>1
        <4>2. CASE v = w
          <5>1. d < first
            BY <1>6, <1>8, <4>1, <4>2
          <5>2. d <= LatestDay
            BY <1>2, <1>5, <2>2, <5>1
          <5>3. QED
            BY <5>2 DEF Passed
        <4>3. CASE v # w
          BY <1>8, <4>1, <4>3 DEF Passed
        <4>4. QED
          BY <4>2, <4>3
      <3>2. QED
        BY <2>1, <2>2, <3>1 DEF Passed
    <2>4. Accounted(s, d)
      BY <2>1, <2>3 DEF DailyInv, PassedIsAccounted
    <2>5. \A v \in DailyRuns : d \in Pending(v) => v # w /\ d \in Pending(v)'
      BY <1>1, <1>8 DEF Pending
    <2>6. QED
      BY <1>1, <2>4, <2>5 DEF Accounted
  <1>13. QED
    BY <1>9, <1>10, <1>11, <1>12 DEF DailyInv

\* A step of a walk keeps the invariant: the run's new record comes from WalkOn.
LEMMA WalkKeepsAll ==
  ASSUME DailyInv, NEW w \in DailyRuns, WalkStep(w), dailyRun' \in [DailyRuns -> RunRecord],
         filled' = filled, quoted' = quoted, today' = today, passedLate' = passedLate,
         bars' \in [BarDays -> SUBSET BarStocks], lostDays' \subseteq BarDays,
         \A d \in BarDays : bars[d] \subseteq bars'[d],
         \A d \in BarDays : bars'[d] # bars[d] => d = dailyRun[w].next,
         \A d \in lostDays : d \in lostDays' \/ d = dailyRun[w].next,
         \A s \in quoted[dailyRun[w].next] :
           \/ s \in bars'[dailyRun[w].next] \/ dailyRun[w].next \in lostDays'
           \/ <<s, dailyRun[w].next>> \in passedLate
  PROVE  DailyInv'
  <1>1. DailyTypeOK'
    BY DEF DailyInv, DailyTypeOK, RunRecord
  <1>2. /\ QuotedInTime' /\ FilledHasBars' /\ PassedIsAccounted'
        /\ \A v \in DailyRuns : (Walks(v) /\ BatchKnown(v))'
    BY WalkKeeps
  <1>3. QED
    BY <1>1, <1>2 DEF DailyInv

LEMMA RunFacts ==
  ASSUME DailyInv, NEW w \in DailyRuns, dailyRun[w].pc # "idle"
  PROVE  /\ DailyTypeOK /\ Walks(w) /\ BatchKnown(w) /\ dailyRun[w].next \in BarDays
         /\ lostDays \subseteq BarDays /\ bars \in [BarDays -> SUBSET BarStocks]
  BY DEF DailyInv, DailyTypeOK, Walks

LEMMA FetchDayKeeps ==
  ASSUME DailyInv, NEW w \in DailyRuns, FetchDay(w)
  PROVE  DailyInv'
  <1> DEFINE barDay == dailyRun[w].next
  <1>1. /\ dailyRun[w].pc = "fetch" /\ dailyRun[w].pc # "idle"
        /\ filled' = filled /\ today' = today /\ quoted' = quoted
        /\ bars' = bars /\ passedLate' = passedLate
    BY DEF FetchDay
  <1>2. /\ DailyTypeOK /\ Walks(w) /\ barDay \in BarDays
        /\ lostDays \subseteq BarDays /\ bars \in [BarDays -> SUBSET BarStocks]
    BY <1>1, RunFacts
  <1>3. CASE quoted[barDay] = {}
    <2>1. Advance(w) /\ lostDays' = lostDays \ {barDay}
      BY <1>3 DEF FetchDay
    <2>2. WalkStep(w) /\ dailyRun' \in [DailyRuns -> RunRecord]
      BY <1>1, <1>2, <2>1, AdvanceWalks
    <2>3. QED
      BY <1>1, <1>2, <1>3, <2>1, <2>2, WalkKeepsAll
  <1>4. CASE quoted[barDay] # {}
    <2> DEFINE walk == [dailyRun[w] EXCEPT !.pc = "save", !.batch = quoted[barDay]]
    <2>1. dailyRun \in [DailyRuns -> RunRecord] /\ dailyRun[w] \in RunRecord
          /\ quoted[barDay] \in SUBSET BarStocks
      BY <1>2 DEF DailyTypeOK, RunRecord
    <2>2. dailyRun' = [dailyRun EXCEPT ![w] = walk] /\ lostDays' = lostDays
      BY <1>4, <2>1 DEF FetchDay, RunRecord
    <2>3. walk \in RunRecord /\ walk.pc = "save" /\ walk.batch = quoted[barDay]
          /\ walk.next = dailyRun[w].next /\ walk.last = dailyRun[w].last
      BY <2>1 DEF RunRecord
    <2> HIDE DEF walk
    <2>4. dailyRun'[w] = walk /\ \A v \in DailyRuns : v # w => dailyRun'[v] = dailyRun[v]
      BY <2>1, <2>2
    <2>5. DailyTypeOK'
      <3>1. dailyRun' \in [DailyRuns -> RunRecord]
        BY <2>1, <2>2, <2>3
      <3>2. QED
        BY <1>1, <1>2, <2>2, <3>1 DEF DailyTypeOK, RunRecord
    <2>6. QuotedInTime' /\ FilledHasBars'
      BY <1>1, SameLatest DEF DailyInv, QuotedInTime, FilledHasBars
    <2>7. ASSUME NEW v \in DailyRuns PROVE Walks(v)' /\ BatchKnown(v)'
      <3>1. CASE v = w
        BY <1>1, <1>2, <2>3, <2>4, <3>1 DEF Walks, BatchKnown
      <3>2. CASE v # w
        BY <1>1, <2>4, <3>2 DEF DailyInv, Walks, BatchKnown
      <3>3. QED
        BY <3>1, <3>2
    <2>8. \A v \in DailyRuns : /\ (dailyRun'[v].pc # "idle") <=> (dailyRun[v].pc # "idle")
                              /\ dailyRun'[v].next = dailyRun[v].next
                              /\ dailyRun'[v].last = dailyRun[v].last
      BY <1>1, <2>3, <2>4
    <2>9. PassedIsAccounted'
      <3>1. \A d \in 1..LastDay : Passed(d)' => Passed(d)
        BY <1>1, <2>8, SameLatest DEF Passed
      <3>2. \A d \in 1..LastDay : \A s : Accounted(s, d) => Accounted(s, d)'
        BY <1>1, <2>2, <2>8 DEF Accounted, Pending
      <3>3. QED
        BY <1>1, <3>1, <3>2 DEF DailyInv, PassedIsAccounted
    <2>10. QED
      BY <2>5, <2>6, <2>7, <2>9 DEF DailyInv
  <1>5. QED
    BY <1>3, <1>4

LEMMA FetchDayFailsKeeps ==
  ASSUME DailyInv, NEW w \in DailyRuns, FetchDayFails(w)
  PROVE  DailyInv'
  <1>1. /\ dailyRun[w].pc # "idle" /\ Advance(w) /\ lostDays' = lostDays \cup {dailyRun[w].next}
        /\ filled' = filled /\ today' = today /\ quoted' = quoted
        /\ bars' = bars /\ passedLate' = passedLate
    BY DEF FetchDayFails, DayFails
  <1>2. /\ DailyTypeOK /\ Walks(w) /\ dailyRun[w].next \in BarDays
        /\ lostDays \subseteq BarDays /\ bars \in [BarDays -> SUBSET BarStocks]
    BY <1>1, RunFacts
  <1>3. WalkStep(w) /\ dailyRun' \in [DailyRuns -> RunRecord]
    BY <1>1, <1>2, AdvanceWalks
  <1>4. QED
    BY <1>1, <1>2, <1>3, WalkKeepsAll

LEMMA SaveDayKeeps ==
  ASSUME DailyInv, NEW w \in DailyRuns, SaveDay(w)
  PROVE  DailyInv'
  <1> DEFINE barDay == dailyRun[w].next
  <1>1. /\ dailyRun[w].pc = "save" /\ dailyRun[w].pc # "idle" /\ Advance(w)
        /\ bars' = SavedBars(w) /\ lostDays' = lostDays \ {barDay}
        /\ filled' = filled /\ today' = today /\ quoted' = quoted /\ passedLate' = passedLate
    BY DEF SaveDay
  <1>2. /\ DailyTypeOK /\ Walks(w) /\ BatchKnown(w) /\ barDay \in BarDays
        /\ lostDays \subseteq BarDays
    BY <1>1, RunFacts
  <1>3. WalkStep(w) /\ dailyRun' \in [DailyRuns -> RunRecord]
    BY <1>1, <1>2, AdvanceWalks
  <1>4. /\ bars' \in [BarDays -> SUBSET BarStocks]
        /\ \A d \in BarDays : bars[d] \subseteq bars'[d]
        /\ \A d \in BarDays : bars'[d] # bars[d] => d = barDay
        /\ bars'[barDay] = bars[barDay] \cup dailyRun[w].batch
    BY <1>1, SavedBarsFacts
  <1>5. \A s \in quoted[barDay] : s \in bars'[barDay] \/ <<s, barDay>> \in passedLate
    BY <1>1, <1>2, <1>4 DEF BatchKnown
  <1>6. QED
    BY <1>1, <1>2, <1>3, <1>4, <1>5, WalkKeepsAll

LEMMA SaveDayFailsKeeps ==
  ASSUME DailyInv, NEW w \in DailyRuns, SaveDayFails(w)
  PROVE  DailyInv'
  <1> DEFINE barDay == dailyRun[w].next
  <1>1. /\ dailyRun[w].pc = "save" /\ dailyRun[w].pc # "idle"
        /\ lostDays' = lostDays \cup {barDay}
        /\ filled' = filled /\ today' = today /\ quoted' = quoted /\ passedLate' = passedLate
    BY DEF SaveDayFails, DayFails
  <1>2. /\ DailyTypeOK /\ Walks(w) /\ barDay \in BarDays
        /\ lostDays \subseteq BarDays /\ bars \in [BarDays -> SUBSET BarStocks]
    BY <1>1, RunFacts
  <1>3. bars' = bars \/ bars' = SavedBars(w)
    BY DEF SaveDayFails
  <1>4. /\ bars' \in [BarDays -> SUBSET BarStocks]
        /\ \A d \in BarDays : bars[d] \subseteq bars'[d]
        /\ \A d \in BarDays : bars'[d] # bars[d] => d = barDay
    <2>1. CASE bars' = bars
      BY <1>2, <2>1
    <2>2. CASE bars' = SavedBars(w)
      BY <1>1, <2>2, SavedBarsFacts
    <2>3. QED
      BY <1>3, <2>1, <2>2
  <1>5. WalkStep(w) /\ dailyRun' \in [DailyRuns -> RunRecord]
    <2>1. dailyRun \in [DailyRuns -> RunRecord]
      BY <1>2 DEF DailyTypeOK, RunRecord
    <2>2. CASE DayFails(w)
      BY <1>1, <1>2, <2>2, AdvanceWalks DEF DayFails
    <2>3. CASE ~DayFails(w)
      <3>1. IF dailyRun[w].next = dailyRun[w].last THEN EndDailySync(w)
            ELSE dailyRun' = [dailyRun EXCEPT ![w].pc = "fetch", ![w].next = @ + 1,
                                ![w].batch = {}, ![w].aborted = TRUE]
        BY <2>3 DEF SaveDayFails
      <3>2. CASE dailyRun[w].next = dailyRun[w].last
        BY <1>1, <1>2, <3>1, <3>2, WalkOn
      <3>3. CASE dailyRun[w].next # dailyRun[w].last
        <4>1. dailyRun' = [dailyRun EXCEPT ![w] =
                [dailyRun[w] EXCEPT !.pc = "fetch", !.next = dailyRun[w].next + 1, !.batch = {},
                                    !.aborted = TRUE]]
          BY <2>1, <3>1, <3>3 DEF RunRecord
        <4>2. QED
          BY <1>1, <1>2, <3>3, <4>1, WalkOn
      <3>4. QED
        BY <3>2, <3>3
    <2>4. QED
      BY <2>2, <2>3
  <1>6. QED
    BY <1>1, <1>2, <1>4, <1>5, WalkKeepsAll

LEMMA QuoteKeeps ==
  ASSUME DailyInv, NEW s \in BarStocks, NEW d \in BarDays, Quote(s, d)
  PROVE  DailyInv'
  <1>1. /\ d <= today /\ quoted' = [quoted EXCEPT ![d] = @ \cup {s}]
        /\ filled' = filled /\ today' = today /\ bars' = bars /\ dailyRun' = dailyRun
        /\ lostDays' = lostDays
        /\ passedLate' \in {passedLate, passedLate \cup {<<s, d>>}}
    BY DEF Quote
  <1>2. ASSUME \/ d <= LatestDay
               \/ \E w \in DailyRuns : /\ dailyRun[w].pc # "idle"
                                       /\ \/ d < dailyRun[w].next
                                          \/ d = dailyRun[w].next /\ dailyRun[w].pc = "save"
        PROVE  <<s, d>> \in passedLate'
    BY <1>2 DEF Quote
  <1>3. quoted \in [BarDays -> SUBSET BarStocks] /\ passedLate \subseteq BarStocks \X BarDays
    BY DEF DailyInv, DailyTypeOK
  <1>4. DailyTypeOK'
    <2>1. quoted' \in [BarDays -> SUBSET BarStocks]
      BY <1>1, <1>3
    <2>2. passedLate' \subseteq BarStocks \X BarDays
      BY <1>1, <1>3
    <2>3. QED
      BY <1>1, <2>1, <2>2 DEF DailyInv, DailyTypeOK
  <1>5. \A e \in BarDays : quoted'[e] = IF e = d THEN quoted[e] \cup {s} ELSE quoted[e]
    BY <1>1, <1>3
  <1>6. QuotedInTime' /\ FilledHasBars'
    BY <1>1, <1>5, SameLatest DEF DailyInv, QuotedInTime, FilledHasBars
  <1>7. passedLate \subseteq passedLate'
    BY <1>1
  <1>8. ASSUME NEW v \in DailyRuns PROVE Walks(v)' /\ BatchKnown(v)'
    <2>1. Walks(v)'
      BY <1>1 DEF DailyInv, Walks
    <2>2. BatchKnown(v)'
      <3>1. SUFFICES ASSUME dailyRun[v].pc = "save",
                            NEW t \in quoted'[dailyRun[v].next] \ dailyRun[v].batch
                     PROVE  <<t, dailyRun[v].next>> \in passedLate'
        BY <1>1 DEF BatchKnown
      <3>2. dailyRun[v].next \in BarDays
        BY <3>1 DEF DailyInv, Walks
      <3>3. CASE t \in quoted[dailyRun[v].next]
        BY <1>7, <3>1, <3>3 DEF DailyInv, BatchKnown
      <3>4. CASE t \notin quoted[dailyRun[v].next]
        <4>1. dailyRun[v].next = d /\ t = s
          BY <1>5, <3>1, <3>2, <3>4
        <4>2. QED
          BY <1>2, <3>1, <4>1
      <3>5. QED
        BY <3>3, <3>4
    <2>3. QED
      BY <2>1, <2>2
  <1>9. PassedIsAccounted'
    <2>1. SUFFICES ASSUME filled, NEW e \in 1..LastDay, Passed(e)', NEW t \in quoted'[e]
                   PROVE  Accounted(t, e)'
      BY <1>1 DEF PassedIsAccounted
    <2>2. Passed(e) /\ e \in BarDays
      BY <1>1, <2>1, SameLatest, LatestFacts DEF Passed, BarDays
    <2>3. CASE t \in quoted[e]
      <3>1. Accounted(t, e)
        BY <2>1, <2>2, <2>3 DEF DailyInv, PassedIsAccounted
      <3>2. QED
        BY <1>1, <1>7, <3>1 DEF Accounted, Pending
    <2>4. CASE t \notin quoted[e]
      <3>1. e = d /\ t = s
        BY <1>5, <2>1, <2>2, <2>4
      <3>2. <<s, d>> \in passedLate'
        BY <1>2, <2>2, <3>1 DEF Passed
      <3>3. QED
        BY <3>1, <3>2 DEF Accounted
    <2>5. QED
      BY <2>3, <2>4
  <1>10. QED
    BY <1>4, <1>6, <1>8, <1>9 DEF DailyInv

\* All bars of a stock are stored; the days between the old and the new latest
\* bar are counted as lost.
LEMMA HistorySyncKeeps ==
  ASSUME DailyInv, NEW s \in BarStocks, HistorySync(s)
  PROVE  DailyInv'
  <1>1. /\ bars' = [d \in BarDays |-> bars[d] \cup ({s} \cap quoted[d])]
        /\ lostDays' = lostDays \cup (LatestDay + 1)..today
        /\ filled' = filled /\ today' = today /\ quoted' = quoted /\ dailyRun' = dailyRun
        /\ passedLate' = passedLate
    BY DEF HistorySync
  <1>2. /\ bars \in [BarDays -> SUBSET BarStocks] /\ quoted \in [BarDays -> SUBSET BarStocks]
        /\ today \in BarDays /\ lostDays \subseteq BarDays
    BY DEF DailyInv, DailyTypeOK
  <1>3. \A d \in BarDays : bars[d] \subseteq bars'[d] /\ (bars'[d] # bars[d] => quoted[d] # {})
    BY <1>1, <1>2
  <1>4. /\ StoredDays \subseteq StoredDays'
        /\ \/ LatestDay' = LatestDay
           \/ LatestDay' \in BarDays /\ bars'[LatestDay'] # bars[LatestDay']
    BY <1>3, LatestGrows
  <1>5. LatestDay' = LatestDay \/ (LatestDay' \in BarDays /\ LatestDay' <= today)
    BY <1>3, <1>4 DEF DailyInv, QuotedInTime
  <1>6. today \in Nat /\ today <= LastDay /\ LatestDay \in Int /\ LatestDay >= -1 /\ LastDay \in Nat
    BY <1>2, LatestFacts DEF BarDays
  <1>7. DailyTypeOK'
    <2>1. bars' \in [BarDays -> SUBSET BarStocks]
      BY <1>1, <1>2
    <2>2. (LatestDay + 1)..today \subseteq BarDays
      BY <1>6 DEF BarDays
    <2>3. QED
      BY <1>1, <1>2, <2>1, <2>2 DEF DailyInv, DailyTypeOK
  <1>8. QuotedInTime' /\ FilledHasBars'
    BY <1>1, <1>4 DEF DailyInv, QuotedInTime, FilledHasBars
  <1>9. ASSUME NEW v \in DailyRuns PROVE Walks(v)' /\ BatchKnown(v)'
    BY <1>1 DEF DailyInv, Walks, BatchKnown
  <1>10. PassedIsAccounted'
    <2>1. SUFFICES ASSUME filled, NEW d \in 1..LastDay, Passed(d)', NEW t \in quoted[d]
                   PROVE  Accounted(t, d)'
      BY <1>1 DEF PassedIsAccounted
    <2>2. d \in Nat /\ d \in BarDays
      BY <1>6 DEF BarDays
    <2>3. CASE Passed(d)
      <3>1. Accounted(t, d)
        BY <2>1, <2>3 DEF DailyInv, PassedIsAccounted
      <3>2. QED
        BY <1>1, <1>3, <2>2, <3>1 DEF Accounted, Pending
    <2>4. CASE ~Passed(d)
      <3>1. d <= LatestDay' /\ ~(d <= LatestDay)
        BY <1>1, <2>1, <2>4 DEF Passed
      <3>2. LatestDay' \in BarDays /\ LatestDay' <= today
        BY <1>5, <3>1
      <3>3. d \in (LatestDay + 1)..today
        BY <1>6, <2>2, <3>1, <3>2 DEF BarDays
      <3>4. QED
        BY <1>1, <3>3 DEF Accounted
    <2>5. QED
      BY <2>3, <2>4
  <1>11. QED
    BY <1>7, <1>8, <1>9, <1>10 DEF DailyInv

LEMMA NextTradeDayKeeps ==
  ASSUME DailyInv, NextTradeDay
  PROVE  DailyInv'
  <1>1. /\ today < LastDay /\ today' = today + 1
        /\ filled' = filled /\ quoted' = quoted /\ bars' = bars /\ dailyRun' = dailyRun
        /\ passedLate' = passedLate /\ lostDays' = lostDays
    BY DEF NextTradeDay
  <1>2. /\ today \in BarDays /\ today \in Nat /\ today' \in BarDays /\ BarDays \subseteq Nat
    BY <1>1, LatestFacts DEF DailyInv, DailyTypeOK, BarDays
  <1>3. DailyTypeOK'
    BY <1>1, <1>2 DEF DailyInv, DailyTypeOK
  <1>4. QuotedInTime' /\ FilledHasBars'
    <2>1. ASSUME NEW d \in BarDays, quoted[d] # {} PROVE d <= today + 1
      <3>1. d <= today /\ d \in Nat
        BY <1>2, <2>1 DEF DailyInv, QuotedInTime
      <3>2. QED
        BY <1>2, <3>1
    <2>2. QED
      BY <1>1, <2>1, SameLatest DEF DailyInv, QuotedInTime, FilledHasBars
  <1>5. ASSUME NEW v \in DailyRuns PROVE Walks(v)' /\ BatchKnown(v)'
    <2>1. SUFFICES ASSUME dailyRun[v].pc # "idle" PROVE dailyRun[v].last <= today + 1
      BY <1>1 DEF DailyInv, Walks, BatchKnown
    <2>2. dailyRun[v].last \in Nat /\ dailyRun[v].last <= today
      BY <1>2, <2>1 DEF DailyInv, Walks
    <2>3. QED
      BY <1>2, <2>2
  <1>6. PassedIsAccounted'
    BY <1>1, SameLatest DEF DailyInv, PassedIsAccounted, Passed, Accounted, Pending
  <1>7. QED
    BY <1>3, <1>4, <1>5, <1>6 DEF DailyInv

LEMMA DailyCrashKeeps ==
  ASSUME DailyInv, DailyCrash
  PROVE  DailyInv'
  <1>1. /\ lostDays' = lostDays \cup {d \in UNION {Pending(w) : w \in DailyRuns} : d <= LatestDay}
        /\ dailyRun' = [w \in DailyRuns |-> IdleRun]
        /\ filled' = filled /\ today' = today /\ quoted' = quoted /\ bars' = bars
        /\ passedLate' = passedLate
    BY DEF DailyCrash
  <1>2. \A w \in DailyRuns : Pending(w) \subseteq BarDays
    BY LatestFacts DEF DailyInv, Walks, Pending, BarDays
  <1>3. DailyTypeOK'
    <2>1. dailyRun' \in [DailyRuns -> RunRecord]
      BY <1>1, IdleIsRun
    <2>2. lostDays' \subseteq BarDays
      BY <1>1, <1>2 DEF DailyInv, DailyTypeOK
    <2>3. QED
      BY <1>1, <2>1, <2>2 DEF DailyInv, DailyTypeOK, RunRecord
  <1>4. QuotedInTime' /\ FilledHasBars'
    BY <1>1, SameLatest DEF DailyInv, QuotedInTime, FilledHasBars
  <1>5. \A w \in DailyRuns : dailyRun'[w].pc = "idle"
    BY <1>1, IdleIsRun
  <1>6. ASSUME NEW v \in DailyRuns PROVE Walks(v)' /\ BatchKnown(v)'
    BY <1>5 DEF Walks, BatchKnown
  <1>7. PassedIsAccounted'
    <2>1. SUFFICES ASSUME filled, NEW d \in 1..LastDay, Passed(d)', NEW s \in quoted[d]
                   PROVE  Accounted(s, d)'
      BY <1>1 DEF PassedIsAccounted
    <2>2. d <= LatestDay
      BY <1>1, <1>5, <2>1, SameLatest DEF Passed
    <2>3. Accounted(s, d)
      BY <2>1, <2>2 DEF DailyInv, PassedIsAccounted, Passed
    <2>4. QED
      BY <1>1, <2>2, <2>3 DEF Accounted
  <1>8. QED
    BY <1>3, <1>4, <1>6, <1>7 DEF DailyInv

LEMMA DailyInvInit == ASSUME DailyInit PROVE DailyInv
  <1>1. BarDays \subseteq Nat /\ 0 \in BarDays /\ LastDay \in Nat
    BY LatestFacts DEF BarDays
  <1>2. DailyTypeOK
    <2>1. dailyRun \in [DailyRuns -> RunRecord]
      BY IdleIsRun DEF DailyInit
    <2>2. quoted \in [BarDays -> SUBSET BarStocks] /\ bars \in [BarDays -> SUBSET BarStocks]
      BY DEF DailyInit
    <2>3. QED
      BY <1>1, <2>1, <2>2 DEF DailyInit, DailyTypeOK, RunRecord
  <1>3. \A w \in DailyRuns : dailyRun[w].pc = "idle"
    BY IdleIsRun DEF DailyInit
  <1>4. QuotedInTime
    BY <1>1 DEF DailyInit, QuotedInTime
  <1>5. \A d \in BarDays : bars[d] = IF filled /\ d = 0 THEN BarStocks ELSE {}
    BY DEF DailyInit
  <1>6. FilledHasBars
    BY <1>1, <1>5 DEF FilledHasBars, StoredDays
  <1>7. ASSUME NEW d \in 1..LastDay PROVE ~Passed(d)
    <2>1. d \in Nat /\ d > 0
      BY <1>1
    <2>2. LatestDay \in Int /\ LatestDay <= 0
      <3>1. CASE StoredDays = {}
        BY <3>1, LatestFacts
      <3>2. CASE StoredDays # {}
        <4>1. LatestDay \in StoredDays
          BY <3>2, LatestIsLast, LastDayOfDays
        <4>2. LatestDay = 0
          BY <1>5, <4>1 DEF StoredDays
        <4>3. QED
          BY <4>2
      <3>3. QED
        BY <3>1, <3>2
    <2>3. QED
      BY <1>3, <2>1, <2>2 DEF Passed
  <1>8. PassedIsAccounted
    BY <1>7 DEF PassedIsAccounted
  <1>9. QED
    BY <1>2, <1>3, <1>4, <1>6, <1>8 DEF DailyInv, Walks, BatchKnown

LEMMA DailyInvStep == ASSUME DailyInv, [DailyNext]_dailyVars PROVE DailyInv'
  <1>1. CASE \E w \in DailyRuns : \E d \in BarDays : StartDailySync(w, d)
    BY <1>1, StartDailySyncKeeps
  <1>2. CASE \E w \in DailyRuns : FetchDay(w)
    BY <1>2, FetchDayKeeps
  <1>3. CASE \E w \in DailyRuns : FetchDayFails(w)
    BY <1>3, FetchDayFailsKeeps
  <1>4. CASE \E w \in DailyRuns : SaveDay(w)
    BY <1>4, SaveDayKeeps
  <1>5. CASE \E w \in DailyRuns : SaveDayFails(w)
    BY <1>5, SaveDayFailsKeeps
  <1>6. CASE \E s \in BarStocks, d \in BarDays : Quote(s, d)
    BY <1>6, QuoteKeeps
  <1>7. CASE \E s \in BarStocks : HistorySync(s)
    BY <1>7, HistorySyncKeeps
  <1>8. CASE NextTradeDay
    BY <1>8, NextTradeDayKeeps
  <1>9. CASE DailyCrash
    BY <1>9, DailyCrashKeeps
  <1>10. CASE UNCHANGED dailyVars
    <2>1. /\ today' = today /\ quoted' = quoted /\ bars' = bars /\ filled' = filled
          /\ dailyRun' = dailyRun /\ passedLate' = passedLate /\ lostDays' = lostDays
      BY <1>10 DEF dailyVars
    <2>2. DailyTypeOK' /\ QuotedInTime' /\ FilledHasBars'
      BY <2>1, SameLatest DEF DailyInv, DailyTypeOK, QuotedInTime, FilledHasBars
    <2>3. PassedIsAccounted'
      BY <2>1, SameLatest DEF DailyInv, PassedIsAccounted, Passed, Accounted, Pending
    <2>4. \A v \in DailyRuns : (Walks(v) /\ BatchKnown(v))'
      BY <2>1 DEF DailyInv, Walks, BatchKnown
    <2>5. QED
      BY <2>2, <2>3, <2>4 DEF DailyInv
  <1>11. QED
    BY <1>1, <1>2, <1>3, <1>4, <1>5, <1>6, <1>7, <1>8, <1>9, <1>10 DEF DailyNext

\* Compensation leaves no hole behind the latest bar on the quiet, whatever runs
\* overlap, however late the provider offers a bar and wherever a run fails.
THEOREM NoGapOnTheQuiet == DailySpec => []NoSilentGap
  <1>1. DailyInv => NoSilentGap
    <2>1. SUFFICES ASSUME DailyInv, filled, NEW s \in BarStocks, NEW d \in 1..LatestDay,
                          s \in quoted[d], s \notin bars[d]
                   PROVE  \/ d \in lostDays \/ <<s, d>> \in passedLate
                          \/ \E w \in DailyRuns : d \in Pending(w)
      BY DEF NoSilentGap
    <2>2. d \in 1..LastDay /\ d <= LatestDay
      BY LatestFacts
    <2>3. Accounted(s, d)
      BY <2>1, <2>2 DEF DailyInv, PassedIsAccounted, Passed
    <2>4. QED
      BY <2>1, <2>3 DEF Accounted
  <1>2. QED
    BY <1>1, DailyInvInit, DailyInvStep, PTL DEF DailySpec

-----------------------------------------------------------------------------
(* The failure records of the finance sync. *)

\* The retry phase works on records that are there and not resolved.
RetriesUnresolved == finPc = "retry" => \A r \in todo : r \in Records /\ Unresolved(r)

FinanceInv == FinanceTypeOK /\ RetriesUnresolved /\ FailureIsKept

-----------------------------------------------------------------------------

\* A failure record of stock s that still asks for a retry or for a person.
Open(r, s) == record[r] # NoRecord /\ record[r].code = s /\ ~record[r].resolved

LEMMA RecordFacts ==
  ASSUME FinanceTypeOK, finPc = "retry", RetriesUnresolved, NEW r \in todo
  PROVE  /\ r \in Records /\ record[r] \in FailureRecord
         /\ record[r].code \in FinStocks /\ ~record[r].resolved
         /\ record[r].retries + 1 \in 0..MaxRetries
         /\ Resolved(record[r]) \in FailureRecord /\ Resolved(record[r]).code = record[r].code
         /\ Incremented(record[r]) \in FailureRecord
         /\ Incremented(record[r]).code = record[r].code
         /\ ~Incremented(record[r]).resolved
  <1>1. r \in Records /\ record[r] # NoRecord /\ ~record[r].resolved
        /\ record[r].retries < MaxRetries
    BY DEF RetriesUnresolved, Unresolved
  <1>2. record[r] \in FailureRecord
    BY <1>1 DEF FinanceTypeOK
  <1>3. record[r].code \in FinStocks /\ record[r].retries \in 0..MaxRetries
    BY <1>2 DEF FailureRecord
  <1>4. record[r].retries + 1 \in 0..MaxRetries
    BY <1>1, <1>3, FinanceAssumption
  <1>5. Resolved(record[r]) \in FailureRecord /\ Resolved(record[r]).code = record[r].code
    BY <1>2 DEF FailureRecord, Resolved
  <1>6. /\ Incremented(record[r]) \in FailureRecord
        /\ Incremented(record[r]).code = record[r].code
        /\ ~Incremented(record[r]).resolved
    BY <1>1, <1>2, <1>4 DEF FailureRecord, Incremented
  <1>7. QED
    BY <1>1, <1>2, <1>3, <1>4, <1>5, <1>6

LEMMA NotARecord ==
  ASSUME NEW rec \in FailureRecord
  PROVE  rec # NoRecord
  <1>1. rec \in [code : FinStocks, retries : Nat, resolved : BOOLEAN]
    BY FinanceAssumption DEF FailureRecord
  <1>2. QED
    BY <1>1, FinanceAssumption

\* The handling of one failure record: the record of another stock stays as it
\* is, and this stock is owed nothing or keeps an open record.
LEMMA RecordHandled ==
  ASSUME FinanceInv, finPc = "retry", NEW r \in todo, NEW rec \in FailureRecord,
         rec.code = record[r].code, record' = [record EXCEPT ![r] = rec],
         todo' \subseteq todo \ {r}, lostRecord' = lostRecord,
         \/ owed' = owed \ {record[r].code}
         \/ owed' = owed \cup {record[r].code} /\ ~rec.resolved
  PROVE  RetriesUnresolved' /\ FailureIsKept'
         /\ record' \in [Records -> FailureRecord \cup {NoRecord}]
         /\ todo' \subseteq Records /\ owed' \subseteq FinStocks
  <1>1. /\ r \in Records /\ record[r] \in FailureRecord /\ record[r].code \in FinStocks
    BY RecordFacts DEF FinanceInv
  <1>2. /\ record'[r] = rec /\ \A q \in Records \ {r} : record'[q] = record[q]
        /\ record' \in [Records -> FailureRecord \cup {NoRecord}]
    BY <1>1 DEF FinanceInv, FinanceTypeOK
  <1>3. RetriesUnresolved'
    BY <1>2 DEF FinanceInv, RetriesUnresolved, Unresolved
  <1>4. FailureIsKept'
    <2> SUFFICES ASSUME NEW s \in owed' \ lostRecord'
                 PROVE  \E q \in Records : Open(q, s)'
      BY DEF FailureIsKept, Open
    <2>1. CASE s # record[r].code
      <3>1. PICK q \in Records : Open(q, s)
        BY <2>1 DEF FinanceInv, FailureIsKept, Open
      <3>2. q # r
        BY <2>1, <3>1 DEF Open
      <3>3. QED
        BY <1>2, <3>1, <3>2 DEF Open
    <2>2. CASE s = record[r].code
      <3>1. ~rec.resolved
        BY <2>2
      <3>2. Open(r, s)'
        BY <1>2, <2>2, <3>1, NotARecord DEF Open
      <3>3. QED
        BY <1>1, <3>2
    <2>3. QED
      BY <2>1, <2>2
  <1>5. QED
    BY <1>1, <1>2, <1>3, <1>4 DEF FinanceInv, FinanceTypeOK

\* Steps after the retry phase: open records stay open, and a stock is newly
\* owed only with one.
LEMMA LaterStep ==
  ASSUME FinanceInv, finPc' # "retry", lostRecord \subseteq lostRecord',
         \A q \in Records : record[q] # NoRecord => record'[q] = record[q],
         \A s \in (owed' \ owed) \ lostRecord' : \E q \in Records : Open(q, s)'
  PROVE  RetriesUnresolved' /\ FailureIsKept'
  <1>1. RetriesUnresolved'
    BY DEF RetriesUnresolved
  <1>2. ASSUME NEW s \in owed' \ lostRecord' PROVE \E q \in Records : Open(q, s)'
    <2>1. CASE s \in owed
      <3>1. PICK q \in Records : Open(q, s)
        BY <2>1 DEF FinanceInv, FailureIsKept, Open
      <3>2. QED
        BY <3>1 DEF Open
    <2>2. QED
      BY <2>1
  <1>3. QED
    BY <1>1, <1>2 DEF FailureIsKept, Open

LEMMA SavedType ==
  ASSUME FinanceTypeOK, NEW s \in FinStocks
  PROVE  Saved(s) \in [FinStocks -> SUBSET FinPeriods]
  BY DEF FinanceTypeOK, Saved, Fetched, Disclosed

LEMMA FinanceInvInit == FinanceInit => FinanceInv
  <1> SUFFICES ASSUME FinanceInit PROVE FinanceInv
    OBVIOUS
  <1>1. FinanceTypeOK
    BY FinanceAssumption DEF FinanceInit, FinanceTypeOK
  <1>2. RetriesUnresolved /\ FailureIsKept
    BY DEF FinanceInit, RetriesUnresolved, FailureIsKept
  <1>3. QED
    BY <1>1, <1>2 DEF FinanceInv

-----------------------------------------------------------------------------
(* One step per action. *)

LEMMA RetryActions ==
  ASSUME FinanceInv, NEW r \in Records, RetrySucceeds(r) \/ RetryFails(r) \/ RetryAborts(r)
  PROVE  FinanceInv'
  <1>1. /\ finPc = "retry" /\ r \in todo
        /\ UNCHANGED <<day, published, checked, runDay, lostRecord>>
    BY DEF RetrySucceeds, RetryFails, RetryAborts
  <1>2. /\ record[r].code \in FinStocks
        /\ Resolved(record[r]) \in FailureRecord /\ Resolved(record[r]).code = record[r].code
        /\ Incremented(record[r]) \in FailureRecord
        /\ Incremented(record[r]).code = record[r].code /\ ~Incremented(record[r]).resolved
    BY <1>1, RecordFacts DEF FinanceInv
  <1>3. CASE RetrySucceeds(r)
    <2>1. /\ record' = [record EXCEPT ![r] = Resolved(record[r])] /\ todo' = todo \ {r}
          /\ owed' = owed \ {record[r].code} /\ finPc' = finPc /\ finAborted' = finAborted
          /\ stored' = Saved(record[r].code)
      BY <1>3 DEF RetrySucceeds
    <2>2. /\ RetriesUnresolved' /\ FailureIsKept' /\ todo' \subseteq Records
          /\ record' \in [Records -> FailureRecord \cup {NoRecord}] /\ owed' \subseteq FinStocks
      BY <1>1, <1>2, <2>1, RecordHandled
    <2>3. QED
      BY <1>1, <1>2, <2>1, <2>2, SavedType DEF FinanceInv, FinanceTypeOK
  <1>4. CASE RetryFails(r)
    <2>1. /\ record' = [record EXCEPT ![r] = Incremented(record[r])] /\ todo' = todo \ {r}
          /\ owed' = owed \ {record[r].code} \/ owed' = owed \cup {record[r].code}
          /\ finPc' = finPc /\ finAborted' = finAborted /\ stored' = stored
      BY <1>4 DEF RetryFails
    <2>2. /\ RetriesUnresolved' /\ FailureIsKept' /\ todo' \subseteq Records
          /\ record' \in [Records -> FailureRecord \cup {NoRecord}] /\ owed' \subseteq FinStocks
      BY <1>1, <1>2, <2>1, RecordHandled
    <2>3. QED
      BY <1>1, <2>1, <2>2 DEF FinanceInv, FinanceTypeOK
  <1>5. CASE RetryAborts(r)
    <2>1. /\ stored' \in {stored, Saved(record[r].code)} /\ finAborted' = TRUE
          /\ finPc' = "disclose" /\ todo' = {}
      BY <1>5 DEF RetryAborts
    <2>2. CASE UNCHANGED <<record, owed>>
      <3>1. RetriesUnresolved' /\ FailureIsKept'
        BY <1>1, <2>1, <2>2, LaterStep
      <3>2. QED
        BY <1>1, <1>2, <2>1, <2>2, <3>1, SavedType DEF FinanceInv, FinanceTypeOK
    <2>3. CASE /\ owed' = owed \ {record[r].code}
               /\ \/ record' = [record EXCEPT ![r] = Resolved(record[r])]
                  \/ record' = [record EXCEPT ![r] = Incremented(record[r])]
      <3>1. /\ RetriesUnresolved' /\ FailureIsKept'
            /\ record' \in [Records -> FailureRecord \cup {NoRecord}] /\ owed' \subseteq FinStocks
        BY <1>1, <1>2, <2>1, <2>3, RecordHandled
      <3>2. QED
        BY <1>1, <1>2, <2>1, <3>1, SavedType DEF FinanceInv, FinanceTypeOK
    <2>4. QED
      BY <1>5, <2>2, <2>3 DEF RetryAborts
  <1>6. QED
    BY <1>3, <1>4, <1>5

\* A failed stock gets a record of its own, in a row that was free.
LEMMA SyncCodeFailsKeeps ==
  ASSUME FinanceInv, NEW s \in FinStocks, SyncCodeFails(s)
  PROVE  FinanceInv'
  <1>1. /\ finPc = "sync" /\ owed' = owed \cup {s} /\ todo' = todo \ {s}
        /\ UNCHANGED <<day, published, stored, checked, finPc, runDay>>
    BY DEF SyncCodeFails
  <1>2. CASE /\ \E r \in Records : record[r] = NoRecord
                                   /\ record' = [record EXCEPT ![r] = NewRecord(s)]
             /\ UNCHANGED <<lostRecord, finAborted>>
    <2>1. PICK r \in Records : record[r] = NoRecord
                               /\ record' = [record EXCEPT ![r] = NewRecord(s)]
      BY <1>2
    <2>2. NewRecord(s) \in FailureRecord /\ NewRecord(s).code = s /\ ~NewRecord(s).resolved
      BY FinanceAssumption DEF NewRecord, FailureRecord
    <2>3. record'[r] = NewRecord(s) /\ \A q \in Records \ {r} : record'[q] = record[q]
      BY <2>1 DEF FinanceInv, FinanceTypeOK
    <2>4. Open(r, s)'
      BY <2>2, <2>3, NotARecord DEF Open
    <2>5. RetriesUnresolved' /\ FailureIsKept'
      BY <1>1, <1>2, <2>1, <2>3, <2>4, LaterStep
    <2>6. QED
      BY <1>1, <1>2, <2>1, <2>2, <2>5 DEF FinanceInv, FinanceTypeOK
  <1>3. CASE /\ lostRecord' = lostRecord \cup {s} /\ UNCHANGED record
             /\ finAborted' \in BOOLEAN
    <2>1. RetriesUnresolved' /\ FailureIsKept'
      BY <1>1, <1>3, LaterStep
    <2>2. QED
      BY <1>1, <1>3, <2>1 DEF FinanceInv, FinanceTypeOK
  <1>4. finAborted \in BOOLEAN
    BY DEF FinanceInv, FinanceTypeOK
  <1>5. QED
    BY <1>2, <1>3, <1>4 DEF SyncCodeFails
LEMMA SyncActions ==
  ASSUME FinanceInv, NEW s \in FinStocks, SyncCode(s) \/ SyncCodeAborts(s)
  PROVE  FinanceInv'
  <1>1. /\ finPc = "sync" /\ finPc' = "sync" /\ todo' = todo \ {s} /\ record' = record
        /\ UNCHANGED <<day, published, runDay>>
    BY DEF SyncCode, SyncCodeAborts
  <1>2. /\ stored' \in {stored, Saved(s)} /\ finAborted' \in BOOLEAN
        /\ checked' \in {checked, [checked EXCEPT ![s] = runDay]}
        /\ \/ owed' = owed \ {s} /\ lostRecord' = lostRecord
           \/ owed' = owed \cup {s} /\ lostRecord' = lostRecord \cup {s}
    BY DEF SyncCode, SyncCodeAborts, CheckedNow, FinanceInv, FinanceTypeOK
  <1>3. RetriesUnresolved' /\ FailureIsKept'
    BY <1>1, <1>2, LaterStep
  <1>4. stored' \in [FinStocks -> SUBSET FinPeriods]
    BY <1>2, SavedType DEF FinanceInv, FinanceTypeOK
  <1>5. checked' \in [FinStocks -> FinDays \cup {Never}]
    BY <1>2 DEF FinanceInv, FinanceTypeOK
  <1>6. QED
    BY <1>1, <1>2, <1>3, <1>4, <1>5 DEF FinanceInv, FinanceTypeOK

\* The steps that only move a run on.
LEMMA RunMoves ==
  ASSUME FinanceInv,
         \/ StartFinanceSync \/ RetryPhaseEnds \/ Disclose \/ LongTail \/ FinanceSyncEnds
  PROVE  FinanceInv'
  <1>1. UNCHANGED <<day, published, stored, checked, record, owed, lostRecord>>
    BY DEF StartFinanceSync, RetryPhaseEnds, Disclose, LongTail, FinanceSyncEnds
  <1>2. CASE StartFinanceSync
    <2>1. /\ finPc' = "retry" /\ runDay' = day /\ finAborted' = FALSE
          /\ todo' = {r \in Records : Unresolved(r)}
      BY <1>2 DEF StartFinanceSync
    <2>2. RetriesUnresolved' /\ FailureIsKept'
      BY <1>1, <2>1 DEF FinanceInv, RetriesUnresolved, Unresolved, FailureIsKept
    <2>3. QED
      BY <1>1, <2>1, <2>2 DEF FinanceInv, FinanceTypeOK
  <1>3. CASE RetryPhaseEnds \/ FinanceSyncEnds
    <2>1. /\ finPc' \in {"disclose", "idle"} /\ todo = {} /\ UNCHANGED <<runDay, todo, finAborted>>
      BY <1>3 DEF RetryPhaseEnds, FinanceSyncEnds
    <2>2. RetriesUnresolved' /\ FailureIsKept'
      BY <1>1, <2>1, LaterStep
    <2>3. QED
      BY <1>1, <2>1, <2>2 DEF FinanceInv, FinanceTypeOK
  <1>4. CASE Disclose
    <2>1. /\ finPc' = "longtail" /\ todo' \subseteq FinStocks /\ UNCHANGED <<runDay, finAborted>>
      BY <1>4 DEF Disclose, DisclosedToday
    <2>2. RetriesUnresolved' /\ FailureIsKept'
      BY <1>1, <2>1, LaterStep
    <2>3. QED
      BY <1>1, <2>1, <2>2 DEF FinanceInv, FinanceTypeOK
  <1>5. CASE LongTail
    <2>1. todo \subseteq FinStocks
      BY <1>5 DEF LongTail, FinanceInv, FinanceTypeOK
    <2>2. /\ finPc' = "sync" /\ finAborted' \in BOOLEAN /\ runDay' = runDay
          /\ todo' \subseteq FinStocks
      BY <1>5, <2>1 DEF LongTail, FinanceInv, FinanceTypeOK
    <2>3. RetriesUnresolved' /\ FailureIsKept'
      BY <1>1, <2>2, LaterStep
    <2>4. QED
      BY <1>1, <2>2, <2>3 DEF FinanceInv, FinanceTypeOK
  <1>6. QED
    BY <1>2, <1>3, <1>4, <1>5

\* What happens around a run: dates, disclosures, the stock list, a crash.
LEMMA SurroundingsMove ==
  ASSUME FinanceInv,
         \/ SyncStockList \/ NextDay \/ FinanceCrash
         \/ \E s \in FinStocks, p \in FinPeriods : Publish(s, p)
  PROVE  FinanceInv'
  <1>1. UNCHANGED <<record, owed, lostRecord, runDay, finAborted>>
    BY DEF SyncStockList, NextDay, FinanceCrash, Publish
  <1>2. RetriesUnresolved' /\ FailureIsKept'
    <2>1. (finPc' = finPc /\ todo' = todo) \/ finPc' = "idle"
      BY DEF SyncStockList, NextDay, FinanceCrash, Publish
    <2>2. QED
      BY <1>1, <2>1 DEF FinanceInv, RetriesUnresolved, Unresolved, FailureIsKept
  <1>3. FinanceTypeOK'
    <2>1. CASE SyncStockList
      <3>1. checked' \in [FinStocks -> FinDays \cup {Never}]
        BY <2>1 DEF SyncStockList, Overwritten
      <3>2. QED
        BY <2>1, <3>1 DEF SyncStockList, FinanceInv, FinanceTypeOK
    <2>2. CASE NextDay
      BY <2>2 DEF NextDay, FinanceInv, FinanceTypeOK
    <2>3. CASE FinanceCrash
      <3>1. stored' \in [FinStocks -> SUBSET FinPeriods]
        <4>1. CASE UNCHANGED stored
          BY <4>1 DEF FinanceInv, FinanceTypeOK
        <4>2. CASE finPc = "sync" /\ \E s \in todo : stored' = Saved(s)
          <5>1. PICK s \in FinStocks : stored' = Saved(s)
            BY <4>2 DEF FinanceInv, FinanceTypeOK
          <5>2. QED
            BY <5>1, SavedType DEF FinanceInv
        <4>3. QED
          BY <2>3, <4>1, <4>2 DEF FinanceCrash
      <3>2. QED
        BY <2>3, <3>1 DEF FinanceCrash, FinanceInv, FinanceTypeOK
    <2>4. ASSUME NEW s \in FinStocks, NEW p \in FinPeriods, Publish(s, p)
          PROVE  FinanceTypeOK'
      <3>1. published' \in [FinStocks -> [FinPeriods -> FinDays \cup {Never}]]
        <4>1. published' = [published EXCEPT ![s][p] = day] /\ day \in FinDays
          BY <2>4 DEF Publish, FinanceInv, FinanceTypeOK
        <4>2. QED
          BY <4>1 DEF FinanceInv, FinanceTypeOK
      <3>2. QED
        BY <2>4, <3>1 DEF Publish, FinanceInv, FinanceTypeOK
    <2>5. QED
      BY <2>1, <2>2, <2>3, <2>4
  <1>4. QED
    BY <1>2, <1>3 DEF FinanceInv

LEMMA FinanceInvNext == FinanceInv /\ [FinanceNext]_financeVars => FinanceInv'
  <1> SUFFICES ASSUME FinanceInv, [FinanceNext]_financeVars PROVE FinanceInv'
    OBVIOUS
  <1>1. CASE FinanceNext
    BY <1>1, RetryActions, SyncActions, SyncCodeFailsKeeps, RunMoves, SurroundingsMove DEF FinanceNext
  <1>2. CASE UNCHANGED financeVars
    BY <1>2 DEF financeVars, finBudget, FinanceInv, FinanceTypeOK, RetriesUnresolved, Unresolved,
                FailureIsKept
  <1>3. QED
    BY <1>1, <1>2

\* The state of the finance sync has the shape the code gives it.
THEOREM FinanceTypes == FinanceSpec => []FinanceTypeOK
  <1>1. FinanceInv => FinanceTypeOK
    BY DEF FinanceInv
  <1>2. QED
    BY <1>1, FinanceInvInit, FinanceInvNext, PTL DEF FinanceSpec

\* A stock whose last sync failed keeps a failure record that is not resolved,
\* through every phase of every run, its retries and its crashes.
THEOREM FailuresAreKept == FinanceSpec => []FailureIsKept
  <1>1. FinanceInv => FailureIsKept
    BY DEF FinanceInv
  <1>2. QED
    BY <1>1, FinanceInvInit, FinanceInvNext, PTL DEF FinanceSpec

==============================================================================
