-------------------------- MODULE CheckpointedJob --------------------------
(***************************************************************************)
(* What the history sync promises whoever triggers it: a job type is worked  *)
(* off task by task, never two unfinished at a time; a task processes items  *)
(* of a table, checkpoints how far it got, may be paused and resumed any     *)
(* number of times, and once finished is not worked on again.               *)
(*                                                                         *)
(* No calls, no memory beside the rows, no time: an overlapping or repeated  *)
(* trigger, a crash, a takeover or a lost reply must not show here.          *)
(***************************************************************************)
EXTENDS Integers, Sequences

CONSTANTS
  Tasks,     \* the tasks of the job type
  Table,     \* the items, in the order in which they are processed
  Thorough   \* does COMPLETED promise that every item was processed?

VARIABLES
  status,    \* of each task, "none" before it exists
  offset,    \* how much of the table it has checkpointed
  done       \* the items processed under it

jobVars == <<status, offset, done>>

Items == {Table[k] : k \in 1..Len(Table)}
FirstItems(n) == {Table[k] : k \in {j \in 1..Len(Table) : j <= n}}

Unfinished(t) == status[t] \in {"RUNNING", "PAUSED"}

JobInit ==
  /\ status = [t \in Tasks |-> "none"]
  /\ offset = [t \in Tasks |-> 0]
  /\ done = [t \in Tasks |-> {}]

\* A new task, once no other has work left.
Open(t) ==
  /\ status[t] = "none" /\ \A u \in Tasks : ~Unfinished(u)
  /\ status' = [status EXCEPT ![t] = "RUNNING"]
  /\ UNCHANGED <<offset, done>>

Pause(t) ==
  /\ status[t] = "RUNNING"
  /\ status' = [status EXCEPT ![t] = "PAUSED"]
  /\ UNCHANGED <<offset, done>>

\* It goes on from its checkpoint.
Resume(t) ==
  /\ status[t] = "PAUSED"
  /\ status' = [status EXCEPT ![t] = "RUNNING"]
  /\ UNCHANGED <<offset, done>>

Work(t) ==
  /\ status[t] = "RUNNING"
  /\ \E i \in Items : done' = [done EXCEPT ![t] = @ \cup {i}]
  /\ UNCHANGED <<status, offset>>

\* Only over items that were processed, and only forward.
Checkpoint(t) ==
  /\ status[t] = "RUNNING"
  /\ offset'[t] \in {n \in Nat : n > offset[t]}
  /\ offset' = [offset EXCEPT ![t] = offset'[t]]
  /\ FirstItems(offset'[t]) \subseteq done[t]
  /\ UNCHANGED <<status, done>>

Complete(t) ==
  /\ status[t] = "RUNNING"
  /\ Thorough => done[t] = Items
  /\ status' = [status EXCEPT ![t] = "COMPLETED"]
  /\ UNCHANGED <<offset, done>>

\* A checkpoint that could not be written on its own may come with the failure.
Fail(t) ==
  /\ status[t] = "RUNNING"
  /\ status' = [status EXCEPT ![t] = "FAILED"]
  /\ offset'[t] \in {n \in Nat : n >= offset[t]}
  /\ offset' = [offset EXCEPT ![t] = offset'[t]]
  /\ FirstItems(offset'[t]) \subseteq done[t]
  /\ UNCHANGED done

\* Whoever completed it did not hear that it had, and says failed.
Disown(t) ==
  /\ status[t] = "COMPLETED"
  /\ status' = [status EXCEPT ![t] = "FAILED"]
  /\ UNCHANGED <<offset, done>>

JobNext ==
  \E t \in Tasks :
    \/ Open(t) \/ Pause(t) \/ Resume(t) \/ Work(t) \/ Checkpoint(t)
    \/ Complete(t) \/ Fail(t) \/ Disown(t)

JobSpec == JobInit /\ [][JobNext]_jobVars

-----------------------------------------------------------------------------
\* What a reader of the rows may rely on: one unfinished task at most, a
\* checkpoint that is backed by work, and COMPLETED that means all of it.
JobSound ==
  /\ \A t, u \in Tasks : Unfinished(t) /\ Unfinished(u) => t = u
  /\ \A t \in Tasks :
       /\ FirstItems(offset[t]) \subseteq done[t]
       /\ Thorough /\ status[t] = "COMPLETED" => done[t] = Items
=============================================================================
