------------------------ MODULE ResearchOrchestration ------------------------
(***************************************************************************)
(* The coordinator: ResearchOrchestrationService.execute and retry, the     *)
(* LangGraph run they start (experts in parallel, aggregator, debate,       *)
(* judge) and the two tables it writes, research_sessions and               *)
(* node_executions.                                                        *)
(*                                                                         *)
(* Every request creates one ResearchSession, so the state of a request is  *)
(* indexed by its session.  All nodes of a run record themselves through    *)
(* the one AsyncSession of their request: a save that is overtaken by       *)
(* another, cancelled or failed leaves its record in that AsyncSession      *)
(* (`pending`) for the next commit, or makes the AsyncSession unusable.     *)
(***************************************************************************)
EXTENDS Integers, FiniteSets

CONSTANTS
  Experts,       \* the ExpertType members in use
  MaxSessions,   \* bound on requests
  MaxActive,     \* bound on requests in progress at once
  FaultKinds,    \* which of the faults below may happen
  MaxFaults,     \* bound on faults
  MaxCrashes     \* bound on process crashes

ASSUME BoundAssumption == {MaxSessions, MaxActive, MaxFaults, MaxCrashes} \subseteq Nat
ASSUME ExpertsAssumption == Experts \cap {"debate", "judge"} = {}

SessionIds == 1..MaxSessions
NoParent == 0
Nodes == Experts \cup {"debate", "judge"}

VARIABLES
  status,     \* research_sessions.status, "absent" without a row
  request,    \* the ResearchRequest, whose fields are the row's other columns
  records,    \* node_executions.status of each node, "none" without a row
  pc,         \* where each request stands
  node,       \* where each node of its graph stands
  ran,        \* how the node function ended
  answer,     \* which of debate_outcome and verdict are non-empty
  pending,    \* NodeExecutions added to the AsyncSession, not yet committed
  conn,       \* "broken" once a commit of the AsyncSession was cut short
  faults, crashes

tables == <<status, records>>
budget == <<faults, crashes>>
vars == <<status, request, records, pc, node, ran, answer, pending, conn, faults, crashes>>

Requests == [experts : SUBSET Experts, reused : SUBSET Experts, skip_debate : BOOLEAN,
             parent : SessionIds \cup {NoParent}, retry_count : Nat]
Blank == [experts |-> {}, reused |-> {}, skip_debate |-> TRUE,
          parent |-> NoParent, retry_count |-> 0]

Active == {s \in SessionIds : pc[s] \in {"create", "graph", "update", "fail"}}

Init ==
  /\ status = [s \in SessionIds |-> "absent"]
  /\ request = [s \in SessionIds |-> Blank]
  /\ records = [s \in SessionIds |-> [n \in Nodes |-> "none"]]
  /\ pc = [s \in SessionIds |-> "unused"]
  /\ node = [s \in SessionIds |-> [n \in Nodes |-> "idle"]]
  /\ ran = [s \in SessionIds |-> [n \in Nodes |-> "none"]]
  /\ answer = [s \in SessionIds |-> {}]
  /\ pending = [s \in SessionIds |-> {}]
  /\ conn = [s \in SessionIds |-> "ok"]
  /\ faults = 0
  /\ crashes = 0

-----------------------------------------------------------------------------
(* Faults: "expert", "debate" and "judge", the node's gateway raises; "db", a *)
(* statement or commit raises; "cut", a commit that is cancelled, or that     *)
(* another one runs into, leaves the AsyncSession unusable.                   *)

Fault(kind) == kind \in FaultKinds /\ faults < MaxFaults /\ faults' = faults + 1
NoFault == UNCHANGED faults

Goto(s, there) == pc' = [pc EXCEPT ![s] = there]

\* A commit that reaches the database inserts the records in P.
Insert(s, P) ==
  records' = [records EXCEPT ![s] = [n \in Nodes |-> IF n \in P THEN ran[s][n] ELSE @[n]]]

\* A commit that ends well: what it flushed is stored, the rest stays added.
CommitRuns(s, P) ==
  /\ conn[s] = "ok" /\ NoFault
  /\ Insert(s, P)
  /\ pending' = [pending EXCEPT ![s] = @ \ P]
  /\ UNCHANGED conn

\* A commit that breaks the AsyncSession: it may have reached the database or
\* not, and nothing else that was added will.
CommitBreaks(s, P) ==
  /\ Insert(s, {}) \/ Insert(s, P)
  /\ pending' = [pending EXCEPT ![s] = {}]
  /\ conn' = [conn EXCEPT ![s] = "broken"]

-----------------------------------------------------------------------------
(* The application service: execute and retry. *)

\* run(): a new ResearchSession with its own AsyncSession.
StartRun(s, r) ==
  /\ pc[s] = "unused" /\ \A t \in SessionIds : t < s => pc[t] # "unused"
  /\ Cardinality(Active) < MaxActive
  /\ request' = [request EXCEPT ![s] = r]
  /\ Goto(s, "create")
  /\ UNCHANGED <<tables, node, ran, answer, pending, conn, budget>>

Execute(s) ==
  \E E \in (SUBSET Experts) \ {{}}, skip \in BOOLEAN :
    StartRun(s, [Blank EXCEPT !.experts = E, !.skip_debate = skip])

\* Faulty variants: every record taken for a success; every expert asked again.
AllRecorded(p) == {n \in Experts : records[p][n] # "none"}
SelectedExperts(p) == request[p].experts

\* The NodeExecutions of the source session, separated by their status.  The
\* result_data of a success is never None: the experts return dicts with fixed keys.
SuccessResults(p) == {n \in Experts : records[p][n] = "success"}
FailedExperts(p) == {n \in Experts : records[p][n] = "failed"}

\* A completed or running source is refused, and one without a failed expert.
\* A failed row and its records were written by one commit and never change
\* again, so the two reads of retry() are one step here.
Retryable(p) == status[p] = "failed" /\ FailedExperts(p) # {}

Retry(s, p) ==
  /\ Retryable(p)
  /\ \E skip \in BOOLEAN :
       StartRun(s, [experts |-> FailedExperts(p), reused |-> SuccessResults(p),
                    skip_debate |-> skip, parent |-> p,
                    retry_count |-> request[p].retry_count + 1])

-----------------------------------------------------------------------------
(* The orchestrator and its graph. *)

\* save_session, before the try: an exception goes straight to the caller.
SaveSession(s) ==
  /\ pc[s] = "create"
  /\ \/ /\ status' = [status EXCEPT ![s] = "running"]
        /\ node' = [node EXCEPT ![s] =
             [n \in Nodes |-> IF n \in request[s].experts THEN "running" ELSE @[n]]]
        /\ Goto(s, "graph")
        /\ NoFault /\ UNCHANGED conn
     \/ /\ Fault("db")
        /\ UNCHANGED status \/ status' = [status EXCEPT ![s] = "running"]
        /\ conn' = [conn EXCEPT ![s] = "broken"]
        /\ Goto(s, "raised")
        /\ UNCHANGED node
  /\ UNCHANGED <<request, records, ran, answer, pending, crashes>>

\* A node function returns or raises, and its wrapper adds the NodeExecution and
\* begins to commit it.
Finish(s, n, how) ==
  /\ node[s][n] = "running"
  /\ ran' = [ran EXCEPT ![s][n] = how]
  /\ node' = [node EXCEPT ![s][n] = "saving"]
  /\ pending' = [pending EXCEPT ![s] = @ \cup {n}]
  /\ UNCHANGED <<tables, request, pc, conn, crashes>>

\* Faulty: a failed node is not recorded.
FailUnrecorded(s, n) ==
  /\ n \in Experts /\ node[s][n] = "running"
  /\ Fault("expert")
  /\ ran' = [ran EXCEPT ![s][n] = "failed"]
  /\ node' = [node EXCEPT ![s][n] = "raised"]
  /\ UNCHANGED <<tables, request, pc, answer, pending, conn, crashes>>

ExpertSucceeds(s, n) ==
  n \in Experts /\ NoFault /\ Finish(s, n, "success") /\ UNCHANGED answer
ExpertFails(s, n) ==
  n \in Experts /\ Fault("expert") /\ Finish(s, n, "failed") /\ UNCHANGED answer

\* The debate and judge nodes turn an exception into an empty outcome; the
\* judge does not call its gateway without a debate outcome.
DebateEnds(s) ==
  \/ NoFault /\ Finish(s, "debate", "success")
       /\ answer' = [answer EXCEPT ![s] = @ \cup {"debate_outcome"}]
  \/ Fault("debate") /\ Finish(s, "debate", "success") /\ UNCHANGED answer
JudgeEnds(s) ==
  \/ /\ "debate_outcome" \in answer[s]
     /\ NoFault /\ Finish(s, "judge", "success")
     /\ answer' = [answer EXCEPT ![s] = @ \cup {"verdict"}]
  \/ /\ IF "debate_outcome" \in answer[s] THEN Fault("judge") ELSE NoFault
     /\ Finish(s, "judge", "success") /\ UNCHANGED answer

RunNode(s) ==
  /\ pc[s] = "graph"
  /\ \/ \E n \in Experts : ExpertSucceeds(s, n) \/ ExpertFails(s, n)
     \/ DebateEnds(s) \/ JudgeEnds(s)

Overtaken(s, n) == \E m \in Nodes \ {n} : node[s][m] = "saving"

\* Faulty: the exception swallowed; a node's status taken for the graph's; the
\* AsyncSession rolled back in the except clause, which drops what the other
\* nodes have added.
Swallowed(s, n) == "done"
AsRecorded(s, n) == ran[s][n]
SaveRollsBack(s, n) ==
  /\ conn[s] = "broken" \/ Overtaken(s, n)
  /\ NoFault
  /\ pending' = [pending EXCEPT ![s] = {}]
  /\ UNCHANGED <<records, conn>>

\* The wrapper re-raises the node's exception after it has been recorded.
Outcome(s, n) == IF ran[s][n] = "failed" THEN "raised" ELSE "done"

\* save_node_execution raises at once: the AsyncSession is broken, or another
\* node's commit is in progress.  The record stays added.
SaveRefused(s, n) ==
  /\ conn[s] = "broken" \/ Overtaken(s, n)
  /\ NoFault
  /\ UNCHANGED <<records, pending, conn>>

\* save_node_execution ends one way or another; its exceptions are swallowed.
\* The commit flushes this record, unless another commit already did, and any
\* others that have been added.
SaveNode(s, n) ==
  /\ pc[s] = "graph" /\ node[s][n] = "saving"
  /\ \/ \E P \in SUBSET pending[s] : {n} \cap pending[s] \subseteq P /\ CommitRuns(s, P)
     \/ SaveRefused(s, n)
     \/ /\ conn[s] = "ok"
        /\ Fault("db") \/ (Overtaken(s, n) /\ Fault("cut"))
        /\ CommitBreaks(s, pending[s])
  /\ node' = [node EXCEPT ![s][n] = Outcome(s, n)]
  /\ UNCHANGED <<status, request, pc, ran, answer, crashes>>

\* Faulty: the run ends when every expert has raised.
AllRaised(s) == \A n \in request[s].experts : node[s][n] = "raised"

\* LangGraph: the first exception ends the step.
Failing(s) == \E n \in Experts : node[s][n] = "raised"

\* The nodes still at work are cancelled, which their wrapper does not catch: one
\* in the middle of its function leaves no record, one in the middle of its
\* commit may have stored it.
CancelSiblings(s) ==
  /\ pc[s] = "graph" /\ Failing(s)
  /\ node' = [node EXCEPT ![s] =
       [n \in Nodes |-> IF @[n] \in {"running", "saving"} THEN "cancelled" ELSE @[n]]]
  /\ \/ \E P \in SUBSET {n \in pending[s] : node[s][n] = "saving"} : CommitRuns(s, P)
     \/ conn[s] = "broken" /\ NoFault /\ UNCHANGED <<records, pending, conn>>
     \/ /\ conn[s] = "ok" /\ \E n \in Experts : node[s][n] = "saving"
        /\ Fault("cut")
        /\ CommitBreaks(s, {n \in pending[s] : node[s][n] = "saving"})
  /\ Goto(s, "fail")
  /\ UNCHANGED <<status, request, ran, answer, crashes>>

\* The results the state holds when the experts' step is over.
Results(s) == request[s].reused \cup {n \in Experts : ran[s][n] = "success"}

Done(s, n) == node[s][n] = "done"

\* The barrier after the experts: aggregator_node, then the debate unless skipped.
Aggregate(s) ==
  /\ pc[s] = "graph" /\ \A n \in request[s].experts : Done(s, n)
  /\ node[s]["debate"] = "idle"
  /\ IF request[s].skip_debate
       THEN Goto(s, "update") /\ UNCHANGED node
       ELSE node' = [node EXCEPT ![s]["debate"] = "running"] /\ UNCHANGED pc
  /\ UNCHANGED <<tables, request, ran, answer, pending, conn, budget>>

EnterJudge(s) ==
  /\ pc[s] = "graph" /\ Done(s, "debate") /\ node[s]["judge"] = "idle"
  /\ node' = [node EXCEPT ![s]["judge"] = "running"]
  /\ UNCHANGED <<tables, request, pc, ran, answer, pending, conn, budget>>

LeaveGraph(s) ==
  /\ pc[s] = "graph" /\ Done(s, "judge")
  /\ Goto(s, "update")
  /\ UNCHANGED <<tables, request, node, ran, answer, pending, conn, budget>>

OverallStatus(s) == IF Results(s) # {} THEN "completed" ELSE "failed"

\* update_session(session): one UPDATE, then a commit that also flushes every
\* record that is still added.  The UPDATE begins a transaction: when it gets no
\* connection it raises, and the AsyncSession can still be used.
WriteStatus(s, value) ==
  /\ status' = [status EXCEPT ![s] = value]
  /\ CommitRuns(s, pending[s])

WriteRaises(s, value) ==
  \/ conn[s] = "broken" /\ NoFault /\ UNCHANGED <<tables, pending, conn>>
  \/ conn[s] = "ok" /\ Fault("db") /\ UNCHANGED <<tables, pending, conn>>
  \/ /\ conn[s] = "ok" /\ Fault("db")
     /\ \/ UNCHANGED tables
        \/ status' = [status EXCEPT ![s] = value] /\ Insert(s, pending[s])
     /\ pending' = [pending EXCEPT ![s] = {}]
     /\ conn' = [conn EXCEPT ![s] = "broken"]

UpdateSession(s) ==
  /\ pc[s] = "update"
  /\ \/ /\ WriteStatus(s, OverallStatus(s))
        /\ Goto(s, IF OverallStatus(s) = "failed" THEN "raised" ELSE "returned")
     \/ WriteRaises(s, OverallStatus(s)) /\ Goto(s, "fail")
  /\ UNCHANGED <<request, node, ran, answer, crashes>>

\* Faulty: failed, whatever the row says by now, through a session of its own;
\* the exception goes to the caller and the row is left alone.
FailAfresh(s) ==
  /\ pc[s] = "fail"
  /\ status' = [status EXCEPT ![s] = "failed"]
  /\ Goto(s, "raised")
  /\ UNCHANGED <<records, request, node, ran, answer, pending, conn, budget>>
OnlyRaise(s) ==
  /\ pc[s] = "fail"
  /\ Goto(s, "raised")
  /\ UNCHANGED <<tables, request, node, ran, answer, pending, conn, budget>>

\* The except clause of run(): session.fail() is written if it can be.
UpdateFailed(s) ==
  /\ pc[s] = "fail"
  /\ WriteStatus(s, "failed") \/ WriteRaises(s, "failed")
  /\ Goto(s, "raised")
  /\ UNCHANGED <<request, node, ran, answer, crashes>>

\* The process dies: its requests are gone, the tables stay.
Crash ==
  /\ crashes < MaxCrashes /\ Active # {}
  /\ crashes' = crashes + 1
  /\ pc' = [s \in SessionIds |-> IF s \in Active THEN "lost" ELSE pc[s]]
  /\ UNCHANGED <<tables, request, node, ran, answer, pending, conn, faults>>

Step(s) ==
  \/ SaveSession(s) \/ RunNode(s) \/ \E n \in Nodes : SaveNode(s, n)
  \/ CancelSiblings(s) \/ Aggregate(s) \/ EnterJudge(s) \/ LeaveGraph(s)
  \/ UpdateSession(s) \/ UpdateFailed(s)

Next ==
  \/ \E s \in SessionIds :
       Execute(s) \/ (\E p \in SessionIds : Retry(s, p)) \/ Step(s)
  \/ Crash

Spec == Init /\ [][Next]_vars

\* Every request that is under way goes on: gateways answer or time out.
FairSpec == Spec /\ \A s \in SessionIds : WF_vars(Step(s))

-----------------------------------------------------------------------------
(* Properties. *)

\* Every variable has the shape the code gives it.
TypeOK ==
  /\ status \in [SessionIds -> {"absent", "running", "completed", "failed"}]
  /\ request \in [SessionIds -> Requests]
  /\ records \in [SessionIds -> [Nodes -> {"none", "success", "failed"}]]
  /\ pc \in [SessionIds -> {"unused", "create", "graph", "update", "fail",
                            "returned", "raised", "lost"}]
  /\ node \in [SessionIds ->
       [Nodes -> {"idle", "running", "saving", "done", "raised", "cancelled"}]]
  /\ ran \in [SessionIds -> [Nodes -> {"none", "success", "failed"}]]
  /\ answer \in [SessionIds -> SUBSET {"debate_outcome", "verdict"}]
  /\ pending \in [SessionIds -> SUBSET Nodes]
  /\ conn \in [SessionIds -> {"ok", "broken"}]
  /\ faults \in Nat /\ crashes \in Nat

\* The trail is complete where it is relied on: once the row says completed or
\* failed, every node that ran to its end has its NodeExecution stored with the
\* status it had, although each save may be overtaken, cut short or refused and
\* its exception is swallowed.  retry() separates the experts by these rows.
FinishedHasRecords ==
  \A s \in SessionIds, n \in Nodes :
    status[s] \in {"completed", "failed"} /\ node[s][n] \in {"done", "raised"}
      => records[s][n] = ran[s][n]

\* A failed session tells why: an expert is recorded as failed, so that retry()
\* accepts it, or every expert it asked is recorded with its success and only the
\* update to completed failed.  No failure is lost with the save of its node.
FailedTellsWhy ==
  \A s \in SessionIds :
    status[s] = "failed" => Retryable(s) \/ request[s].experts \subseteq SuccessResults(s)

\* A completed session has a result of every expert it was asked to run.
CompletedHasResults ==
  \A s \in SessionIds : status[s] = "completed" => request[s].experts \subseteq Results(s)

\* A result taken over by a retry was computed by an expert that succeeded in
\* the session it retries.
ReusedWereComputed ==
  \A s \in SessionIds :
    request[s].parent # NoParent =>
      \A n \in request[s].reused : ran[request[s].parent][n] = "success"

\* "Successful experts are not run again": a retry asks only experts that did
\* not succeed in the session it retries.
SuccessNotRedone ==
  \A s \in SessionIds :
    request[s].parent # NoParent =>
      \A n \in request[s].experts : ran[request[s].parent][n] # "success"

\* A row is written once as running and once as finished: a finished session is
\* never reopened or overwritten, whatever fails around its last write.
FinishedIsFinal ==
  [][\A s \in SessionIds :
       status[s] \in {"completed", "failed"} => status'[s] = status[s]]_vars

\* The experts a session was asked for are all part of a retry of it, as a
\* result taken over or as an expert to run.
RetryCoversExperts ==
  \A s \in SessionIds :
    request[s].parent # NoParent =>
      request[request[s].parent].experts \subseteq request[s].experts \cup request[s].reused

\* Every request comes to an end.
RequestEnds == \A s \in SessionIds : pc[s] = "create" ~> pc[s] \in {"returned", "raised", "lost"}

\* Without database faults every running row is finished, so that it can be
\* retried or read.
RunningIsFinished == \A s \in SessionIds : status[s] = "running" ~> status[s] # "running"

=============================================================================
