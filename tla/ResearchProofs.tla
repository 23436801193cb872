---------------------------- MODULE ResearchProofs ----------------------------
(***************************************************************************)
(* What holds of research sessions and their node executions for every set  *)
(* of experts and every number of requests, faults and crashes.             *)
(***************************************************************************)
EXTENDS ResearchOrchestration, TLAPS

-----------------------------------------------------------------------------
(* The inductive invariant, session by session. *)

\* Nothing has been started before the row is written.
Fresh(s) ==
  pc[s] \in {"unused", "create"} => status[s] = "absent" /\ \A n \in Nodes : node[s][n] = "idle"

\* The row is running while the graph works; once it is finished, the AsyncSession
\* of the except clause is broken.
RowFollowsRun(s) ==
  /\ pc[s] \in {"graph", "update"} => status[s] = "running"
  /\ pc[s] = "fail" => status[s] = "running" \/ conn[s] = "broken"

\* How a node ended is known from the moment it is saved.
OutcomeKnown(s) ==
  \A n \in Nodes :
    /\ node[s][n] = "saving" => ran[s][n] # "none"
    /\ node[s][n] = "done" => ran[s][n] = "success"
    /\ node[s][n] = "raised" => ran[s][n] = "failed"

\* Records belong to nodes that are over, and tell how they ended.
RecordsTrue(s) ==
  \A n \in Nodes :
    /\ n \in pending[s] \/ records[s][n] # "none" => node[s][n] \notin {"idle", "running"}
    /\ records[s][n] # "none" => records[s][n] = ran[s][n]

\* What is not recorded yet goes with the next commit, unless none can succeed.
StoredOrAdded(s, n) == records[s][n] = ran[s][n] \/ n \in pending[s] \/ conn[s] = "broken"

NothingForgotten(s) ==
  \A n \in Nodes : node[s][n] \in {"saving", "done", "raised"} => StoredOrAdded(s, n)

FinishedRecorded(s) ==
  status[s] \in {"completed", "failed"} =>
    \A n \in Nodes : node[s][n] \in {"done", "raised"} => records[s][n] = ran[s][n]

\* The debate begins after every expert has succeeded.
BarrierPassed(s) ==
  pc[s] = "graph" =>
    /\ node[s]["debate"] # "idle" => \A n \in request[s].experts : node[s][n] = "done"
    /\ node[s]["judge"] # "idle" => node[s]["debate"] # "idle"

AskedSucceeded(s) ==
  /\ pc[s] = "update" => \A n \in request[s].experts : node[s][n] = "done"
  /\ pc[s] = "update" \/ status[s] = "completed" => \A n \in request[s].experts : ran[s][n] = "success"

\* An expert is behind every failure that can still be written, or was, unless
\* all have succeeded.
FailureExplained(s) ==
  /\ pc[s] = "fail" /\ conn[s] = "ok" =>
       \/ \E n \in Experts : node[s][n] = "raised"
       \/ \A n \in request[s].experts : node[s][n] = "done"
  /\ status[s] = "failed" => FailedExperts(s) # {} \/ request[s].experts \subseteq SuccessResults(s)

Asked(s) == pc[s] # "unused" => request[s].experts # {}

SessionInv(s) ==
  /\ Fresh(s) /\ RowFollowsRun(s) /\ OutcomeKnown(s) /\ RecordsTrue(s) /\ NothingForgotten(s)
  /\ FinishedRecorded(s) /\ BarrierPassed(s) /\ AskedSucceeded(s) /\ FailureExplained(s)
  /\ Asked(s)

\* A retry is of a failed session, and divides its experts by how they ended.
Lineage(s) ==
  request[s].parent # NoParent =>
    /\ request[s].parent \in SessionIds
    /\ status[request[s].parent] = "failed"
    /\ \A n \in request[s].reused : ran[request[s].parent][n] = "success"
    /\ \A n \in request[s].experts : ran[request[s].parent][n] # "success"

ResearchInv == TypeOK /\ \A s \in SessionIds : SessionInv(s) /\ Lineage(s)

-----------------------------------------------------------------------------
(* Facts about the operators. *)

LEMMA NodeFacts ==
  /\ Experts \subseteq Nodes /\ "debate" \in Nodes /\ "judge" \in Nodes
  /\ "debate" \notin Experts /\ "judge" \notin Experts
  BY ExpertsAssumption DEF Nodes

LEMMA FaultCounts ==
  ASSUME TypeOK, NEW k, Fault(k) \/ NoFault
  PROVE  faults' \in Nat
  BY DEF TypeOK, Fault, NoFault

\* What an attempt to commit does, whether it ends well or not: the records in Q
\* are stored, and what else was added stays added or is lost with the
\* AsyncSession.
CommitEffect(s, Q) ==
  /\ records' \in [SessionIds -> [Nodes -> {"none", "success", "failed"}]]
  /\ pending' \in [SessionIds -> SUBSET Nodes]
  /\ conn' \in [SessionIds -> {"ok", "broken"}]
  /\ \A n \in Nodes : records'[s][n] = IF n \in Q THEN ran[s][n] ELSE records[s][n]
  /\ \A n \in pending[s] \ Q : n \in pending'[s] \/ conn'[s] = "broken"
  /\ pending'[s] \subseteq pending[s]
  /\ conn[s] = "broken" => conn'[s] = "broken"
  /\ \A t \in SessionIds \ {s} :
       records'[t] = records[t] /\ pending'[t] = pending[t] /\ conn'[t] = conn[t]

LEMMA Inserted ==
  ASSUME TypeOK, NEW s \in SessionIds, NEW P \in SUBSET Nodes, Insert(s, P)
  PROVE  /\ records' \in [SessionIds -> [Nodes -> {"none", "success", "failed"}]]
         /\ \A n \in Nodes : records'[s][n] = IF n \in P THEN ran[s][n] ELSE records[s][n]
         /\ \A t \in SessionIds \ {s} : records'[t] = records[t]
  BY DEF TypeOK, Insert

LEMMA NothingCommitted ==
  ASSUME TypeOK, NEW s \in SessionIds, UNCHANGED <<records, pending, conn>>
  PROVE  CommitEffect(s, {})
  BY DEF TypeOK, CommitEffect

LEMMA CommitRunsEffect ==
  ASSUME TypeOK, NEW s \in SessionIds, NEW P \in SUBSET pending[s], CommitRuns(s, P)
  PROVE  CommitEffect(s, P)
  <1>1. P \in SUBSET Nodes
    BY DEF TypeOK
  <1>2. /\ Insert(s, P) /\ conn' = conn
        /\ pending' = [pending EXCEPT ![s] = @ \ P]
    BY DEF CommitRuns
  <1>3. QED
    BY <1>1, <1>2, Inserted DEF TypeOK, CommitEffect

LEMMA CommitBreaksEffect ==
  ASSUME TypeOK, NEW s \in SessionIds, NEW P \in SUBSET pending[s], CommitBreaks(s, P)
  PROVE  \E Q \in SUBSET pending[s] : CommitEffect(s, Q)
  <1>1. P \in SUBSET Nodes /\ {} \in SUBSET Nodes
    BY DEF TypeOK
  <1>2. PICK Q \in SUBSET P : Insert(s, Q)
    BY DEF CommitBreaks
  <1>3. /\ pending' = [pending EXCEPT ![s] = {}]
        /\ conn' = [conn EXCEPT ![s] = "broken"]
    BY DEF CommitBreaks
  <1>4. CommitEffect(s, Q)
    BY <1>1, <1>2, <1>3, Inserted DEF TypeOK, CommitEffect
  <1>5. QED
    BY <1>2, <1>4

\* A session no variable of which changes keeps its invariant.
LEMMA Untouched ==
  ASSUME NEW t \in SessionIds, SessionInv(t),
         UNCHANGED <<status[t], request[t], records[t], pc[t], node[t], ran[t], pending[t], conn[t]>>
  PROVE  SessionInv(t)'
  BY DEF SessionInv, Fresh, RowFollowsRun, OutcomeKnown, RecordsTrue, StoredOrAdded,
         NothingForgotten, FinishedRecorded, BarrierPassed, AskedSucceeded, FailureExplained,
         FailedExperts, SuccessResults, Asked
-----------------------------------------------------------------------------
(* One lemma per action.  Each works in one session, and leaves a finished row *)
(* and the outcomes of its nodes as they are.                                 *)

OneSession(s) ==
  /\ \A t \in SessionIds \ {s} :
       UNCHANGED <<status[t], request[t], records[t], pc[t], node[t], ran[t], pending[t], conn[t]>>
  /\ status[s] \in {"completed", "failed"} => UNCHANGED <<status[s], ran[s]>>

StepKeeps(s) == TypeOK' /\ SessionInv(s)' /\ OneSession(s)

LEMMA StartRunStep ==
  ASSUME ResearchInv, NEW s \in SessionIds, NEW r \in Requests, StartRun(s, r), r.experts # {}
  PROVE  StepKeeps(s) /\ request'[s] = r
  <1>1. /\ pc[s] = "unused"
        /\ request' = [request EXCEPT ![s] = r] /\ pc' = [pc EXCEPT ![s] = "create"]
        /\ UNCHANGED <<status, records, node, ran, answer, pending, conn, faults, crashes>>
    BY DEF StartRun, Goto, tables, budget
  <1>2. TypeOK'
    BY <1>1 DEF ResearchInv, TypeOK
  <1>3. request'[s] = r /\ pc'[s] = "create"
    BY <1>1 DEF ResearchInv, TypeOK
  <1>4. status[s] = "absent" /\ \A n \in Nodes : node[s][n] = "idle"
    BY <1>1 DEF ResearchInv, SessionInv, Fresh
  <1>5. SessionInv(s)
    BY DEF ResearchInv
  <1>6. SessionInv(s)'
    BY <1>1, <1>3, <1>4, <1>5
       DEF SessionInv, Fresh, RowFollowsRun, OutcomeKnown, RecordsTrue, StoredOrAdded,
           NothingForgotten, FinishedRecorded, BarrierPassed, AskedSucceeded, FailureExplained,
           FailedExperts, SuccessResults, Asked
  <1>7. OneSession(s)
    BY <1>1 DEF ResearchInv, TypeOK, OneSession
  <1>8. QED
    BY <1>2, <1>3, <1>6, <1>7 DEF StepKeeps

LEMMA SaveSessionStep ==
  ASSUME ResearchInv, NEW s \in SessionIds, SaveSession(s)
  PROVE  StepKeeps(s) /\ request' = request
  <1>1. pc[s] = "create" /\ UNCHANGED <<request, records, ran, answer, pending, crashes>>
    BY DEF SaveSession
  <1>2. status[s] = "absent" /\ \A n \in Nodes : node[s][n] = "idle"
    BY <1>1 DEF ResearchInv, SessionInv, Fresh
  <1>3. SessionInv(s)
    BY DEF ResearchInv
  <1>4. CASE /\ status' = [status EXCEPT ![s] = "running"]
             /\ node' = [node EXCEPT ![s] =
                  [n \in Nodes |-> IF n \in request[s].experts THEN "running" ELSE @[n]]]
             /\ Goto(s, "graph") /\ NoFault /\ UNCHANGED conn
    <2>1. TypeOK'
      BY <1>1, <1>4 DEF ResearchInv, TypeOK, Goto, NoFault
    <2>2. /\ status'[s] = "running" /\ pc'[s] = "graph"
          /\ \A n \in Nodes : node'[s][n] = IF n \in request[s].experts THEN "running" ELSE "idle"
      BY <1>2, <1>4 DEF ResearchInv, TypeOK, Goto
    <2>3. request[s].experts \subseteq Experts
      BY DEF ResearchInv, TypeOK, Requests
    <2>4. node'[s]["debate"] = "idle" /\ node'[s]["judge"] = "idle"
      BY <2>2, <2>3, NodeFacts
    <2>5. \A n \in Nodes : n \notin pending[s] /\ records[s][n] = "none"
      BY <1>2, <1>3 DEF SessionInv, RecordsTrue
    <2>6. SessionInv(s)'
      BY <1>1, <1>3, <1>4, <2>2, <2>4, <2>5
         DEF SessionInv, Fresh, RowFollowsRun, OutcomeKnown, RecordsTrue, StoredOrAdded,
             NothingForgotten, FinishedRecorded, BarrierPassed, AskedSucceeded, FailureExplained,
             FailedExperts, SuccessResults, Asked
    <2>7. OneSession(s)
      BY <1>1, <1>2, <1>4 DEF ResearchInv, TypeOK, OneSession, Goto
    <2>8. QED
      BY <1>1, <2>1, <2>6, <2>7 DEF StepKeeps
  <1>5. CASE /\ Fault("db")
             /\ UNCHANGED status \/ status' = [status EXCEPT ![s] = "running"]
             /\ conn' = [conn EXCEPT ![s] = "broken"]
             /\ Goto(s, "raised") /\ UNCHANGED node
    <2>1. TypeOK'
      BY <1>1, <1>5, FaultCounts DEF ResearchInv, TypeOK, Goto
    <2>2. status'[s] \in {"absent", "running"} /\ pc'[s] = "raised" /\ conn'[s] = "broken"
      BY <1>2, <1>5 DEF ResearchInv, TypeOK, Goto
    <2>3. SessionInv(s)'
      BY <1>1, <1>2, <1>3, <1>5, <2>2
         DEF SessionInv, Fresh, RowFollowsRun, OutcomeKnown, RecordsTrue, StoredOrAdded,
             NothingForgotten, FinishedRecorded, BarrierPassed, AskedSucceeded, FailureExplained,
             FailedExperts, SuccessResults, Asked
    <2>4. OneSession(s)
      BY <1>1, <1>2, <1>5 DEF ResearchInv, TypeOK, OneSession, Goto
    <2>5. QED
      BY <1>1, <2>1, <2>3, <2>4 DEF StepKeeps
  <1>6. QED
    BY <1>4, <1>5 DEF SaveSession

\* A node function is over and its record is added.
LEMMA FinishStep ==
  ASSUME ResearchInv, NEW s \in SessionIds, NEW n \in Nodes, NEW how \in {"success", "failed"},
         Finish(s, n, how), pc[s] = "graph", faults' \in Nat,
         answer' \in [SessionIds -> SUBSET {"debate_outcome", "verdict"}]
  PROVE  StepKeeps(s) /\ request' = request
  <1>1. /\ node[s][n] = "running"
        /\ ran' = [ran EXCEPT ![s][n] = how]
        /\ node' = [node EXCEPT ![s][n] = "saving"]
        /\ pending' = [pending EXCEPT ![s] = @ \cup {n}]
        /\ UNCHANGED <<status, records, request, pc, conn, crashes>>
    BY DEF Finish, tables
  <1>2. TypeOK'
    BY <1>1 DEF ResearchInv, TypeOK
  <1>3. /\ ran'[s][n] = how /\ node'[s][n] = "saving" /\ pending'[s] = pending[s] \cup {n}
        /\ \A m \in Nodes \ {n} : ran'[s][m] = ran[s][m] /\ node'[s][m] = node[s][m]
    BY <1>1 DEF ResearchInv, TypeOK
  <1>4. SessionInv(s) /\ status[s] = "running"
    BY DEF ResearchInv, SessionInv, RowFollowsRun
  <1>5. records[s][n] = "none" /\ n \notin pending[s]
    BY <1>1, <1>4 DEF SessionInv, RecordsTrue
  <1>6. Fresh(s)' /\ RowFollowsRun(s)' /\ FinishedRecorded(s)' /\ Asked(s)' /\ AskedSucceeded(s)'
        /\ FailureExplained(s)'
    BY <1>1, <1>4
       DEF SessionInv, Fresh, RowFollowsRun, FinishedRecorded, AskedSucceeded, Asked,
           FailureExplained
  <1>7. OutcomeKnown(s)' /\ RecordsTrue(s)' /\ NothingForgotten(s)'
    BY <1>1, <1>3, <1>4, <1>5
       DEF SessionInv, OutcomeKnown, RecordsTrue, StoredOrAdded, NothingForgotten
  <1>8. BarrierPassed(s)'
    BY <1>1, <1>3, <1>4, NodeFacts DEF SessionInv, BarrierPassed, ResearchInv, TypeOK, Requests
  <1>9. OneSession(s)
    BY <1>1, <1>4 DEF ResearchInv, TypeOK, OneSession
  <1>10. QED
    BY <1>1, <1>2, <1>6, <1>7, <1>8, <1>9 DEF StepKeeps, SessionInv

LEMMA RunNodeStep ==
  ASSUME ResearchInv, NEW s \in SessionIds, RunNode(s)
  PROVE  StepKeeps(s) /\ request' = request
  <1>1. pc[s] = "graph"
    BY DEF RunNode
  <1>2. TypeOK
    BY DEF ResearchInv
  <1>3. ASSUME NEW n \in Experts, ExpertSucceeds(s, n) \/ ExpertFails(s, n)
        PROVE  StepKeeps(s) /\ request' = request
    <2>1. PICK how \in {"success", "failed"} : Finish(s, n, how) /\ UNCHANGED answer
      BY <1>3 DEF ExpertSucceeds, ExpertFails
    <2>2. faults' \in Nat
      BY <1>2, <1>3, FaultCounts DEF ExpertSucceeds, ExpertFails
    <2>3. answer' \in [SessionIds -> SUBSET {"debate_outcome", "verdict"}]
      BY <1>2, <2>1 DEF TypeOK
    <2>4. QED
      BY <1>1, <2>1, <2>2, <2>3, NodeFacts, FinishStep
  <1>4. ASSUME DebateEnds(s) PROVE StepKeeps(s) /\ request' = request
    <2>1. Finish(s, "debate", "success") /\ faults' \in Nat
      BY <1>2, <1>4, FaultCounts DEF DebateEnds
    <2>2. answer' \in [SessionIds -> SUBSET {"debate_outcome", "verdict"}]
      BY <1>2, <1>4 DEF DebateEnds, TypeOK
    <2>3. QED
      BY <1>1, <2>1, <2>2, NodeFacts, FinishStep
  <1>5. ASSUME JudgeEnds(s) PROVE StepKeeps(s) /\ request' = request
    <2>1. Finish(s, "judge", "success")
      BY <1>5 DEF JudgeEnds
    <2>2. faults' \in Nat
      BY <1>2, <1>5, FaultCounts DEF JudgeEnds
    <2>3. answer' \in [SessionIds -> SUBSET {"debate_outcome", "verdict"}]
      <3>1. answer' = answer \/ answer' = [answer EXCEPT ![s] = @ \cup {"verdict"}]
        BY <1>5 DEF JudgeEnds
      <3>2. QED
        <4>1. answer \in [SessionIds -> SUBSET {"debate_outcome", "verdict"}]
          BY <1>2 DEF TypeOK
        <4>2. QED
          BY <3>1, <4>1
    <2>4. QED
      BY <1>1, <2>1, <2>2, <2>3, NodeFacts, FinishStep
  <1>6. QED
    BY <1>3, <1>4, <1>5 DEF RunNode
\* What a commit attempt means for the records of a session.
LEMMA CommitKeeps ==
  ASSUME TypeOK, NEW s \in SessionIds, NEW Q \in SUBSET pending[s], CommitEffect(s, Q),
         UNCHANGED ran
  PROVE  /\ \A n \in Nodes : StoredOrAdded(s, n) => StoredOrAdded(s, n)'
         /\ \A n \in Nodes : n \in pending[s] => StoredOrAdded(s, n)'
         /\ \A n \in Nodes : (n \in pending[s] \/ records[s][n] # "none")
                               \/ ~(n \in pending'[s] \/ records'[s][n] # "none")
         /\ \A n \in Nodes : (records[s][n] # "none" => records[s][n] = ran[s][n])
                               => (records'[s][n] # "none" => records'[s][n] = ran'[s][n])
  BY DEF TypeOK, CommitEffect, StoredOrAdded

LEMMA SaveNodeStep ==
  ASSUME ResearchInv, NEW s \in SessionIds, NEW n \in Nodes, SaveNode(s, n)
  PROVE  StepKeeps(s) /\ request' = request
  <1>1. /\ pc[s] = "graph" /\ node[s][n] = "saving"
        /\ node' = [node EXCEPT ![s][n] = Outcome(s, n)]
        /\ UNCHANGED <<status, request, pc, ran, answer, crashes>>
    BY DEF SaveNode
  <1>2. TypeOK /\ SessionInv(s) /\ status[s] = "running"
    BY <1>1 DEF ResearchInv, SessionInv, RowFollowsRun
  <1>3. PICK Q \in SUBSET pending[s] : CommitEffect(s, Q)
    <2>1. CASE \E P \in SUBSET pending[s] : {n} \cap pending[s] \subseteq P /\ CommitRuns(s, P)
      BY <1>2, <2>1, CommitRunsEffect
    <2>2. CASE SaveRefused(s, n)
      BY <1>2, <2>2, NothingCommitted DEF SaveRefused
    <2>3. CASE CommitBreaks(s, pending[s])
      BY <1>2, <2>3, CommitBreaksEffect
    <2>4. QED
      BY <2>1, <2>2, <2>3 DEF SaveNode
  <1>4. faults' \in Nat
    <2>1. NoFault \/ Fault("db") \/ Fault("cut")
      BY DEF SaveNode, CommitRuns, SaveRefused
    <2>2. QED
      BY <1>2, <2>1, FaultCounts
  <1>5. ran[s][n] \in {"success", "failed"} /\ Outcome(s, n) \in {"raised", "done"}
    BY <1>1, <1>2 DEF TypeOK, SessionInv, OutcomeKnown, Outcome
  <1>6. TypeOK'
    BY <1>1, <1>2, <1>3, <1>4, <1>5 DEF TypeOK, CommitEffect
  <1>7. node'[s][n] = Outcome(s, n) /\ \A m \in Nodes \ {n} : node'[s][m] = node[s][m]
    BY <1>1, <1>2 DEF TypeOK
  <1>8. /\ \A m \in Nodes : StoredOrAdded(s, m) => StoredOrAdded(s, m)'
        /\ \A m \in Nodes : (m \in pending[s] \/ records[s][m] # "none")
                              \/ ~(m \in pending'[s] \/ records'[s][m] # "none")
        /\ \A m \in Nodes : (records[s][m] # "none" => records[s][m] = ran[s][m])
                              => (records'[s][m] # "none" => records'[s][m] = ran'[s][m])
    BY <1>1, <1>2, <1>3, CommitKeeps
  <1>9. Fresh(s)' /\ RowFollowsRun(s)' /\ FinishedRecorded(s)' /\ Asked(s)' /\ AskedSucceeded(s)'
        /\ FailureExplained(s)'
    BY <1>1, <1>2
       DEF SessionInv, Fresh, RowFollowsRun, FinishedRecorded, AskedSucceeded, Asked,
           FailureExplained
  <1>10. OutcomeKnown(s)'
    BY <1>1, <1>2, <1>5, <1>7 DEF SessionInv, OutcomeKnown, Outcome
  <1>11. RecordsTrue(s)'
    BY <1>2, <1>5, <1>7, <1>8 DEF SessionInv, RecordsTrue
  <1>12. NothingForgotten(s)'
    BY <1>1, <1>2, <1>7, <1>8 DEF SessionInv, NothingForgotten
  <1>13. BarrierPassed(s)'
    BY <1>1, <1>2, <1>5, <1>7, NodeFacts DEF SessionInv, BarrierPassed, TypeOK, Requests
  <1>14. OneSession(s)
    BY <1>1, <1>2, <1>3 DEF TypeOK, OneSession, CommitEffect
  <1>15. QED
    BY <1>1, <1>6, <1>9, <1>10, <1>11, <1>12, <1>13, <1>14 DEF StepKeeps, SessionInv

LEMMA CancelSiblingsStep ==
  ASSUME ResearchInv, NEW s \in SessionIds, CancelSiblings(s)
  PROVE  StepKeeps(s) /\ request' = request
  <1> DEFINE saving == {n \in pending[s] : node[s][n] = "saving"}
  <1>1. /\ pc[s] = "graph" /\ Failing(s)
        /\ node' = [node EXCEPT ![s] =
             [n \in Nodes |-> IF @[n] \in {"running", "saving"} THEN "cancelled" ELSE @[n]]]
        /\ pc' = [pc EXCEPT ![s] = "fail"]
        /\ UNCHANGED <<status, request, ran, answer, crashes>>
    BY DEF CancelSiblings, Goto
  <1>2. TypeOK /\ SessionInv(s) /\ status[s] = "running"
    BY <1>1 DEF ResearchInv, SessionInv, RowFollowsRun
  <1>3. PICK Q \in SUBSET pending[s] : CommitEffect(s, Q)
    <2>1. CASE \E P \in SUBSET saving : CommitRuns(s, P)
      BY <1>2, <2>1, CommitRunsEffect
    <2>2. CASE UNCHANGED <<records, pending, conn>>
      BY <1>2, <2>2, NothingCommitted
    <2>3. CASE CommitBreaks(s, saving)
      BY <1>2, <2>3, CommitBreaksEffect
    <2>4. QED
      BY <2>1, <2>2, <2>3 DEF CancelSiblings
  <1>4. faults' \in Nat
    <2>1. NoFault \/ Fault("cut")
      BY DEF CancelSiblings, CommitRuns
    <2>2. QED
      BY <1>2, <2>1, FaultCounts
  <1>5. TypeOK'
    BY <1>1, <1>2, <1>3, <1>4 DEF TypeOK, CommitEffect
  <1>6. /\ pc'[s] = "fail"
        /\ \A n \in Nodes : node'[s][n] = IF node[s][n] \in {"running", "saving"}
                                          THEN "cancelled" ELSE node[s][n]
    BY <1>1, <1>2 DEF TypeOK
  <1>7. /\ \A m \in Nodes : StoredOrAdded(s, m) => StoredOrAdded(s, m)'
        /\ \A m \in Nodes : (m \in pending[s] \/ records[s][m] # "none")
                              \/ ~(m \in pending'[s] \/ records'[s][m] # "none")
        /\ \A m \in Nodes : (records[s][m] # "none" => records[s][m] = ran[s][m])
                              => (records'[s][m] # "none" => records'[s][m] = ran'[s][m])
    BY <1>1, <1>2, <1>3, CommitKeeps
  <1>8. \E n \in Experts : node'[s][n] = "raised"
    BY <1>1, <1>6, NodeFacts DEF Failing
  <1>9. Fresh(s)' /\ RowFollowsRun(s)' /\ FinishedRecorded(s)' /\ Asked(s)' /\ AskedSucceeded(s)'
        /\ FailureExplained(s)' /\ BarrierPassed(s)'
    BY <1>1, <1>2, <1>6, <1>8
       DEF SessionInv, Fresh, RowFollowsRun, FinishedRecorded, AskedSucceeded, Asked,
           FailureExplained, BarrierPassed
  <1>10. OutcomeKnown(s)'
    BY <1>1, <1>2, <1>6 DEF SessionInv, OutcomeKnown
  <1>11. RecordsTrue(s)' /\ NothingForgotten(s)'
    BY <1>1, <1>2, <1>6, <1>7 DEF SessionInv, RecordsTrue, NothingForgotten
  <1>12. OneSession(s)
    BY <1>1, <1>2, <1>3 DEF TypeOK, OneSession, CommitEffect
  <1>13. QED
    BY <1>1, <1>5, <1>9, <1>10, <1>11, <1>12 DEF StepKeeps, SessionInv
\* The barrier, the judge's turn and the way out of the graph.
LEMMA GraphMovesStep ==
  ASSUME ResearchInv, NEW s \in SessionIds, Aggregate(s) \/ EnterJudge(s) \/ LeaveGraph(s)
  PROVE  StepKeeps(s) /\ request' = request
  <1>1. /\ pc[s] = "graph"
        /\ UNCHANGED <<status, records, request, ran, answer, pending, conn, faults, crashes>>
    BY DEF Aggregate, EnterJudge, LeaveGraph, tables, budget
  <1>2. TypeOK /\ SessionInv(s) /\ status[s] = "running"
    BY <1>1 DEF ResearchInv, SessionInv, RowFollowsRun
  <1>3. request[s].experts \subseteq Nodes
    BY <1>2, NodeFacts DEF TypeOK, Requests
  \* A gateway node begins, from the idle state.
  <1>4. ASSUME NEW n \in {"debate", "judge"}, node[s][n] = "idle",
               node' = [node EXCEPT ![s][n] = "running"], pc' = pc,
               n = "debate" => \A m \in request[s].experts : node[s][m] = "done",
               n = "judge" => node[s]["debate"] = "done"
        PROVE  StepKeeps(s)
    <2>1. n \in Nodes /\ n \notin request[s].experts
      BY <1>2, NodeFacts DEF TypeOK, Requests
    <2>2. node'[s][n] = "running" /\ \A m \in Nodes \ {n} : node'[s][m] = node[s][m]
      BY <1>2, <1>4, <2>1 DEF TypeOK
    <2>3. TypeOK'
      BY <1>1, <1>2, <1>4, <2>1 DEF TypeOK
    <2>4. BarrierPassed(s)'
      BY <1>1, <1>2, <1>3, <1>4, <2>1, <2>2, NodeFacts DEF SessionInv, BarrierPassed
    <2>5. Fresh(s)' /\ RowFollowsRun(s)' /\ FinishedRecorded(s)' /\ Asked(s)'
          /\ AskedSucceeded(s)' /\ FailureExplained(s)'
      BY <1>1, <1>2, <1>4
         DEF SessionInv, Fresh, RowFollowsRun, FinishedRecorded, AskedSucceeded, Asked,
             FailureExplained
    <2>6. OutcomeKnown(s)' /\ RecordsTrue(s)' /\ NothingForgotten(s)'
      BY <1>1, <1>2, <1>4, <2>1, <2>2
         DEF SessionInv, OutcomeKnown, RecordsTrue, NothingForgotten, StoredOrAdded
    <2>7. OneSession(s)
      BY <1>1, <1>2, <1>4 DEF TypeOK, OneSession
    <2>8. QED
      BY <2>3, <2>4, <2>5, <2>6, <2>7 DEF StepKeeps, SessionInv
  \* The graph is left after every expert has succeeded.
  <1>5. ASSUME \A m \in request[s].experts : node[s][m] = "done",
               node' = node, pc' = [pc EXCEPT ![s] = "update"]
        PROVE  StepKeeps(s)
    <2>1. pc'[s] = "update"
      BY <1>2, <1>5 DEF TypeOK
    <2>2. \A m \in request[s].experts : ran[s][m] = "success"
      BY <1>2, <1>3, <1>5 DEF SessionInv, OutcomeKnown
    <2>3. TypeOK'
      BY <1>1, <1>2, <1>5 DEF TypeOK
    <2>4. SessionInv(s)'
      BY <1>1, <1>2, <1>5, <2>1, <2>2
         DEF SessionInv, Fresh, RowFollowsRun, OutcomeKnown, RecordsTrue, StoredOrAdded,
             NothingForgotten, FinishedRecorded, BarrierPassed, AskedSucceeded,
             FailureExplained, Asked
    <2>5. OneSession(s)
      BY <1>1, <1>2, <1>5 DEF TypeOK, OneSession
    <2>6. QED
      BY <2>3, <2>4, <2>5 DEF StepKeeps
  <1>6. CASE Aggregate(s)
    <2>1. /\ \A n \in request[s].experts : node[s][n] = "done"
          /\ node[s]["debate"] = "idle"
          /\ \/ pc' = [pc EXCEPT ![s] = "update"] /\ node' = node
             \/ node' = [node EXCEPT ![s]["debate"] = "running"] /\ pc' = pc
      BY <1>6 DEF Aggregate, Done, Goto
    <2>2. QED
      BY <1>1, <1>4, <1>5, <2>1
  <1>7. CASE EnterJudge(s)
    BY <1>1, <1>4, <1>7 DEF EnterJudge, Done
  <1>8. CASE LeaveGraph(s)
    <2>1. \A m \in request[s].experts : node[s][m] = "done"
      BY <1>1, <1>2, <1>8 DEF LeaveGraph, Done, SessionInv, BarrierPassed
    <2>2. QED
      BY <1>1, <1>5, <1>8, <2>1 DEF LeaveGraph, Goto
  <1>9. QED
    BY <1>6, <1>7, <1>8

\* update_session either writes the row with everything that was added, or
\* writes nothing; it raises after the write only through an AsyncSession that is
\* broken afterwards.
LEMMA WriteEffect ==
  ASSUME TypeOK, NEW s \in SessionIds, NEW value, WriteStatus(s, value) \/ WriteRaises(s, value)
  PROVE  /\ \/ CommitEffect(s, {}) /\ status' = status
            \/ /\ CommitEffect(s, pending[s]) /\ conn[s] = "ok"
               /\ status' = [status EXCEPT ![s] = value]
               /\ WriteRaises(s, value) => conn'[s] = "broken"
         /\ faults' \in Nat
  <1>1. CASE WriteStatus(s, value)
    <2>1. /\ CommitRuns(s, pending[s]) /\ status' = [status EXCEPT ![s] = value]
          /\ conn[s] = "ok" /\ NoFault /\ conn' = conn
      BY <1>1 DEF WriteStatus, CommitRuns
    <2>2. CommitEffect(s, pending[s])
      BY <2>1, CommitRunsEffect
    <2>3. faults' \in Nat
      BY <2>1, FaultCounts
    <2>4. ~WriteRaises(s, value)
      BY <2>1 DEF WriteRaises, TypeOK, Fault, NoFault
    <2>5. QED
      BY <2>1, <2>2, <2>3, <2>4
  <1>2. CASE UNCHANGED <<tables, pending, conn>> /\ (NoFault \/ Fault("db"))
    <2>1. UNCHANGED <<status, records, pending, conn>>
      BY <1>2 DEF tables
    <2>2. CommitEffect(s, {}) /\ faults' \in Nat
      BY <1>2, <2>1, NothingCommitted, FaultCounts
    <2>3. QED
      BY <2>1, <2>2
  <1>3. CASE /\ conn[s] = "ok" /\ Fault("db")
             /\ \/ UNCHANGED tables
                \/ status' = [status EXCEPT ![s] = value] /\ Insert(s, pending[s])
             /\ pending' = [pending EXCEPT ![s] = {}]
             /\ conn' = [conn EXCEPT ![s] = "broken"]
    <2>1. \/ UNCHANGED <<status, records>>
          \/ status' = [status EXCEPT ![s] = value] /\ Insert(s, pending[s])
      BY <1>3 DEF tables
    <2>2. faults' \in Nat /\ conn'[s] = "broken"
      BY <1>3, FaultCounts DEF TypeOK
    <2>3. CASE UNCHANGED <<status, records>>
      <3>1. CommitEffect(s, {})
        BY <1>3, <2>3 DEF TypeOK, CommitEffect
      <3>2. QED
        BY <2>2, <2>3, <3>1
    <2>4. CASE status' = [status EXCEPT ![s] = value] /\ Insert(s, pending[s])
      <3>1. pending[s] \in SUBSET Nodes
        BY DEF TypeOK
      <3>2. CommitEffect(s, pending[s])
        BY <1>3, <2>4, <3>1, Inserted DEF TypeOK, CommitEffect
      <3>3. QED
        BY <1>3, <2>2, <2>4, <3>2
    <2>5. QED
      BY <2>1, <2>3, <2>4
  <1>4. QED
    BY <1>1, <1>2, <1>3 DEF WriteRaises

LEMMA WriteStep ==
  ASSUME ResearchInv, NEW s \in SessionIds, NEW value \in {"completed", "failed"},
         NEW there \in {"fail", "raised", "returned"}, Goto(s, there),
         WriteStatus(s, value) \/ WriteRaises(s, value),
         there = "fail" => WriteRaises(s, value),
         UNCHANGED <<request, node, ran, answer, crashes>>,
         \/ value = "completed" /\ pc[s] = "update"
         \/ value = "failed" /\ pc[s] = "fail"
  PROVE  StepKeeps(s) /\ request' = request
  <1>1. TypeOK /\ SessionInv(s)
    BY DEF ResearchInv
  <1>2. /\ \/ CommitEffect(s, {}) /\ status' = status
           \/ /\ CommitEffect(s, pending[s]) /\ conn[s] = "ok"
              /\ status' = [status EXCEPT ![s] = value]
              /\ there = "fail" => conn'[s] = "broken"
        /\ faults' \in Nat
    BY <1>1, WriteEffect
  <1>3. PICK Q \in SUBSET pending[s] : CommitEffect(s, Q)
    BY <1>2
  <1>4. pc'[s] = there
    BY <1>1 DEF TypeOK, Goto
  <1>5. TypeOK'
    <2>1. status' \in [SessionIds -> {"absent", "running", "completed", "failed"}]
      BY <1>1, <1>2 DEF TypeOK
    <2>2. pc' \in [SessionIds -> {"unused", "create", "graph", "update", "fail",
                                  "returned", "raised", "lost"}]
      BY <1>1 DEF TypeOK, Goto
    <2>3. QED
      BY <1>1, <1>2, <1>3, <2>1, <2>2 DEF TypeOK, CommitEffect
  <1>6. /\ \A m \in Nodes : StoredOrAdded(s, m) => StoredOrAdded(s, m)'
        /\ \A m \in Nodes : (m \in pending[s] \/ records[s][m] # "none")
                              \/ ~(m \in pending'[s] \/ records'[s][m] # "none")
        /\ \A m \in Nodes : (records[s][m] # "none" => records[s][m] = ran[s][m])
                              => (records'[s][m] # "none" => records'[s][m] = ran'[s][m])
    BY <1>1, <1>3, CommitKeeps
  <1>7. OutcomeKnown(s)' /\ RecordsTrue(s)' /\ NothingForgotten(s)'
    BY <1>1, <1>6 DEF SessionInv, OutcomeKnown, RecordsTrue, NothingForgotten
  <1>8. Fresh(s)' /\ BarrierPassed(s)' /\ Asked(s)'
    BY <1>1, <1>2, <1>4 DEF SessionInv, Fresh, BarrierPassed, Asked
  <1>9. CASE CommitEffect(s, {}) /\ status' = status
    <2>1. /\ \A n \in Nodes : records'[s][n] = records[s][n]
          /\ conn[s] = "broken" => conn'[s] = "broken"
          /\ conn'[s] \in {"ok", "broken"}
      BY <1>9 DEF CommitEffect
    <2>2. RowFollowsRun(s)' /\ FinishedRecorded(s)' /\ AskedSucceeded(s)'
      BY <1>1, <1>4, <1>9, <2>1 DEF SessionInv, RowFollowsRun, FinishedRecorded, AskedSucceeded
    <2>3. FailureExplained(s)'
      <3>1. FailedExperts(s)' = FailedExperts(s) /\ SuccessResults(s)' = SuccessResults(s)
        BY <2>1, NodeFacts DEF FailedExperts, SuccessResults
      <3>2. pc'[s] = "fail" /\ conn'[s] = "ok" =>
              \/ \E n \in Experts : node'[s][n] = "raised"
              \/ \A n \in request'[s].experts : node'[s][n] = "done"
        BY <1>1, <2>1 DEF SessionInv, FailureExplained, AskedSucceeded, TypeOK
      <3>3. QED
        BY <1>1, <1>9, <3>1, <3>2 DEF SessionInv, FailureExplained
    <2>4. OneSession(s)
      BY <1>1, <1>9 DEF TypeOK, OneSession, CommitEffect, Goto
    <2>5. QED
      BY <1>5, <1>7, <1>8, <2>2, <2>3, <2>4 DEF StepKeeps, SessionInv
  <1>10. CASE CommitEffect(s, pending[s]) /\ conn[s] = "ok"
              /\ status' = [status EXCEPT ![s] = value]
              /\ (there = "fail" => conn'[s] = "broken")
    <2>1. status'[s] = value /\ status[s] = "running"
      BY <1>1, <1>10 DEF TypeOK, SessionInv, RowFollowsRun
    <2>2. \A n \in Nodes : node[s][n] \in {"done", "raised"} => records'[s][n] = ran[s][n]
      BY <1>1, <1>10 DEF SessionInv, NothingForgotten, StoredOrAdded, CommitEffect
    <2>3. FinishedRecorded(s)' /\ RowFollowsRun(s)'
      BY <1>4, <1>10, <2>2 DEF FinishedRecorded, RowFollowsRun
    <2>4. AskedSucceeded(s)'
      BY <1>1, <1>4, <2>1 DEF SessionInv, AskedSucceeded
    <2>5. FailureExplained(s)'
      <3>1. pc'[s] = "fail" => conn'[s] = "broken"
        BY <1>4, <1>10
      <3>2. ASSUME NEW n \in Experts, node[s][n] = "raised" PROVE FailedExperts(s)' # {}
        <4>1. records'[s][n] = "failed"
          BY <1>1, <2>2, <3>2, NodeFacts DEF SessionInv, OutcomeKnown
        <4>2. QED
          BY <4>1 DEF FailedExperts
      <3>3. ASSUME \A n \in request[s].experts : node[s][n] = "done"
            PROVE  request[s].experts \subseteq SuccessResults(s)'
        <4>1. request[s].experts \subseteq Experts
          BY <1>1 DEF TypeOK, Requests
        <4>2. \A n \in request[s].experts : records'[s][n] = "success"
          BY <1>1, <2>2, <3>3, <4>1, NodeFacts DEF SessionInv, OutcomeKnown
        <4>3. QED
          BY <4>1, <4>2 DEF SuccessResults
      <3>4. value = "failed" =>
              FailedExperts(s)' # {} \/ request[s].experts \subseteq SuccessResults(s)'
        BY <1>1, <1>10, <3>2, <3>3 DEF SessionInv, FailureExplained
      <3>5. QED
        BY <2>1, <3>1, <3>4 DEF FailureExplained
    <2>6. OneSession(s)
      BY <1>1, <1>10, <2>1 DEF TypeOK, OneSession, CommitEffect, Goto
    <2>7. QED
      BY <1>5, <1>7, <1>8, <2>3, <2>4, <2>5, <2>6 DEF StepKeeps, SessionInv
  <1>11. QED
    BY <1>2, <1>9, <1>10

LEMMA UpdateSessionStep ==
  ASSUME ResearchInv, NEW s \in SessionIds, UpdateSession(s)
  PROVE  StepKeeps(s) /\ request' = request
  <1>1. pc[s] = "update" /\ UNCHANGED <<request, node, ran, answer, crashes>>
    BY DEF UpdateSession
  <1>2. OverallStatus(s) = "completed"
    <2>1. /\ request[s].experts # {} /\ request[s].experts \subseteq Experts
          /\ \A n \in request[s].experts : ran[s][n] = "success"
      BY <1>1 DEF ResearchInv, SessionInv, Asked, AskedSucceeded, TypeOK, Requests
    <2>2. PICK n \in Experts : ran[s][n] = "success"
      BY <2>1
    <2>3. QED
      BY <2>2 DEF OverallStatus, Results
  <1>3. CASE WriteStatus(s, "completed") /\ Goto(s, "returned")
    BY <1>1, <1>3, WriteStep
  <1>4. CASE WriteRaises(s, "completed") /\ Goto(s, "fail")
    BY <1>1, <1>4, WriteStep
  <1>5. QED
    BY <1>2, <1>3, <1>4 DEF UpdateSession

LEMMA UpdateFailedStep ==
  ASSUME ResearchInv, NEW s \in SessionIds, UpdateFailed(s)
  PROVE  StepKeeps(s) /\ request' = request
  BY WriteStep DEF UpdateFailed

LEMMA SessionStep ==
  ASSUME ResearchInv, NEW s \in SessionIds, Step(s)
  PROVE  StepKeeps(s) /\ request' = request
  BY SaveSessionStep, RunNodeStep, SaveNodeStep, CancelSiblingsStep, GraphMovesStep,
     UpdateSessionStep, UpdateFailedStep
     DEF Step

LEMMA CrashStep ==
  ASSUME ResearchInv, Crash
  PROVE  /\ TypeOK' /\ \A s \in SessionIds : SessionInv(s)'
         /\ UNCHANGED <<status, request, ran>>
  <1>1. /\ crashes' = crashes + 1
        /\ UNCHANGED <<status, request, records, node, ran, answer, pending, conn, faults>>
        /\ pc' = [s \in SessionIds |-> IF s \in Active THEN "lost" ELSE pc[s]]
    BY DEF Crash, tables
  <1>2. TypeOK'
    BY <1>1 DEF ResearchInv, TypeOK
  <1>3. ASSUME NEW s \in SessionIds PROVE SessionInv(s)'
    <2>1. pc'[s] \in {"unused", "returned", "raised", "lost"} /\ (pc'[s] = "unused" => pc[s] = "unused")
          /\ (pc[s] = "unused" => pc'[s] = "unused")
      BY <1>1 DEF Active, ResearchInv, TypeOK
    <2>2. SessionInv(s)
      BY DEF ResearchInv
    <2>3. QED
      BY <1>1, <2>1, <2>2
         DEF SessionInv, Fresh, RowFollowsRun, OutcomeKnown, RecordsTrue, StoredOrAdded,
             NothingForgotten, FinishedRecorded, BarrierPassed, AskedSucceeded, FailureExplained,
             FailedExperts, SuccessResults, Asked
  <1>4. QED
    BY <1>1, <1>2, <1>3

-----------------------------------------------------------------------------
(* Steps of the whole system. *)

LEMMA OthersKept ==
  ASSUME ResearchInv, NEW s \in SessionIds, StepKeeps(s)
  PROVE  /\ TypeOK' /\ \A t \in SessionIds : SessionInv(t)'
         /\ \A t \in SessionIds : status[t] \in {"completed", "failed"} =>
              status'[t] = status[t] /\ ran'[t] = ran[t]
  <1>1. SessionInv(s)' /\ OneSession(s) /\ TypeOK'
    BY DEF StepKeeps
  <1>2. ASSUME NEW t \in SessionIds \ {s} PROVE SessionInv(t)'
    BY <1>1, Untouched DEF ResearchInv, OneSession
  <1>3. QED
    BY <1>1, <1>2 DEF OneSession

\* What a retry is told about its source does not change any more.
LEMMA LineageKept ==
  ASSUME ResearchInv, NEW t \in SessionIds, request'[t] = request[t],
         \A p \in SessionIds : status[p] \in {"completed", "failed"} =>
           status'[p] = status[p] /\ ran'[p] = ran[p]
  PROVE  Lineage(t)'
  BY DEF ResearchInv, Lineage

LEMMA RetryStep ==
  ASSUME ResearchInv, NEW s \in SessionIds, NEW p \in SessionIds, Retry(s, p)
  PROVE  StepKeeps(s) /\ Lineage(s)' /\ \A t \in SessionIds \ {s} : request'[t] = request[t]
  <1>1. /\ status[p] = "failed" /\ FailedExperts(p) # {}
        /\ \E skip \in BOOLEAN :
             StartRun(s, [experts |-> FailedExperts(p), reused |-> SuccessResults(p),
                          skip_debate |-> skip, parent |-> p,
                          retry_count |-> request[p].retry_count + 1])
    BY DEF Retry, Retryable
  <1>2. PICK skip \in BOOLEAN :
          StartRun(s, [experts |-> FailedExperts(p), reused |-> SuccessResults(p),
                       skip_debate |-> skip, parent |-> p,
                       retry_count |-> request[p].retry_count + 1])
    BY <1>1
  <1> DEFINE r == [experts |-> FailedExperts(p), reused |-> SuccessResults(p),
                   skip_debate |-> skip, parent |-> p,
                   retry_count |-> request[p].retry_count + 1]
  <1>3. r \in Requests /\ r.experts # {}
    <2>1. request[p].retry_count + 1 \in Nat
      BY DEF ResearchInv, TypeOK, Requests
    <2>2. FailedExperts(p) \in SUBSET Experts /\ SuccessResults(p) \in SUBSET Experts
      BY DEF FailedExperts, SuccessResults
    <2>3. QED
      BY <1>1, <2>1, <2>2 DEF Requests
  <1>4. StepKeeps(s) /\ request'[s] = r
    BY <1>2, <1>3, StartRunStep
  <1>5. \A n \in Experts : records[p][n] # "none" => records[p][n] = ran[p][n]
    BY NodeFacts DEF ResearchInv, SessionInv, RecordsTrue
  <1>6. status'[p] = "failed" /\ ran'[p] = ran[p]
    BY <1>1, <1>4, OthersKept
  <1>7. Lineage(s)'
    BY <1>4, <1>5, <1>6 DEF Lineage, FailedExperts, SuccessResults
  <1>8. QED
    BY <1>4, <1>7 DEF StepKeeps, OneSession

LEMMA ExecuteStep ==
  ASSUME ResearchInv, NEW s \in SessionIds, Execute(s)
  PROVE  StepKeeps(s) /\ Lineage(s)' /\ \A t \in SessionIds \ {s} : request'[t] = request[t]
  <1>1. PICK E \in (SUBSET Experts) \ {{}}, skip \in BOOLEAN :
          StartRun(s, [Blank EXCEPT !.experts = E, !.skip_debate = skip])
    BY DEF Execute
  <1> DEFINE r == [Blank EXCEPT !.experts = E, !.skip_debate = skip]
  <1>2. r \in Requests /\ r.experts # {} /\ r.parent = NoParent
    BY DEF Blank, Requests
  <1>3. StepKeeps(s) /\ request'[s] = r
    BY <1>1, <1>2, StartRunStep
  <1>4. Lineage(s)'
    BY <1>2, <1>3 DEF Lineage
  <1>5. QED
    BY <1>3, <1>4 DEF StepKeeps, OneSession

LEMMA ResearchInvInit == Init => ResearchInv
  <1> SUFFICES ASSUME Init PROVE ResearchInv
    OBVIOUS
  <1>1. TypeOK
    BY DEF Init, TypeOK, Requests, Blank
  <1>2. ASSUME NEW s \in SessionIds PROVE SessionInv(s) /\ Lineage(s)
    BY DEF Init, Blank, SessionInv, Fresh, RowFollowsRun, OutcomeKnown, RecordsTrue,
           StoredOrAdded, NothingForgotten, FinishedRecorded, BarrierPassed, AskedSucceeded,
           FailureExplained, FailedExperts, SuccessResults, Asked, Lineage
  <1>3. QED
    BY <1>1, <1>2 DEF ResearchInv

\* Every step keeps the invariant, and every finished row.
LEMMA ResearchInvNext ==
  ResearchInv /\ [Next]_vars =>
    /\ ResearchInv'
    /\ \A s \in SessionIds : status[s] \in {"completed", "failed"} => status'[s] = status[s]
  <1> SUFFICES ASSUME ResearchInv, [Next]_vars
               PROVE  /\ ResearchInv'
                      /\ \A s \in SessionIds :
                           status[s] \in {"completed", "failed"} => status'[s] = status[s]
    OBVIOUS
  <1>1. ASSUME NEW s \in SessionIds, StepKeeps(s), Lineage(s)',
               \A t \in SessionIds \ {s} : request'[t] = request[t]
        PROVE  /\ ResearchInv'
               /\ \A t \in SessionIds :
                    status[t] \in {"completed", "failed"} => status'[t] = status[t]
    BY <1>1, OthersKept, LineageKept DEF ResearchInv
  <1>2. ASSUME NEW s \in SessionIds, Step(s)
        PROVE  /\ ResearchInv'
               /\ \A t \in SessionIds :
                    status[t] \in {"completed", "failed"} => status'[t] = status[t]
    <2>1. StepKeeps(s) /\ request' = request
      BY <1>2, SessionStep
    <2>2. Lineage(s)'
      BY <2>1, OthersKept, LineageKept
    <2>3. QED
      BY <1>1, <2>1, <2>2
  <1>3. CASE Crash
    BY <1>3, CrashStep, LineageKept DEF ResearchInv
  <1>4. CASE UNCHANGED vars
    <2>1. UNCHANGED <<status, request, records, pc, node, ran, answer, pending, conn, faults, crashes>>
      BY <1>4 DEF vars
    <2>2. TypeOK'
      BY <2>1 DEF ResearchInv, TypeOK
    <2>3. \A s \in SessionIds : SessionInv(s)'
      BY <2>1, Untouched DEF ResearchInv
    <2>4. \A s \in SessionIds : Lineage(s)'
      BY <2>1, LineageKept
    <2>5. QED
      BY <2>1, <2>2, <2>3, <2>4 DEF ResearchInv
  <1>5. QED
    BY <1>1, <1>2, <1>3, <1>4, ExecuteStep, RetryStep DEF Next

-----------------------------------------------------------------------------
(* The theorems. *)

\* The state of every request, row and record has the shape the code gives it.
THEOREM ResearchTypes == Spec => []TypeOK
  <1>1. ResearchInv => TypeOK
    BY DEF ResearchInv
  <1>2. QED
    BY <1>1, ResearchInvInit, ResearchInvNext, PTL DEF Spec

\* Once update_session has written completed or failed, node_executions holds
\* the outcome of every node that ran to its end, whatever became of the
\* nodes' own saves.
THEOREM TrailIsComplete == Spec => []FinishedHasRecords
  <1>1. ResearchInv => FinishedHasRecords
    BY DEF ResearchInv, SessionInv, FinishedRecorded, FinishedHasRecords
  <1>2. QED
    BY <1>1, ResearchInvInit, ResearchInvNext, PTL DEF Spec

\* A row that says failed comes with the record of a failed expert, so that
\* retry() accepts it, or with the successes of all experts that were asked:
\* when the update to completed gets no connection, the except clause writes
\* failed, and retry() refuses the session.
THEOREM FailuresTellWhy == Spec => []FailedTellsWhy
  <1>1. ResearchInv => FailedTellsWhy
    BY DEF ResearchInv, SessionInv, FailureExplained, FailedTellsWhy, Retryable
  <1>2. QED
    BY <1>1, ResearchInvInit, ResearchInvNext, PTL DEF Spec

\* run() completes a session only with a result of every expert it was asked for.
THEOREM CompletedIsComplete == Spec => []CompletedHasResults
  <1>1. ResearchInv => CompletedHasResults
    <2> SUFFICES ASSUME ResearchInv, NEW s \in SessionIds, status[s] = "completed"
                 PROVE  request[s].experts \subseteq Results(s)
      BY DEF CompletedHasResults
    <2>1. request[s].experts \subseteq Experts /\ \A n \in request[s].experts : ran[s][n] = "success"
      BY DEF ResearchInv, TypeOK, Requests, SessionInv, AskedSucceeded
    <2>2. QED
      BY <2>1 DEF Results
  <1>2. QED
    BY <1>1, ResearchInvInit, ResearchInvNext, PTL DEF Spec

\* retry() takes over only what an expert of its source has computed.
THEOREM RetryReusesComputed == Spec => []ReusedWereComputed
  <1>1. ResearchInv => ReusedWereComputed
    BY DEF ResearchInv, Lineage, ReusedWereComputed
  <1>2. QED
    BY <1>1, ResearchInvInit, ResearchInvNext, PTL DEF Spec

\* retry() asks no expert again that succeeded in its source.
THEOREM RetryRedoesNoSuccess == Spec => []SuccessNotRedone
  <1>1. ResearchInv => SuccessNotRedone
    BY DEF ResearchInv, Lineage, SuccessNotRedone
  <1>2. QED
    BY <1>1, ResearchInvInit, ResearchInvNext, PTL DEF Spec

\* A finished row is never reopened or overwritten.
THEOREM FinishedStays == Spec => FinishedIsFinal
  <1>1. ResearchInv /\ [Next]_vars =>
          [\A s \in SessionIds :
             status[s] \in {"completed", "failed"} => status'[s] = status[s]]_vars
    BY ResearchInvNext
  <1>2. QED
    BY <1>1, ResearchInvInit, ResearchInvNext, PTL DEF Spec, FinishedIsFinal
-----------------------------------------------------------------------------
(* What a retry leaves out.  A node of a finished row is over, whichever way  *)
(* the run ended: it has returned, raised, or been cancelled with its         *)
(* siblings, and the first two have a record that retry() finds.             *)

Over == {"done", "raised", "cancelled"}

NodesOver(s) ==
  /\ pc[s] = "graph" => \A n \in request[s].experts : node[s][n] # "idle"
  /\ pc[s] \in {"update", "fail"} \/ status[s] \in {"completed", "failed"} =>
       \A n \in request[s].experts : node[s][n] \in Over

LeavesOutCancelled(s) ==
  LET source == request[s].parent
  IN  source # NoParent =>
        \A n \in request[source].experts :
          \/ n \in request[s].experts \cup request[s].reused
          \/ node[source][n] = "cancelled"

RetryLeavesOutCancelled == \A s \in SessionIds : LeavesOutCancelled(s)

OverInv == ResearchInv /\ \A s \in SessionIds : NodesOver(s) /\ LeavesOutCancelled(s)

LEMMA GraphStepOver ==
  ASSUME ResearchInv, NEW s \in SessionIds, NodesOver(s), pc[s] = "graph",
         \/ RunNode(s) \/ (\E n \in Nodes : SaveNode(s, n)) \/ CancelSiblings(s)
         \/ Aggregate(s) \/ EnterJudge(s) \/ LeaveGraph(s)
  PROVE  NodesOver(s)'
  <1> DEFINE asked == request[s].experts
  <1>1. /\ asked \subseteq Experts /\ Experts \subseteq Nodes
        /\ "debate" \notin Experts /\ "judge" \notin Experts
        /\ status[s] = "running" /\ \A n \in asked : node[s][n] # "idle"
        /\ TypeOK /\ BarrierPassed(s)
    BY NodeFacts DEF ResearchInv, TypeOK, Requests, SessionInv, RowFollowsRun, NodesOver
  <1>2. request' = request /\ status' = status
    BY DEF RunNode, ExpertSucceeds, ExpertFails, DebateEnds, JudgeEnds, Finish, SaveNode,
       CancelSiblings, Aggregate, EnterJudge, LeaveGraph, tables
  <1>3. CASE RunNode(s)
    <2>1. PICK n \in Nodes, how \in {"success", "failed"} : Finish(s, n, how)
      BY <1>3, NodeFacts DEF RunNode, ExpertSucceeds, ExpertFails, DebateEnds, JudgeEnds
    <2>2. pc' = pc /\ node' = [node EXCEPT ![s][n] = "saving"]
      BY <2>1 DEF Finish
    <2>3. \A e \in asked : node'[s][e] = "saving" \/ node'[s][e] = node[s][e]
      BY <1>1, <2>2 DEF TypeOK
    <2>4. QED
      BY <1>1, <1>2, <2>2, <2>3 DEF NodesOver
  <1>4. ASSUME NEW n \in Nodes, SaveNode(s, n) PROVE NodesOver(s)'
    <2>1. pc' = pc /\ node' = [node EXCEPT ![s][n] = Outcome(s, n)] /\ Outcome(s, n) \in Over
      BY <1>4 DEF SaveNode, Outcome, Over
    <2>2. \A e \in asked : node'[s][e] \in Over \/ node'[s][e] = node[s][e]
      BY <1>1, <2>1 DEF TypeOK
    <2>3. QED
      BY <1>1, <1>2, <2>1, <2>2 DEF NodesOver, Over
  <1>5. CASE CancelSiblings(s)
    <2>1. /\ pc' = [pc EXCEPT ![s] = "fail"]
          /\ node' = [node EXCEPT ![s] =
               [n \in Nodes |-> IF @[n] \in {"running", "saving"} THEN "cancelled" ELSE @[n]]]
      BY <1>5 DEF CancelSiblings, Goto
    <2>2. \A e \in asked : node'[s][e] \in Over
      BY <1>1, <2>1 DEF TypeOK, Over
    <2>3. pc'[s] = "fail"
      BY <1>1, <2>1 DEF TypeOK
    <2>4. QED
      BY <1>2, <2>2, <2>3 DEF NodesOver
  <1>6. CASE Aggregate(s)
    <2>1. \A e \in asked : node[s][e] = "done"
      BY <1>6 DEF Aggregate, Done
    <2>2. node' = node \/ node' = [node EXCEPT ![s]["debate"] = "running"]
      BY <1>6 DEF Aggregate
    <2>3. \A e \in asked : node'[s][e] = "done"
      BY <1>1, <2>1, <2>2 DEF TypeOK
    <2>4. QED
      BY <1>2, <2>3 DEF NodesOver, Over
  <1>7. CASE EnterJudge(s)
    <2>1. pc' = pc /\ node' = [node EXCEPT ![s]["judge"] = "running"]
      BY <1>7 DEF EnterJudge
    <2>2. \A e \in asked : node'[s][e] = node[s][e]
      BY <1>1, <2>1 DEF TypeOK
    <2>3. QED
      BY <1>1, <1>2, <2>1, <2>2 DEF NodesOver
  <1>8. CASE LeaveGraph(s)
    <2>1. node[s]["judge"] # "idle" /\ node' = node
      BY <1>8 DEF LeaveGraph, Done
    <2>2. \A e \in asked : node'[s][e] = "done"
      BY <1>1, <2>1 DEF BarrierPassed
    <2>3. QED
      BY <1>2, <2>2 DEF NodesOver, Over
  <1>9. QED
    BY <1>3, <1>4, <1>5, <1>6, <1>7, <1>8

\* A step of a session's run, outside the graph too; of a finished row that can
\* be retried nothing is at work any more.
LEMMA StepOver ==
  ASSUME ResearchInv, NEW s \in SessionIds, NodesOver(s), Step(s)
  PROVE  NodesOver(s)' /\ (status[s] = "failed" => node'[s] = node[s])
  <1>1. SessionInv(s) /\ TypeOK
    BY DEF ResearchInv
  <1>2. CASE SaveSession(s)
    <2>1. pc[s] = "create" /\ status[s] = "absent" /\ request' = request
      BY <1>1, <1>2 DEF SaveSession, SessionInv, Fresh
    <2>2. status'[s] \in {"absent", "running"} /\ pc'[s] \in {"graph", "raised"}
      BY <1>1, <1>2, <2>1 DEF SaveSession, Goto, TypeOK
    <2>3. pc'[s] = "graph" => \A n \in request[s].experts : node'[s][n] = "running"
      BY <1>1, <1>2, <2>1, NodeFacts DEF SaveSession, Goto, TypeOK, Requests
    <2>4. QED
      BY <2>1, <2>2, <2>3 DEF NodesOver
  <1>3. CASE pc[s] = "graph" /\ ~SaveSession(s)
    <2>1. \/ RunNode(s) \/ (\E n \in Nodes : SaveNode(s, n)) \/ CancelSiblings(s)
          \/ Aggregate(s) \/ EnterJudge(s) \/ LeaveGraph(s)
      BY <1>3 DEF Step, UpdateSession, UpdateFailed
    <2>2. QED
      BY <1>1, <1>3, <2>1, GraphStepOver DEF SessionInv, RowFollowsRun
  <1>4. CASE UpdateSession(s) \/ UpdateFailed(s)
    <2>1. pc[s] \in {"update", "fail"} /\ node' = node /\ request' = request
      BY <1>4 DEF UpdateSession, UpdateFailed
    <2>2. pc'[s] # "graph"
      BY <1>1, <1>4 DEF UpdateSession, UpdateFailed, Goto, TypeOK
    <2>3. QED
      BY <2>1, <2>2 DEF NodesOver
  <1>5. pc[s] = "graph" \/ SaveSession(s) \/ UpdateSession(s) \/ UpdateFailed(s)
    BY DEF Step, RunNode, SaveNode, CancelSiblings, Aggregate, EnterJudge, LeaveGraph
  <1>6. QED
    BY <1>2, <1>3, <1>4, <1>5

LEMMA StartOver ==
  ASSUME ResearchInv, NEW s \in SessionIds, NEW r, StartRun(s, r)
  PROVE  NodesOver(s)' /\ node' = node /\ status[s] = "absent"
  <1>1. pc[s] = "unused" /\ pc' = [pc EXCEPT ![s] = "create"] /\ UNCHANGED <<status, node>>
    BY DEF StartRun, Goto, tables
  <1>2. status[s] = "absent" /\ pc'[s] = "create"
    BY <1>1 DEF ResearchInv, SessionInv, Fresh, TypeOK
  <1>3. QED
    BY <1>1, <1>2 DEF NodesOver

\* What a retry has left out stays what it was.
LEMMA LeftOutKept ==
  ASSUME OverInv, NEW t \in SessionIds, request'[t] = request[t],
         \A p \in SessionIds : status[p] = "failed" =>
           request'[p] = request[p] /\ node'[p] = node[p]
  PROVE  LeavesOutCancelled(t)'
  <1>1. request[t].parent # NoParent =>
          request[t].parent \in SessionIds /\ status[request[t].parent] = "failed"
    BY DEF OverInv, ResearchInv, Lineage
  <1>2. QED
    BY <1>1 DEF OverInv, LeavesOutCancelled

LEMMA RetryLeavesOut ==
  ASSUME OverInv, NEW s \in SessionIds, NEW p \in SessionIds, Retry(s, p)
  PROVE  LeavesOutCancelled(s)'
  <1>1. /\ status[p] = "failed"
        /\ \E skip \in BOOLEAN :
             StartRun(s, [experts |-> FailedExperts(p), reused |-> SuccessResults(p),
                          skip_debate |-> skip, parent |-> p,
                          retry_count |-> request[p].retry_count + 1])
    BY DEF Retry, Retryable
  <1>2. PICK skip \in BOOLEAN :
          StartRun(s, [experts |-> FailedExperts(p), reused |-> SuccessResults(p),
                       skip_debate |-> skip, parent |-> p,
                       retry_count |-> request[p].retry_count + 1])
    BY <1>1
  <1>3. s # p /\ node' = node
    BY <1>1, <1>2, StartOver DEF OverInv
  <1>4. /\ request'[p] = request[p] /\ request'[s].parent = p
        /\ request'[s].experts = FailedExperts(p) /\ request'[s].reused = SuccessResults(p)
    BY <1>2, <1>3 DEF StartRun, OverInv, ResearchInv, TypeOK
  <1>5. ASSUME NEW n \in request[p].experts, node[p][n] # "cancelled"
        PROVE  n \in FailedExperts(p) \cup SuccessResults(p)
    <2>1. n \in Experts /\ n \in Nodes /\ node[p][n] \in {"done", "raised"}
      BY <1>1, <1>5, NodeFacts DEF OverInv, NodesOver, Over, ResearchInv, TypeOK, Requests
    <2>2. records[p][n] = ran[p][n] /\ ran[p][n] \in {"success", "failed"}
      BY <1>1, <2>1 DEF OverInv, ResearchInv, SessionInv, FinishedRecorded, OutcomeKnown
    <2>3. QED
      BY <2>1, <2>2 DEF FailedExperts, SuccessResults
  <1>6. QED
    BY <1>3, <1>4, <1>5 DEF LeavesOutCancelled

LEMMA OverInvInit == Init => OverInv
  <1> SUFFICES ASSUME Init PROVE OverInv
    OBVIOUS
  <1>1. ASSUME NEW s \in SessionIds PROVE NodesOver(s) /\ LeavesOutCancelled(s)
    BY DEF Init, NodesOver, LeavesOutCancelled, Blank
  <1>2. QED
    BY <1>1, ResearchInvInit DEF OverInv

LEMMA OverInvNext == OverInv /\ [Next]_vars => OverInv'
  <1> SUFFICES ASSUME OverInv, [Next]_vars PROVE OverInv'
    OBVIOUS
  <1>1. ResearchInv /\ ResearchInv' /\ \A t \in SessionIds : NodesOver(t) /\ LeavesOutCancelled(t)
    BY ResearchInvNext DEF OverInv
  <1>2. ASSUME NEW s \in SessionIds, StepKeeps(s), NodesOver(s)', request' = request,
               status[s] = "failed" => node'[s] = node[s]
        PROVE  OverInv'
    <2>1. \A t \in SessionIds \ {s} : UNCHANGED <<status[t], pc[t], node[t]>>
      BY <1>2 DEF StepKeeps, OneSession
    <2>2. \A t \in SessionIds : NodesOver(t)'
      BY <1>1, <1>2, <2>1 DEF NodesOver
    <2>3. \A t \in SessionIds : LeavesOutCancelled(t)'
      BY <1>2, <2>1, LeftOutKept
    <2>4. QED
      BY <1>1, <2>2, <2>3 DEF OverInv
  <1>3. ASSUME NEW s \in SessionIds, StepKeeps(s), NodesOver(s)', node' = node,
               status[s] = "absent", LeavesOutCancelled(s)'
        PROVE  OverInv'
    <2>1. \A t \in SessionIds \ {s} : UNCHANGED <<status[t], request[t], pc[t], node[t]>>
      BY <1>3 DEF StepKeeps, OneSession
    <2>2. \A t \in SessionIds : NodesOver(t)'
      BY <1>1, <1>3, <2>1 DEF NodesOver
    <2>3. \A t \in SessionIds : LeavesOutCancelled(t)'
      BY <1>3, <2>1, LeftOutKept
    <2>4. QED
      BY <1>1, <2>2, <2>3 DEF OverInv
  <1>4. ASSUME NEW s \in SessionIds, Step(s) PROVE OverInv'
    BY <1>1, <1>2, <1>4, SessionStep, StepOver
  <1>5. ASSUME NEW s \in SessionIds, Execute(s) PROVE OverInv'
    <2>1. StepKeeps(s) /\ NodesOver(s)' /\ node' = node /\ status[s] = "absent"
      BY <1>1, <1>5, ExecuteStep, StartOver DEF Execute
    <2>2. request'[s].parent = NoParent
      BY <1>1, <1>5 DEF Execute, StartRun, Blank, ResearchInv, TypeOK
    <2>3. LeavesOutCancelled(s)'
      BY <2>2 DEF LeavesOutCancelled
    <2>4. QED
      BY <1>3, <2>1, <2>3
  <1>6. ASSUME NEW s \in SessionIds, NEW p \in SessionIds, Retry(s, p) PROVE OverInv'
    <2>1. StepKeeps(s) /\ NodesOver(s)' /\ node' = node /\ status[s] = "absent"
      BY <1>1, <1>6, RetryStep, StartOver DEF Retry
    <2>2. QED
      BY <1>3, <1>6, <2>1, RetryLeavesOut
  <1>7. CASE Crash
    <2>1. UNCHANGED <<status, request, node>>
      BY <1>7 DEF Crash, tables
    <2>2. \A s \in SessionIds : pc'[s] = pc[s] \/ pc'[s] = "lost"
      BY <1>1, <1>7 DEF Crash, Active
    <2>3. \A s \in SessionIds : NodesOver(s)'
      BY <1>1, <2>1, <2>2 DEF NodesOver
    <2>4. QED
      BY <1>1, <2>1, <2>3, LeftOutKept DEF OverInv
  <1>8. CASE UNCHANGED vars
    <2>1. UNCHANGED <<status, request, pc, node>>
      BY <1>8 DEF vars
    <2>2. QED
      BY <1>1, <2>1 DEF OverInv, NodesOver, LeavesOutCancelled
  <1>9. QED
    BY <1>4, <1>5, <1>6, <1>7, <1>8 DEF Next

\* The experts that a retry neither asks again nor takes over, which it should
\* by the description of the endpoint, are none but those whose node was
\* cancelled when a sibling raised: no other way for a run to end loses one.
THEOREM OnlyCancelledAreLeftOut == Spec => []RetryLeavesOutCancelled
  <1>1. OverInv => RetryLeavesOutCancelled
    BY DEF OverInv, RetryLeavesOutCancelled
  <1>2. QED
    BY <1>1, OverInvInit, OverInvNext, PTL DEF Spec
=============================================================================
