-------------------------- MODULE SyncEngineProofs --------------------------
(***************************************************************************)
(* What holds of the history sync for every number of calls, stocks, rows   *)
(* and faults.                                                             *)
(***************************************************************************)
EXTENDS SyncEngine, SequenceTheorems, FiniteSetTheorems, TLAPS

USE DEF DAILY, FINANCE

-----------------------------------------------------------------------------
(* Facts about the operators. *)

LEMMA StaleAgeNat == StaleAge \in Nat
  BY TimeAssumption DEF StaleAge

\* The SyncTask methods return a SyncTask.
LEMMA TaskMethods ==
  ASSUME NEW task \in SyncTask, NEW n \in Nat, clock \in Nat
  PROVE  /\ Started(task) \in SyncTask
         /\ Progressed(task, n) \in SyncTask
         /\ Completed(task) \in SyncTask
         /\ Failed(task) \in SyncTask
         /\ Paused(task) \in SyncTask
         /\ Older(task) \in SyncTask
  <1>1. StaleAge \in Nat
    BY StaleAgeNat
  <1>2. task.bs \in Nat
    BY BatchAssumption DEF SyncTask
  <1>3. 0 \in 0..StaleAge /\ task.offset + task.bs \in Nat /\ task.processed + n \in Nat
    BY <1>1, <1>2 DEF SyncTask
  <1>4. Started(task) \in SyncTask
    BY <1>3, clock + 1 \in Nat DEF SyncTask, Statuses, Started
  <1>5. Progressed(task, n) \in SyncTask
    BY <1>3 DEF SyncTask, Statuses, Progressed
  <1>6. Completed(task) \in SyncTask
    BY <1>3 DEF SyncTask, Statuses, Completed
  <1>7. Failed(task) \in SyncTask
    BY <1>3 DEF SyncTask, Statuses, Failed
  <1>8. Paused(task) \in SyncTask
    BY <1>3 DEF SyncTask, Statuses, Paused
  <1>9. Older(task) \in SyncTask
    <2>1. (IF task.age < StaleAge THEN task.age + 1 ELSE task.age) \in 0..StaleAge
      BY <1>1 DEF SyncTask
    <2>2. QED
      BY <2>1 DEF SyncTask, Older
  <1>10. QED
    BY <1>4, <1>5, <1>6, <1>7, <1>8, <1>9

LEMMA NewTaskType ==
  ASSUME NEW bs \in BatchSizes, clock \in Nat
  PROVE  NewTask(bs) \in SyncTask
  BY StaleAgeNat DEF SyncTask, Statuses, NewTask

\* N is a length.
LEMMA NNat == N \in Nat
  BY RowsAssumption, LenProperties DEF N

\* What get_all returns: the stocks after the offset, at most bs of them.
LEMMA PageFacts ==
  ASSUME order \in [1..N -> Stocks], NEW off \in Nat, NEW bs \in Nat \ {0}
  PROVE  /\ PageAt(off, bs) \in Seq(Stocks)
         /\ Len(PageAt(off, bs)) = IF off >= N THEN 0 ELSE IF off + bs < N THEN bs ELSE N - off
         /\ \A i \in 1..Len(PageAt(off, bs)) : off + i \in 1..N /\ PageAt(off, bs)[i] = order[off + i]
  <1> DEFINE last == IF off + bs < N THEN off + bs ELSE N
  <1>1. N \in Nat
    BY NNat
  <1>2. off + 1 \in Int /\ last \in Int /\ \A i \in (off + 1)..last : order[i] \in Stocks
    BY <1>1
  <1> HIDE DEF last
  <1>3. /\ SubSeq(order, off + 1, last) \in Seq(Stocks)
        /\ Len(SubSeq(order, off + 1, last)) = IF off + 1 <= last THEN last - (off + 1) + 1 ELSE 0
        /\ \A i \in 1..(last - (off + 1) + 1) : SubSeq(order, off + 1, last)[i] = order[off + 1 + i - 1]
    BY <1>2, SubSeqProperties
  <1>4. PageAt(off, bs) = SubSeq(order, off + 1, last)
    BY DEF PageAt, last
  <1>5. QED
    BY <1>1, <1>3, <1>4 DEF last

-----------------------------------------------------------------------------
(* Type correctness. *)

\* What a call under way has at hand.
LEMMA AtHand ==
  ASSUME TypeOK, NEW w \in Workers, pc[w] # "idle"
  PROVE  id[w] \in TaskIds /\ mem[w] \in SyncTask /\ id[w] # NoTask /\ mem[w] # NoTask
  BY IdAssumption, NoTaskAssumption DEF TypeOK

\* Writing a row, or failing to, keeps the table a table and loses no row.
LEMMA WriteType ==
  ASSUME TypeOK, NEW w \in Workers, pc[w] # "idle",
         WriteRow(w) \/ UpdateRaises(w)
  PROVE  /\ tasks' \in [TaskIds -> SyncTask \cup {NoTask}]
         /\ \A t \in TaskIds : tasks[t] # NoTask => tasks'[t] # NoTask
         /\ WriteRow(w) => tasks'[id[w]] # NoTask
  <1>1. id[w] \in TaskIds /\ mem[w] \in SyncTask /\ mem[w] # NoTask
    BY AtHand
  <1>2. WriteRow(w) \/ UNCHANGED tasks
    BY DEF UpdateRaises
  <1>3. QED
    BY <1>1, <1>2 DEF TypeOK, WriteRow

\* A statement leaves the session and the fault counter well-typed.
LEMMA StatementType ==
  ASSUME TypeOK, NEW w \in Workers,
         StatementRuns(w) \/ StatementRaises(w) \/ CheckoutFails(w) \/ UpdateRaises(w)
  PROVE  /\ session' \in [Workers -> {"ok", "aborted"}]
         /\ faults' \in Nat
  <1>1. session' \in [Workers -> {"ok", "aborted"}]
    BY DEF TypeOK, StatementRuns, StatementRaises, CheckoutFails, UpdateRaises
  <1>2. faults' \in Nat
    BY DEF TypeOK, StatementRuns, StatementRaises, CheckoutFails, UpdateRaises, Fault, NoFault
  <1>3. QED
    BY <1>1, <1>2

\* What a step of w does to its own variables, typed; nobody else's change.
LocalType(w) ==
  /\ pc' \in [Workers -> {"idle"} \cup Entering \cup InLoop]
  /\ id' \in [Workers -> TaskIds \cup {NoTask}]
  /\ mem' \in [Workers -> SyncTask \cup {NoTask}]
  /\ page' \in [Workers -> Seq(Stocks)]
  /\ pos' \in [Workers -> Nat \ {0}]
  /\ count' \in [Workers -> Nat]
  /\ outcome' \in [Workers -> {"none", "rejected", "completed", "raised"}]
  /\ pc'[w] # "idle" => id'[w] \in TaskIds /\ mem'[w] \in SyncTask
  /\ \A v \in Workers : v # w => pc'[v] = pc[v] /\ id'[v] = id[v] /\ mem'[v] = mem[v]

LEMMA EndCallType ==
  ASSUME TypeOK, NEW w \in Workers,
         NEW how \in {"completed", "raised"}, EndCall(w, how)
  PROVE  LocalType(w) /\ pc'[w] = "idle"
  BY DEF TypeOK, EndCall, LocalType

LEMMA ExceptType ==
  ASSUME TypeOK, NEW w \in Workers, pc[w] # "idle", Except(w)
  PROVE  LocalType(w) /\ pc'[w] = "fail" /\ id'[w] = id[w]
  <1>1. Failed(mem[w]) \in SyncTask
    BY AtHand, TaskMethods DEF TypeOK
  <1>2. QED
    BY <1>1, AtHand DEF TypeOK, Except, LocalType, InLoop

\* The shape the step of one call preserves, from its parts.
LEMMA StepType ==
  ASSUME TypeOK, NEW w \in Workers, LocalType(w),
         tasks' \in [TaskIds -> SyncTask \cup {NoTask}],
         \A t \in TaskIds : tasks[t] # NoTask => tasks'[t] # NoTask,
         pc'[w] \in {"pause", "start"} \cup InLoop => tasks'[id'[w]] # NoTask,
         order' = order, saved' \subseteq Stocks,
         session' \in [Workers -> {"ok", "aborted"}],
         attempted' \in [TaskIds -> SUBSET Stocks],
         clock' \in Nat, faults' \in Nat, crashes' = crashes, moves' = moves
  PROVE  TypeOK'
  <1>1. \A v \in Workers :
          /\ pc'[v] # "idle" => id'[v] \in TaskIds /\ mem'[v] \in SyncTask
          /\ pc'[v] \in {"pause", "start"} \cup InLoop => tasks'[id'[v]] # NoTask
    BY DEF TypeOK, LocalType, InLoop
  <1>2. order' \in [1..N -> Stocks] /\ crashes' \in Nat /\ moves' \in Nat
    BY DEF TypeOK
  <1>3. QED
    BY <1>1, <1>2 DEF TypeOK, LocalType

LEMMA TypeInit == Init => TypeOK
  <1> SUFFICES ASSUME Init PROVE TypeOK
    OBVIOUS
  <1>1. order \in [1..N -> Stocks]
    BY RowsAssumption, LenProperties DEF Init, N, Stocks
  <1>2. <<>> \in Seq(Stocks)
    OBVIOUS
  <1>3. QED
    BY <1>1, <1>2 DEF Init, TypeOK, InLoop

LEMMA TypeBegin ==
  ASSUME TypeOK, NEW w \in Workers, Begin(w)
  PROVE  TypeOK'
  <1> USE DEF OpenSession, Goto, MayEnter, table, budget, Entering, InLoop
  <1>1. CASE Reject(w)
    <2>1. LocalType(w)
      BY <1>1 DEF Reject, TypeOK, LocalType
    <2>2. QED
      BY <1>1, <2>1, StepType DEF Reject, TypeOK
  <1>2. CASE BeginPause(w)
    <2>1. PICK t \in TaskIds :
             /\ tasks[t] # NoTask
             /\ id' = [id EXCEPT ![w] = t]
             /\ mem' = [mem EXCEPT ![w] = Paused(tasks[t])]
      BY <1>2 DEF BeginPause, IsLatest, Rows
    <2>2. Paused(tasks[t]) \in SyncTask
      BY <2>1, TaskMethods DEF TypeOK
    <2>3. LocalType(w)
      BY <1>2, <2>1, <2>2 DEF BeginPause, TypeOK, LocalType
    <2>4. tasks'[id'[w]] # NoTask
      BY <1>2, <2>1 DEF BeginPause, TypeOK
    <2>5. /\ UNCHANGED <<tasks, order, saved, attempted, faults, crashes, moves>>
          /\ session' \in [Workers -> {"ok", "aborted"}] /\ clock' = clock
      BY <1>2 DEF BeginPause, TypeOK
    <2>6. /\ tasks' \in [TaskIds -> SyncTask \cup {NoTask}]
          /\ saved' \subseteq Stocks /\ attempted' \in [TaskIds -> SUBSET Stocks]
          /\ clock' \in Nat /\ faults' \in Nat
      BY <2>5 DEF TypeOK
    <2>7. QED
      BY <2>3, <2>4, <2>5, <2>6, StepType
  <1>3. CASE BeginResume(w)
    <2>1. PICK t \in TaskIds :
             /\ tasks[t] # NoTask
             /\ id' = [id EXCEPT ![w] = t]
             /\ mem' = [mem EXCEPT ![w] = Started(tasks[t])]
      BY <1>3 DEF BeginResume, IsLatest, Rows
    <2>2. Started(tasks[t]) \in SyncTask
      BY <2>1, TaskMethods DEF TypeOK
    <2>3. LocalType(w)
      BY <1>3, <2>1, <2>2 DEF BeginResume, TypeOK, LocalType
    <2>4. tasks'[id'[w]] # NoTask
      BY <1>3, <2>1 DEF BeginResume, TypeOK
    <2>5. /\ UNCHANGED <<tasks, order, saved, attempted, faults, crashes, moves>>
          /\ session' \in [Workers -> {"ok", "aborted"}] /\ clock' = clock + 1
      BY <1>3 DEF BeginResume, TypeOK
    <2>6. /\ tasks' \in [TaskIds -> SyncTask \cup {NoTask}]
          /\ saved' \subseteq Stocks /\ attempted' \in [TaskIds -> SUBSET Stocks]
          /\ clock' \in Nat /\ faults' \in Nat
      BY <2>5 DEF TypeOK
    <2>7. QED
      BY <2>3, <2>4, <2>5, <2>6, StepType
  <1>4. CASE BeginCreate(w)
    <2>1. PICK t \in TaskIds \ Rows, bs \in BatchSizes :
             /\ id' = [id EXCEPT ![w] = t]
             /\ mem' = [mem EXCEPT ![w] = NewTask(bs)]
      BY <1>4 DEF BeginCreate
    <2>2. NewTask(bs) \in SyncTask
      BY NewTaskType DEF TypeOK
    <2>3. LocalType(w)
      BY <1>4, <2>1, <2>2 DEF BeginCreate, TypeOK, LocalType
    <2>4. pc'[w] = "create"
      BY <1>4 DEF BeginCreate, TypeOK
    <2>5. /\ UNCHANGED <<tasks, order, saved, attempted, faults, crashes, moves>>
          /\ session' \in [Workers -> {"ok", "aborted"}] /\ clock' = clock + 1
      BY <1>4 DEF BeginCreate, TypeOK
    <2>6. /\ tasks' \in [TaskIds -> SyncTask \cup {NoTask}]
          /\ saved' \subseteq Stocks /\ attempted' \in [TaskIds -> SUBSET Stocks]
          /\ clock' \in Nat /\ faults' \in Nat
      BY <2>5 DEF TypeOK
    <2>7. QED
      BY <2>3, <2>4, <2>5, <2>6, StepType
  <1>5. QED
    BY <1>1, <1>2, <1>3, <1>4 DEF Begin

LEMMA TypeWrite ==
  ASSUME TypeOK, NEW w \in Workers,
         \/ WritePause(w) \/ WriteStart(w) \/ WriteProgress(w)
         \/ WriteComplete(w) \/ WriteFailed(w)
  PROVE  TypeOK'
  <1>1. pc[w] # "idle"
    BY DEF WritePause, WriteStart, WriteProgress, WriteComplete, WriteFailed
  <1>2. /\ tasks' \in [TaskIds -> SyncTask \cup {NoTask}]
        /\ \A t \in TaskIds : tasks[t] # NoTask => tasks'[t] # NoTask
        /\ WriteRow(w) => tasks'[id[w]] # NoTask
    BY <1>1, WriteType DEF WritePause, WriteStart, WriteProgress, WriteComplete, WriteFailed
  <1>3. session' \in [Workers -> {"ok", "aborted"}] /\ faults' \in Nat
    BY StatementType DEF WritePause, WriteStart, WriteProgress, WriteComplete, WriteFailed
  <1>4. order' = order /\ saved' \subseteq Stocks /\ attempted' \in [TaskIds -> SUBSET Stocks]
        /\ crashes' = crashes /\ moves' = moves
    BY DEF TypeOK, WritePause, WriteStart, WriteProgress, WriteComplete, WriteFailed
  <1>5. clock' \in Nat
    BY DEF TypeOK, WritePause, WriteStart, WriteProgress, WriteComplete, WriteFailed
  <1>6. LocalType(w) /\ (pc'[w] \in {"pause", "start"} \cup InLoop => tasks'[id'[w]] # NoTask)
    <2>1. CASE EndCall(w, "raised") \/ EndCall(w, "completed")
      BY <2>1, EndCallType DEF InLoop
    <2>2. CASE Except(w) /\ pc[w] \in InLoop
      BY <1>1, <1>2, <2>2, AtHand, ExceptType DEF TypeOK
    <2>3. CASE WritePause(w) /\ WriteRow(w) /\ mem' = [mem EXCEPT ![w] = Started(@)]
                 /\ Goto(w, "start") /\ UNCHANGED <<id, page, pos, count, outcome>>
      <3>1. Started(mem[w]) \in SyncTask
        BY <1>1, AtHand, TaskMethods DEF TypeOK
      <3>2. pc' = [pc EXCEPT ![w] = "start"] /\ "start" \in Entering
        BY <2>3 DEF Goto, Entering
      <3>3. LocalType(w)
        BY <1>1, <2>3, <3>1, <3>2, AtHand DEF TypeOK, LocalType
      <3>4. QED
        BY <1>2, <2>3, <3>3
    <2>4. CASE WriteRow(w) /\ Goto(w, "fetch") /\ UNCHANGED <<id, mem, page, pos, outcome>>
                 /\ (count' = count \/ count' = [count EXCEPT ![w] = 0])
      <3>1. pc' = [pc EXCEPT ![w] = "fetch"] /\ "fetch" \in InLoop
        BY <2>4 DEF Goto, InLoop
      <3>2. count' \in [Workers -> Nat]
        BY <2>4 DEF TypeOK
      <3>3. LocalType(w)
        BY <1>1, <2>4, <3>1, <3>2, AtHand DEF TypeOK, LocalType
      <3>4. QED
        BY <1>2, <2>4, <3>3
    <2>5. QED
      BY <2>1, <2>2, <2>3, <2>4
      DEF WritePause, WriteStart, WriteProgress, WriteComplete, WriteFailed, InLoop
  <1>7. QED
    BY <1>2, <1>3, <1>4, <1>5, <1>6, StepType

LEMMA TypeBatch ==
  ASSUME TypeOK, NEW w \in Workers, FetchPage(w) \/ SyncStock(w) \/ EndBatch(w)
  PROVE  TypeOK'
  <1> USE DEF Goto, table, budget
  <1>1. pc[w] \in InLoop /\ pc[w] # "idle"
    BY DEF FetchPage, SyncStock, EndBatch, InLoop
  <1>2. /\ id[w] \in TaskIds /\ mem[w] \in SyncTask /\ id[w] # NoTask /\ mem[w] # NoTask
        /\ tasks[id[w]] # NoTask
    BY <1>1, AtHand DEF TypeOK
  <1>3. CASE FetchPage(w)
    <2>1. CASE StatementRaises(w) /\ Except(w)
      <3>1. LocalType(w) /\ pc'[w] = "fail" /\ id'[w] = id[w]
        BY <1>1, <2>1, ExceptType
      <3>2. session' \in [Workers -> {"ok", "aborted"}] /\ faults' \in Nat
        BY <2>1, StatementType
      <3>3. QED
        BY <1>2, <1>3, <3>1, <3>2, StepType DEF FetchPage, TypeOK
    <2>2. CASE ~(StatementRaises(w) /\ Except(w))
      <3>1. mem[w].offset \in Nat /\ mem[w].bs \in Nat \ {0}
        BY <1>2, BatchAssumption DEF SyncTask
      <3>2. PageAt(mem[w].offset, mem[w].bs) \in Seq(Stocks)
        BY <3>1, PageFacts DEF TypeOK
      <3>3. pc'[w] = "stock" /\ LocalType(w)
        <4>1. /\ pc' = [pc EXCEPT ![w] = "stock"]
              /\ page' = [page EXCEPT ![w] = PageAt(mem[w].offset, mem[w].bs)]
              /\ pos' = [pos EXCEPT ![w] = 1]
              /\ count' = [count EXCEPT ![w] = 0]
              /\ UNCHANGED <<id, mem, outcome>>
          BY <1>3, <2>2 DEF FetchPage
        <4>2. "stock" \in InLoop
          BY DEF InLoop
        <4>3. QED
          BY <1>2, <3>2, <4>1, <4>2 DEF TypeOK, LocalType
      <3>4. session' \in [Workers -> {"ok", "aborted"}] /\ faults' \in Nat
        BY <1>3, <2>2, StatementType DEF FetchPage
      <3>5. id'[w] = id[w] /\ UNCHANGED <<tasks, order, saved, attempted, clock, crashes, moves>>
        BY <1>3, <2>2 DEF FetchPage
      <3>6. QED
        BY <1>2, <3>3, <3>4, <3>5, StepType DEF TypeOK
    <2>3. QED
      BY <2>1, <2>2
  <1>4. CASE SyncStock(w)
    <2>1. Stock(w) \in Stocks
      BY <1>4 DEF SyncStock, Stock, TypeOK
    <2>2. session' \in [Workers -> {"ok", "aborted"}] /\ faults' \in Nat
      <3>1. CASE UNCHANGED session
        BY <1>4, <3>1 DEF TypeOK, SyncStock, SaveStock, SkipStock, DailyStockFails,
           FinanceStockFails, StockRaises, StatementRuns, StatementRaises, CheckoutFails, Fault,
           NoFault
      <3>2. CASE StatementRaises(w)
        BY <3>2, StatementType
      <3>3. QED
        BY <1>4, <3>1, <3>2 DEF SyncStock, SaveStock, SkipStock, DailyStockFails,
           FinanceStockFails, StockRaises, StatementRuns, CheckoutFails
    <2>3. saved' \subseteq Stocks
      BY <1>4, <2>1 DEF TypeOK, SyncStock, SaveStock, SkipStock, DailyStockFails, FinanceStockFails
    <2>4. CASE Except(w) /\ UNCHANGED attempted
      <3>1. LocalType(w) /\ pc'[w] = "fail" /\ id'[w] = id[w]
        BY <1>1, <2>4, ExceptType
      <3>2. QED
        BY <1>2, <1>4, <2>2, <2>3, <2>4, <3>1, StepType DEF SyncStock, TypeOK
    <2>5. CASE NextStock(w) /\ count' \in [Workers -> Nat]
      <3>1. LocalType(w)
        BY <1>2, <2>5 DEF NextStock, TypeOK, LocalType
      <3>2. attempted' \in [TaskIds -> SUBSET Stocks]
        BY <1>2, <2>1, <2>5 DEF NextStock, TypeOK
      <3>3. UNCHANGED <<tasks, order, clock, crashes, moves, id>>
        BY <1>4, <2>5 DEF SyncStock, NextStock
      <3>4. tasks' \in [TaskIds -> SyncTask \cup {NoTask}] /\ clock' \in Nat
        BY <3>3 DEF TypeOK
      <3>5. QED
        BY <1>2, <2>2, <2>3, <3>1, <3>2, <3>3, <3>4, StepType
    <2>6. CASE SaveStock(w)
      <3>1. count' \in [Workers -> Nat]
        BY <2>6 DEF SaveStock, TypeOK
      <3>2. QED
        BY <2>5, <2>6, <3>1 DEF SaveStock
    <2>7. CASE SkipStock(w) \/ DailyStockFails(w)
      <3>1. count' \in [Workers -> Nat]
        BY <2>7 DEF SkipStock, DailyStockFails, TypeOK
      <3>2. QED
        BY <2>5, <2>7, <3>1 DEF SkipStock, DailyStockFails
    <2>8. CASE FinanceStockFails(w)
      BY <2>4, <2>8 DEF FinanceStockFails
    <2>9. QED
      BY <1>4, <2>6, <2>7, <2>8 DEF SyncStock
  <1>5. CASE EndBatch(w)
    <2>1. ProcessedCount(w) \in Nat
      BY DEF ProcessedCount, TypeOK
    <2>2. Completed(mem[w]) \in SyncTask /\ Progressed(mem[w], ProcessedCount(w)) \in SyncTask
      BY <1>2, <2>1, TaskMethods DEF TypeOK
    <2>3. mem' \in [Workers -> SyncTask \cup {NoTask}] /\ mem'[w] \in SyncTask
          /\ \A v \in Workers : v # w => mem'[v] = mem[v]
      <3>1. PICK task \in SyncTask : mem' = [mem EXCEPT ![w] = task]
        BY <1>5, <2>2 DEF EndBatch
      <3>2. QED
        BY <3>1 DEF TypeOK
    <2>4. pc' \in [Workers -> {"idle"} \cup Entering \cup InLoop] /\ pc'[w] \in InLoop
          /\ \A v \in Workers : v # w => pc'[v] = pc[v]
      BY <1>5 DEF EndBatch, TypeOK, InLoop
    <2>5. LocalType(w)
      BY <1>2, <1>5, <2>3, <2>4 DEF EndBatch, TypeOK, LocalType
    <2>6. UNCHANGED <<tasks, order, saved, id, session, attempted, clock, faults, crashes, moves>>
      BY <1>5 DEF EndBatch
    <2>7. /\ tasks' \in [TaskIds -> SyncTask \cup {NoTask}]
          /\ saved' \subseteq Stocks /\ attempted' \in [TaskIds -> SUBSET Stocks]
          /\ session' \in [Workers -> {"ok", "aborted"}] /\ clock' \in Nat /\ faults' \in Nat
      BY <2>6 DEF TypeOK
    <2>8. /\ order' = order /\ crashes' = crashes /\ moves' = moves
          /\ tasks'[id'[w]] # NoTask /\ \A t \in TaskIds : tasks[t] # NoTask => tasks'[t] # NoTask
      BY <1>2, <2>6
    <2>9. QED
      BY <2>5, <2>7, <2>8, StepType
  <1>6. QED
    BY <1>3, <1>4, <1>5

LEMMA TypeEnvironment ==
  ASSUME TypeOK, Crash \/ Tick \/ MoveRow
  PROVE  TypeOK'
  <1>1. CASE Crash
    BY <1>1 DEF Crash, TypeOK, table, InLoop
  <1>2. CASE Tick
    <2>1. \A task \in SyncTask : Older(task) \in SyncTask
      BY TaskMethods DEF TypeOK
    <2>2. tasks' \in [TaskIds -> SyncTask \cup {NoTask}] /\ \A t \in TaskIds : tasks[t] # NoTask => tasks'[t] # NoTask
      BY <1>2, <2>1, NoTaskAssumption DEF Tick, TypeOK, Rows
    <2>3. /\ mem' \in [Workers -> SyncTask \cup {NoTask}]
          /\ \A w \in Workers : mem[w] \in SyncTask => mem'[w] \in SyncTask
      <3>1. \A w \in Workers : mem[w] = NoTask \/ (mem[w] # NoTask /\ mem[w] \in SyncTask)
        BY DEF TypeOK
      <3>2. mem' = [w \in Workers |-> IF mem[w] = NoTask THEN NoTask ELSE Older(mem[w])]
        BY <1>2 DEF Tick
      <3>3. QED
        BY <2>1, <3>1, <3>2, NoTaskAssumption
    <2>4. \A w \in Workers :
            /\ pc'[w] # "idle" => id'[w] \in TaskIds /\ mem'[w] \in SyncTask
            /\ pc'[w] \in {"pause", "start"} \cup InLoop => tasks'[id'[w]] # NoTask
      BY <1>2, <2>2, <2>3 DEF Tick, TypeOK, InLoop
    <2>5. QED
      BY <1>2, <2>2, <2>3, <2>4 DEF Tick, TypeOK, budget
  <1>3. CASE MoveRow
    <2>1. order' \in [1..N -> Stocks]
      <3>1. N \in Nat
        BY NNat
      <3>2. QED
        BY <1>3, <3>1 DEF MoveRow, TypeOK
    <2>2. QED
      BY <1>3, <2>1 DEF MoveRow, TypeOK, local
  <1>4. QED
    BY <1>1, <1>2, <1>3

LEMMA TypeNext == TypeOK /\ [Next]_vars => TypeOK'
  <1> SUFFICES ASSUME TypeOK, [Next]_vars PROVE TypeOK'
    OBVIOUS
  <1>1. CASE UNCHANGED vars
    BY <1>1 DEF TypeOK, vars
  <1>2. ASSUME NEW w \in Workers, Begin(w) PROVE TypeOK'
    BY <1>2, TypeBegin
  <1>3. ASSUME NEW w \in Workers, Step(w) PROVE TypeOK'
    BY <1>3, TypeWrite, TypeBatch DEF Step
  <1>4. CASE Crash \/ Tick \/ MoveRow
    BY <1>4, TypeEnvironment
  <1>5. QED
    BY <1>1, <1>2, <1>3, <1>4 DEF Next

\* The variables keep their types, a call under way has a task at hand, and its
\* row exists once it is in the loop, for every instance of the constants.
THEOREM TypeCorrect == Spec => []TypeOK
  <1>1. QED
    BY TypeInit, TypeNext, PTL DEF Spec

-----------------------------------------------------------------------------
(* The checkpoint invariant.                                               *)
(*                                                                         *)
(* Checkpoint alone is not inductive: what update_progress() adds to the    *)
(* offset is sound because the page in hand starts at the offset and each   *)
(* stock of it before `pos` was processed, and complete() is sound because  *)
(* an empty page means the offset is past the table.  Several calls may     *)
(* hold copies of one row and overwrite it in any order; none of this       *)
(* matters because each copy is grounded in the same, only growing, set.    *)

\* The stocks the first `off` places of the table hold.
Before(off) == {StockRows[k] : k \in {j \in 1..N : j <= off}}

\* What a SyncTask claims is backed by the stocks `done` under its id.
Grounded(task, done) ==
  /\ Before(task.offset) \subseteq done
  /\ Kind = FINANCE =>
       /\ task.status = "COMPLETED" => done = Stocks
       /\ task.processed = IF task.offset < N THEN task.offset ELSE N

\* The page in hand starts at the offset and is done up to `pos`.
PageDone(w) ==
  /\ page[w] = PageAt(mem[w].offset, mem[w].bs)
  /\ \A i \in 1..Len(page[w]) : i < pos[w] => page[w][i] \in attempted[id[w]]

IInv ==
  /\ TypeOK
  /\ order = StockRows
  /\ \A t \in TaskIds : tasks[t] # NoTask => Grounded(tasks[t], attempted[t])
  /\ \A w \in Workers : pc[w] # "idle" => Grounded(mem[w], attempted[id[w]])
  /\ \A w \in Workers : pc[w] = "stock" => PageDone(w)

LEMMA StocksAre == Stocks = {StockRows[k] : k \in 1..N}
  BY RowsAssumption, LenProperties DEF Stocks, N, ToSet

\* A growing set of processed stocks keeps a task grounded.
LEMMA GroundedGrows ==
  ASSUME NEW task, NEW done, NEW more, Grounded(task, done),
         done \subseteq more, more \subseteq Stocks
  PROVE  Grounded(task, more)
  BY DEF Grounded

\* The methods that leave the offset alone keep a task grounded.
LEMMA GroundedMethods ==
  ASSUME NEW task \in SyncTask, NEW done, Grounded(task, done)
  PROVE  /\ Grounded(Started(task), done)
         /\ Grounded(Failed(task), done)
         /\ Grounded(Paused(task), done)
         /\ Grounded(Older(task), done)
  <1>1. /\ Started(task).offset = task.offset /\ Started(task).processed = task.processed
        /\ Started(task).status = "RUNNING"
    BY DEF Started, SyncTask
  <1>2. /\ Failed(task).offset = task.offset /\ Failed(task).processed = task.processed
        /\ Failed(task).status = "FAILED"
    BY DEF Failed, SyncTask
  <1>3. /\ Paused(task).offset = task.offset /\ Paused(task).processed = task.processed
        /\ Paused(task).status = "PAUSED"
    BY DEF Paused, SyncTask
  <1>4. /\ Older(task).offset = task.offset /\ Older(task).processed = task.processed
        /\ Older(task).status = task.status
    BY DEF Older, SyncTask
  <1>5. QED
    BY <1>1, <1>2, <1>3, <1>4 DEF Grounded

LEMMA GroundedNew ==
  ASSUME NEW bs \in BatchSizes, NEW done
  PROVE  Grounded(NewTask(bs), done)
  BY NNat DEF Grounded, NewTask, Before

\* update_progress() after a page whose stocks are all done.
LEMMA GroundedProgressed ==
  ASSUME NEW task \in SyncTask, NEW done, Grounded(task, done), NEW n \in Nat,
         order = StockRows, order \in [1..N -> Stocks],
         \A i \in 1..Len(PageAt(task.offset, task.bs)) : PageAt(task.offset, task.bs)[i] \in done,
         Kind = FINANCE => n = Len(PageAt(task.offset, task.bs))
  PROVE  Grounded(Progressed(task, n), done)
  <1> DEFINE off == task.offset
             bs == task.bs
             p == PageAt(task.offset, task.bs)
  <1>1. /\ Progressed(task, n).offset = off + bs /\ Progressed(task, n).processed = task.processed + n
        /\ Progressed(task, n).status = task.status
    BY DEF Progressed, SyncTask
  <1>2. off \in Nat /\ bs \in Nat \ {0} /\ N \in Nat /\ task.processed \in Nat
    BY BatchAssumption, NNat DEF SyncTask
  <1>3. /\ Len(p) = IF off >= N THEN 0 ELSE IF off + bs < N THEN bs ELSE N - off
        /\ \A i \in 1..Len(p) : p[i] = order[off + i]
    BY <1>2, PageFacts
  <1> HIDE DEF off, bs, p
  <1>4. ASSUME NEW k \in 1..N, k <= off + bs PROVE StockRows[k] \in done
    <2>1. CASE k <= off
      BY <2>1 DEF Grounded, Before, off
    <2>2. CASE k > off
      <3>1. k - off \in 1..Len(p) /\ off + (k - off) = k
        BY <1>2, <1>3, <1>4, <2>2
      <3>2. p[k - off] \in done /\ p[k - off] = StockRows[k]
        BY <1>3, <3>1 DEF p
      <3>3. QED
        BY <3>2
    <2>3. QED
      BY <1>2, <2>1, <2>2
  <1>5. Before(off + bs) \subseteq done
    BY <1>4 DEF Before
  <1>6. Kind = FINANCE => task.processed + n = IF off + bs < N THEN off + bs ELSE N
    BY <1>2, <1>3 DEF Grounded, off, p
  <1>7. QED
    BY <1>1, <1>5, <1>6 DEF Grounded

\* complete() after a page that, for finance, is empty.
LEMMA GroundedCompleted ==
  ASSUME NEW task \in SyncTask, NEW done, Grounded(task, done), done \subseteq Stocks,
         order \in [1..N -> Stocks],
         Kind = FINANCE => Len(PageAt(task.offset, task.bs)) = 0
  PROVE  Grounded(Completed(task), done)
  <1>1. Completed(task).offset = task.offset /\ Completed(task).processed = task.processed
    BY DEF Completed, SyncTask
  <1>2. task.offset \in Nat /\ task.bs \in Nat \ {0} /\ N \in Nat
    BY BatchAssumption, NNat DEF SyncTask
  <1>3. ASSUME Kind = FINANCE PROVE done = Stocks
    <2>1. task.offset >= N
      <3>1. Len(PageAt(task.offset, task.bs)) =
              IF task.offset >= N THEN 0
              ELSE IF task.offset + task.bs < N THEN task.bs ELSE N - task.offset
        BY <1>2, PageFacts
      <3>2. QED
        BY <1>2, <1>3, <3>1
    <2>2. Before(task.offset) = Stocks
      BY <1>2, <2>1, StocksAre DEF Before
    <2>3. QED
      BY <2>2 DEF Grounded
  <1>4. QED
    BY <1>1, <1>3 DEF Grounded

-----------------------------------------------------------------------------
(* IInv is inductive as long as the stock table keeps its order. *)

LEMMA InvInit == Init => IInv
  <1> SUFFICES ASSUME Init PROVE IInv
    OBVIOUS
  <1>1. TypeOK
    BY TypeInit
  <1>2. QED
    BY <1>1 DEF Init, IInv

\* What a step of call w owes: its own SyncTask, every row and its page stay
\* grounded in what was processed, and nothing processed is forgotten.
Owed(w) ==
  /\ order' = order
  /\ \A t \in TaskIds : attempted[t] \subseteq attempted'[t]
  /\ \A t \in TaskIds :
       tasks'[t] # NoTask =>
         \/ tasks'[t] = tasks[t]
         \/ pc[w] # "idle" /\ t = id[w] /\ tasks'[t] = mem[w]
  /\ \A v \in Workers : v # w =>
       pc'[v] = pc[v] /\ id'[v] = id[v] /\ mem'[v] = mem[v] /\ page'[v] = page[v] /\ pos'[v] = pos[v]
  /\ pc'[w] # "idle" => Grounded(mem'[w], attempted'[id'[w]])
  /\ pc'[w] = "stock" => PageDone(w)'

LEMMA InvStep ==
  ASSUME IInv, TypeOK', NEW w \in Workers, Owed(w)
  PROVE  IInv'
  <1>1. \A t \in TaskIds : attempted[t] \subseteq attempted'[t] /\ attempted'[t] \subseteq Stocks
    BY DEF Owed, TypeOK
  <1>2. ASSUME NEW v \in Workers, pc'[v] # "idle" PROVE Grounded(mem'[v], attempted'[id'[v]])
    <2>1. CASE v = w
      BY <1>2, <2>1 DEF Owed
    <2>2. CASE v # w
      <3>1. pc[v] # "idle" /\ id'[v] = id[v] /\ mem'[v] = mem[v]
        BY <1>2, <2>2 DEF Owed
      <3>2. id[v] \in TaskIds /\ Grounded(mem[v], attempted[id[v]])
        BY <3>1, AtHand DEF IInv
      <3>3. QED
        BY <1>1, <3>1, <3>2, GroundedGrows
    <2>3. QED
      BY <2>1, <2>2
  <1>3. ASSUME NEW t \in TaskIds, tasks'[t] # NoTask PROVE Grounded(tasks'[t], attempted'[t])
    <2>1. CASE tasks'[t] = tasks[t]
      BY <1>1, <1>3, <2>1, GroundedGrows DEF IInv
    <2>2. CASE pc[w] # "idle" /\ t = id[w] /\ tasks'[t] = mem[w]
      BY <1>1, <1>3, <2>2, GroundedGrows DEF IInv
    <2>3. QED
      BY <1>3, <2>1, <2>2 DEF Owed
  <1>4. ASSUME NEW v \in Workers, pc'[v] = "stock" PROVE PageDone(v)'
    <2>1. CASE v = w
      BY <1>4, <2>1 DEF Owed
    <2>2. CASE v # w
      <3>1. /\ pc[v] = "stock" /\ id'[v] = id[v] /\ mem'[v] = mem[v]
            /\ page'[v] = page[v] /\ pos'[v] = pos[v] /\ order' = order
        BY <1>4, <2>2 DEF Owed
      <3>2. id[v] \in TaskIds /\ PageDone(v)
        BY <3>1, AtHand DEF IInv
      <3>3. QED
        BY <1>1, <3>1, <3>2 DEF PageDone, PageAt
    <2>3. QED
      BY <2>1, <2>2
  <1>5. order' = StockRows
    BY DEF Owed, IInv
  <1>6. QED
    BY <1>2, <1>3, <1>4, <1>5 DEF IInv

LEMMA OwedBegin ==
  ASSUME IInv, NEW w \in Workers, Begin(w), ~Reject(w)
  PROVE  Owed(w)
  <1> USE DEF OpenSession, Goto, table, budget
  <1>1. TypeOK
    BY DEF IInv
  <1>2. pc[w] = "idle"
    BY DEF Begin, BeginPause, BeginResume, BeginCreate, MayEnter
  <1>3. /\ UNCHANGED <<tasks, order, attempted, page, pos>>
        /\ pc'[w] # "stock"
        /\ \A v \in Workers : v # w => pc'[v] = pc[v]
    BY <1>1 DEF Begin, BeginPause, BeginResume, BeginCreate, TypeOK
  <1>4. /\ \A v \in Workers : v # w => id'[v] = id[v] /\ mem'[v] = mem[v]
        /\ Grounded(mem'[w], attempted[id'[w]])
    <2>1. CASE BeginPause(w) \/ BeginResume(w)
      <3>1. PICK t \in TaskIds :
              /\ tasks[t] # NoTask
              /\ id' = [id EXCEPT ![w] = t]
              /\ \/ mem' = [mem EXCEPT ![w] = Paused(tasks[t])]
                 \/ mem' = [mem EXCEPT ![w] = Started(tasks[t])]
        BY <2>1 DEF BeginPause, BeginResume, IsLatest, Rows
      <3>2. tasks[t] \in SyncTask /\ Grounded(tasks[t], attempted[t])
        BY <1>1, <3>1 DEF IInv, TypeOK
      <3>3. Grounded(Paused(tasks[t]), attempted[t]) /\ Grounded(Started(tasks[t]), attempted[t])
        BY <3>2, GroundedMethods
      <3>4. id'[w] = t /\ (mem'[w] = Paused(tasks[t]) \/ mem'[w] = Started(tasks[t]))
        BY <1>1, <3>1 DEF TypeOK
      <3>5. QED
        BY <1>1, <3>1, <3>3, <3>4 DEF TypeOK
    <2>2. CASE BeginCreate(w)
      <3>1. PICK t \in TaskIds, bs \in BatchSizes :
              id' = [id EXCEPT ![w] = t] /\ mem' = [mem EXCEPT ![w] = NewTask(bs)]
        BY <2>2 DEF BeginCreate
      <3>2. Grounded(NewTask(bs), attempted[t])
        BY GroundedNew
      <3>3. id'[w] = t /\ mem'[w] = NewTask(bs)
        BY <1>1, <3>1 DEF TypeOK
      <3>4. QED
        BY <1>1, <3>1, <3>2, <3>3 DEF TypeOK
    <2>3. QED
      BY <2>1, <2>2 DEF Begin
  <1>5. QED
    BY <1>3, <1>4 DEF Owed

LEMMA OwedEnd ==
  ASSUME IInv, NEW w \in Workers, NEW how, EndCall(w, how), pc[w] # "idle",
         UNCHANGED tasks \/ WriteRow(w), UNCHANGED <<order, attempted>>
  PROVE  Owed(w)
  BY DEF IInv, TypeOK, EndCall, WriteRow, Owed

LEMMA OwedExcept ==
  ASSUME IInv, NEW w \in Workers, Except(w), pc[w] # "idle",
         UNCHANGED tasks \/ WriteRow(w), UNCHANGED <<order, attempted>>
  PROVE  Owed(w)
  <1>1. TypeOK /\ mem[w] \in SyncTask /\ Grounded(mem[w], attempted[id[w]])
    BY AtHand DEF IInv
  <1>2. Grounded(Failed(mem[w]), attempted[id[w]])
    BY <1>1, GroundedMethods
  <1>3. mem'[w] = Failed(mem[w]) /\ pc'[w] = "fail" /\ id'[w] = id[w]
    BY <1>1 DEF Except, TypeOK
  <1>4. QED
    BY <1>1, <1>2, <1>3 DEF TypeOK, Except, WriteRow, Owed

LEMMA OwedWrite ==
  ASSUME IInv, NEW w \in Workers,
         \/ WritePause(w) \/ WriteStart(w) \/ WriteProgress(w)
         \/ WriteComplete(w) \/ WriteFailed(w)
  PROVE  Owed(w)
  <1> USE DEF Goto
  <1>1. /\ pc[w] # "idle"
        /\ UNCHANGED tasks \/ WriteRow(w)
        /\ UNCHANGED <<order, attempted>>
    BY DEF WritePause, WriteStart, WriteProgress, WriteComplete, WriteFailed, UpdateRaises
  <1>2. TypeOK /\ mem[w] \in SyncTask /\ Grounded(mem[w], attempted[id[w]])
    BY <1>1, AtHand DEF IInv
  <1>3. CASE EndCall(w, "raised") \/ EndCall(w, "completed")
    BY <1>1, <1>3, OwedEnd
  <1>4. CASE Except(w)
    BY <1>1, <1>4, OwedExcept
  <1>5. CASE mem' = [mem EXCEPT ![w] = Started(mem[w])] /\ pc' = [pc EXCEPT ![w] = "start"]
             /\ UNCHANGED <<id, page, pos>>
    <2>1. Grounded(Started(mem[w]), attempted[id[w]])
      BY <1>2, GroundedMethods
    <2>2. mem'[w] = Started(mem[w]) /\ pc'[w] = "start" /\ id'[w] = id[w]
      BY <1>2, <1>5 DEF TypeOK
    <2>3. QED
      BY <1>1, <1>2, <1>5, <2>1, <2>2 DEF TypeOK, WriteRow, Owed
  <1>6. CASE pc' = [pc EXCEPT ![w] = "fetch"] /\ UNCHANGED <<id, mem, page, pos>>
    BY <1>1, <1>2, <1>6 DEF TypeOK, WriteRow, Owed
  <1>7. QED
    BY <1>3, <1>4, <1>5, <1>6
    DEF WritePause, WriteStart, WriteProgress, WriteComplete, WriteFailed

LEMMA OwedFetch ==
  ASSUME IInv, NEW w \in Workers, FetchPage(w)
  PROVE  Owed(w)
  <1> USE DEF Goto, table
  <1>1. TypeOK /\ pc[w] # "idle" /\ Grounded(mem[w], attempted[id[w]])
    BY DEF IInv, FetchPage
  <1>2. CASE Except(w)
    BY <1>1, <1>2, OwedExcept DEF FetchPage
  <1>3. CASE ~Except(w)
    <2>1. /\ page' = [page EXCEPT ![w] = PageAt(mem[w].offset, mem[w].bs)]
          /\ pos' = [pos EXCEPT ![w] = 1]
          /\ pc' = [pc EXCEPT ![w] = "stock"]
          /\ UNCHANGED <<id, mem, tasks, order, attempted>>
      BY <1>3 DEF FetchPage
    <2>2. pos'[w] = 1 /\ page'[w] = PageAt(mem[w].offset, mem[w].bs) /\ Len(page'[w]) \in Nat
      <3>1. mem[w] \in SyncTask
        BY <1>1, AtHand
      <3>2. mem[w].offset \in Nat /\ mem[w].bs \in Nat \ {0} /\ N \in Nat
        BY <3>1, BatchAssumption, NNat DEF SyncTask
      <3>3. PageAt(mem[w].offset, mem[w].bs) \in Seq(Stocks)
        BY <1>1, <3>2, PageFacts DEF TypeOK
      <3>4. QED
        BY <1>1, <2>1, <3>3, LenProperties DEF TypeOK
    <2>3. PageDone(w)'
      <3>1. page'[w] = PageAt(mem[w].offset, mem[w].bs)'
        BY <2>1, <2>2 DEF PageAt
      <3>2. \A i \in 1..Len(page'[w]) : ~(i < pos'[w])
        BY <2>2
      <3>3. QED
        BY <2>1, <3>1, <3>2 DEF PageDone
    <2>4. QED
      BY <1>1, <2>1, <2>3 DEF TypeOK, Owed
  <1>4. QED
    BY <1>2, <1>3

LEMMA OwedStock ==
  ASSUME IInv, NEW w \in Workers, SyncStock(w)
  PROVE  Owed(w)
  <1>1. /\ TypeOK /\ pc[w] = "stock" /\ PageDone(w)
        /\ UNCHANGED <<tasks, order>>
    BY DEF IInv, SyncStock
  <1>2. id[w] \in TaskIds /\ Grounded(mem[w], attempted[id[w]])
    BY <1>1, AtHand DEF IInv
  <1>3. CASE Except(w) /\ UNCHANGED attempted
    BY <1>1, <1>3, OwedExcept
  <1>4. CASE NextStock(w)
    <2>1. /\ pos' = [pos EXCEPT ![w] = pos[w] + 1]
          /\ attempted' = [attempted EXCEPT ![id[w]] = attempted[id[w]] \cup {Stock(w)}]
          /\ UNCHANGED <<pc, id, mem, page>>
      BY <1>4 DEF NextStock
    <2>2. Stock(w) \in Stocks
      BY <1>1 DEF SyncStock, Stock, TypeOK
    <2>3. /\ \A t \in TaskIds : attempted[t] \subseteq attempted'[t]
          /\ attempted'[id[w]] = attempted[id[w]] \cup {Stock(w)}
      BY <1>1, <1>2, <2>1 DEF TypeOK
    <2>4. Grounded(mem[w], attempted'[id[w]])
      <3>1. attempted'[id[w]] \subseteq Stocks
        BY <1>1, <1>2, <2>2, <2>3 DEF TypeOK
      <3>2. QED
        BY <1>2, <2>3, <3>1, GroundedGrows
    <2>5. PageDone(w)'
      <3>1. pos[w] \in Nat /\ pos'[w] = pos[w] + 1 /\ Len(page[w]) \in Nat
        BY <1>1, <2>1, LenProperties DEF TypeOK
      <3>2. ASSUME NEW i \in 1..Len(page[w]), i < pos'[w] PROVE page[w][i] \in attempted'[id[w]]
        <4>1. CASE i < pos[w]
          BY <1>1, <2>3, <4>1 DEF PageDone
        <4>2. CASE i = pos[w]
          BY <2>3, <4>2 DEF Stock
        <4>3. QED
          BY <3>1, <3>2, <4>1, <4>2
      <3>3. QED
        BY <1>1, <2>1, <3>2 DEF PageDone, PageAt
    <2>6. QED
      BY <1>1, <2>1, <2>3, <2>4, <2>5 DEF TypeOK, Owed
  <1>5. QED
    BY <1>3, <1>4 DEF SyncStock, SaveStock, SkipStock, DailyStockFails, FinanceStockFails

LEMMA OwedEndBatch ==
  ASSUME IInv, NEW w \in Workers, EndBatch(w)
  PROVE  Owed(w)
  <1> USE DEF Goto, table
  <1>1. /\ TypeOK /\ pc[w] = "stock" /\ pos[w] > Len(page[w]) /\ PageDone(w)
        /\ mem[w] \in SyncTask /\ id[w] \in TaskIds /\ Grounded(mem[w], attempted[id[w]])
    BY AtHand DEF IInv, EndBatch
  <1>2. Len(page[w]) \in Nat /\ pos[w] \in Nat /\ ProcessedCount(w) \in Nat
    BY <1>1, LenProperties DEF TypeOK, ProcessedCount
  <1>3. /\ page[w] = PageAt(mem[w].offset, mem[w].bs)
        /\ \A i \in 1..Len(page[w]) : page[w][i] \in attempted[id[w]]
    BY <1>1, <1>2 DEF PageDone
  <1>4. Kind = FINANCE => ProcessedCount(w) = Len(page[w])
    BY DEF ProcessedCount
  <1>5. order = StockRows /\ order \in [1..N -> Stocks] /\ attempted[id[w]] \subseteq Stocks
    BY <1>1 DEF IInv, TypeOK
  <1>6. CASE ProcessedCount(w) = 0
    <2>1. Grounded(Completed(mem[w]), attempted[id[w]])
      BY <1>1, <1>3, <1>4, <1>5, <1>6, GroundedCompleted
    <2>2. mem' = [mem EXCEPT ![w] = Completed(mem[w])] /\ pc' = [pc EXCEPT ![w] = "complete"]
      BY <1>6 DEF EndBatch
    <2>3. QED
      BY <1>1, <2>1, <2>2 DEF EndBatch, TypeOK, Owed
  <1>7. CASE ProcessedCount(w) # 0
    <2>1. Grounded(Progressed(mem[w], ProcessedCount(w)), attempted[id[w]])
      BY <1>1, <1>2, <1>3, <1>4, <1>5, GroundedProgressed
    <2>2. /\ mem' = [mem EXCEPT ![w] = Progressed(mem[w], ProcessedCount(w))]
          /\ pc' = [pc EXCEPT ![w] = "progress"]
      BY <1>7 DEF EndBatch
    <2>3. QED
      BY <1>1, <2>1, <2>2 DEF EndBatch, TypeOK, Owed
  <1>8. QED
    BY <1>6, <1>7

LEMMA InvEnvironment ==
  ASSUME MaxMoves = 0, IInv, TypeOK', Crash \/ Tick \/ MoveRow
  PROVE  IInv'
  <1>1. TypeOK
    BY DEF IInv
  <1>2. CASE Crash
    BY <1>1, <1>2 DEF Crash, IInv, TypeOK, table
  <1>3. CASE Tick
    <2>1. UNCHANGED <<order, pc, id, page, pos, attempted>>
      BY <1>3 DEF Tick
    <2>2. ASSUME NEW t \in TaskIds, tasks'[t] # NoTask PROVE Grounded(tasks'[t], attempted[t])
      <3>1. tasks[t] # NoTask /\ tasks'[t] = Older(tasks[t])
        BY <1>3, <2>2 DEF Tick, Rows
      <3>2. tasks[t] \in SyncTask
        BY <1>1, <3>1 DEF TypeOK
      <3>3. QED
        BY <3>1, <3>2, GroundedMethods DEF IInv
    <2>3. ASSUME NEW w \in Workers, pc[w] # "idle"
          PROVE  /\ Grounded(mem'[w], attempted[id[w]])
                 /\ mem'[w].offset = mem[w].offset /\ mem'[w].bs = mem[w].bs
      <3>1. mem[w] \in SyncTask /\ mem'[w] = Older(mem[w])
        BY <1>1, <1>3, <2>3, AtHand DEF Tick
      <3>2. Older(mem[w]).offset = mem[w].offset /\ Older(mem[w]).bs = mem[w].bs
        BY <3>1 DEF Older, SyncTask
      <3>3. QED
        BY <2>3, <3>1, <3>2, GroundedMethods DEF IInv
    <2>4. ASSUME NEW w \in Workers, pc[w] = "stock" PROVE PageDone(w)'
      BY <2>1, <2>3, <2>4 DEF IInv, PageDone, PageAt
    <2>5. QED
      BY <2>1, <2>2, <2>3, <2>4 DEF IInv
  <1>4. CASE MoveRow
    BY <1>1, <1>4 DEF MoveRow, TypeOK
  <1>5. QED
    BY <1>2, <1>3, <1>4

LEMMA InvNext == MaxMoves = 0 /\ IInv /\ [Next]_vars => IInv'
  <1> SUFFICES ASSUME MaxMoves = 0, IInv, [Next]_vars PROVE IInv'
    OBVIOUS
  <1>1. TypeOK'
    BY TypeNext DEF IInv
  <1>2. ASSUME NEW w \in Workers, Begin(w) \/ Step(w) PROVE IInv'
    <2>1. CASE Reject(w)
      BY <1>1, <2>1 DEF Reject, IInv, PageDone, PageAt, table
    <2>2. CASE ~Reject(w)
      <3>1. Owed(w)
        BY <1>2, <2>2, OwedBegin, OwedWrite, OwedFetch, OwedStock, OwedEndBatch DEF Step
      <3>2. QED
        BY <1>1, <3>1, InvStep
    <2>3. QED
      BY <2>1, <2>2
  <1>3. CASE Crash \/ Tick \/ MoveRow
    BY <1>1, <1>3, InvEnvironment
  <1>4. CASE UNCHANGED vars
    BY <1>1, <1>4 DEF vars, IInv, PageDone, PageAt
  <1>5. QED
    BY <1>2, <1>3, <1>4 DEF Next

LEMMA InvImplies ==
  IInv => Checkpoint /\ CompletedMeansAllDone /\ ProcessedMatchesOffset
  <1> SUFFICES ASSUME IInv
               PROVE  Checkpoint /\ CompletedMeansAllDone /\ ProcessedMatchesOffset
    OBVIOUS
  <1>1. \A off : FirstStocks(off) = Before(off)
    BY DEF IInv, FirstStocks, Before
  <1>2. Checkpoint
    BY <1>1 DEF IInv, Grounded, Checkpoint, Rows
  <1>3. CompletedMeansAllDone /\ ProcessedMatchesOffset
    BY DEF IInv, Grounded, CompletedMeansAllDone, ProcessedMatchesOffset, Rows
  <1>4. QED
    BY <1>2, <1>3

\* Over an unchanging stock table no checkpoint is ahead of the work: resuming
\* from current_offset skips nothing, for any number of overlapping calls,
\* takeovers, faults and crashes.
THEOREM CheckpointSafe ==
  ASSUME MaxMoves = 0
  PROVE  Spec => []Checkpoint
  <1>1. IInv /\ [Next]_vars => IInv'
    BY InvNext
  <1>2. QED
    BY <1>1, InvInit, InvImplies, PTL DEF Spec

\* ... a finance task marked COMPLETED has processed every stock,
THEOREM CompletedIsDone ==
  ASSUME MaxMoves = 0
  PROVE  Spec => []CompletedMeansAllDone
  <1>1. IInv /\ [Next]_vars => IInv'
    BY InvNext
  <1>2. QED
    BY <1>1, InvInit, InvImplies, PTL DEF Spec

\* ... and its total_processed is exact.
THEOREM ProcessedExact ==
  ASSUME MaxMoves = 0
  PROVE  Spec => []ProcessedMatchesOffset
  <1>1. IInv /\ [Next]_vars => IInv'
    BY InvNext
  <1>2. QED
    BY <1>1, InvInit, InvImplies, PTL DEF Spec

-----------------------------------------------------------------------------
(* Mutual exclusion.                                                       *)
(*                                                                         *)
(* If triggers are apart and a batch is faster than the threshold, the check *)
(* of the latest row does give one owner per row.  That nothing but a stale  *)
(* or paused row is taken is not inductive: the invariant also says that a   *)
(* row that can be resumed is the latest one, that a call in its loop owns a *)
(* RUNNING row that is not stale, and what each call is about to write.      *)

\* Triggers are apart and batches faster than the threshold, which local time
\* behind UTC has not used up.
Spaced == Overlapping = FALSE /\ SlowBatches = FALSE /\ StaleAge > 0

\* No start lies in the future.
StartsAreCounted ==
  /\ \A t \in Rows : tasks[t].started <= clock
  /\ \A w \in Workers : pc[w] # "idle" => mem[w].started <= clock

\* A row that can be resumed is the one started last, so there is one at most.
ResumableIsLatest ==
  \A t, u \in Rows : IsResumable(tasks[t]) /\ u # t => tasks[u].started < tasks[t].started

\* The status that each await is about to write.
ToWrite(w) ==
  /\ pc[w] \in {"start", "create", "fetch", "stock", "progress"} => mem[w].status = "RUNNING"
  /\ pc[w] = "complete" => mem[w].status = "COMPLETED"
  /\ pc[w] = "fail" => mem[w].status = "FAILED"
  /\ pc[w] = "pause" => mem[w].status = "PAUSED"

\* A call that enters: nobody else does, and its row is the one that can be resumed
\* or, to be created, there is none.
EntersAlone(w) ==
  /\ pc[w] \in Entering => \A v \in Workers : pc[v] \in Entering => v = w
  /\ pc[w] \in {"pause", "start"} => IsResumable(tasks[id[w]])
  /\ pc[w] = "pause" => mem[w].started = tasks[id[w]].started
  /\ pc[w] = "create" => id[w] \notin Rows /\ \A t \in Rows : ~IsResumable(tasks[t])
  /\ pc[w] \in {"start", "create"} =>
       /\ \A u \in Rows : tasks[u].started < mem[w].started
       /\ mem[w].age < StaleAge

\* A call in its loop owns a RUNNING row that is not stale, unless it has completed
\* the row and lost the reply, or did not get to read the row back: it is then about
\* to write that the task has failed.
OwnsRow(w) ==
  pc[w] \in InLoop =>
    /\ tasks[id[w]].started = mem[w].started
    /\ mem[w].age < StaleAge
    /\ \/ tasks[id[w]].status = "RUNNING" /\ tasks[id[w]].age < StaleAge
       \/ tasks[id[w]].status = "COMPLETED" /\ pc[w] = "fail"

\* What a call holds is not behind its row.
NotBehind(w) ==
  pc[w] \in {"pause", "start"} \cup InLoop => mem[w].offset >= tasks[id[w]].offset

CallInv(w) == ToWrite(w) /\ EntersAlone(w) /\ OwnsRow(w) /\ NotBehind(w)

MutexInv ==
  /\ TypeOK /\ StartsAreCounted /\ ResumableIsLatest /\ OneWorkerPerTask
  /\ \A w \in Workers : CallInv(w)

\* Numbers and names that the comparisons below are about.
LEMMA RowTypes ==
  ASSUME TypeOK
  PROVE  /\ \A t \in Rows : /\ t \in TaskIds /\ tasks[t] \in SyncTask
                            /\ tasks[t].started \in Nat /\ tasks[t].offset \in Nat
                            /\ tasks[t].age \in Nat
         /\ \A w \in Workers : pc[w] # "idle" =>
              /\ id[w] \in TaskIds /\ mem[w] \in SyncTask
              /\ mem[w].started \in Nat /\ mem[w].offset \in Nat /\ mem[w].age \in Nat
         /\ \A w \in Workers : pc[w] \in {"pause", "start"} \cup InLoop => id[w] \in Rows
         /\ StaleAge \in Nat /\ clock \in Nat
  <1>1. StaleAge \in Nat
    BY StaleAgeNat
  <1>2. \A task \in SyncTask : task.started \in Nat /\ task.offset \in Nat /\ task.age \in Nat
    BY <1>1 DEF SyncTask
  <1>3. \A t \in Rows : t \in TaskIds /\ tasks[t] \in SyncTask
    BY DEF TypeOK, Rows
  <1>4. \A w \in Workers : pc[w] # "idle" => id[w] \in TaskIds /\ mem[w] \in SyncTask
    BY DEF TypeOK
  <1>5. \A w \in Workers : pc[w] \in {"pause", "start"} \cup InLoop => id[w] \in Rows
    BY <1>4 DEF TypeOK, Rows, InLoop
  <1>6. clock \in Nat
    BY DEF TypeOK
  <1>7. QED
    BY <1>1, <1>2, <1>3, <1>4, <1>5, <1>6

\* What a step of w leaves alone: the other calls, and all rows but its own.
OthersStay(w) ==
  /\ \A v \in Workers : v # w =>
       pc'[v] = pc[v] /\ id'[v] = id[v] /\ mem'[v] = mem[v]
  /\ \A t \in TaskIds : t # id[w] => tasks'[t] = tasks[t]

\* A write concerns the row of its own task.
LEMMA WriteOthers ==
  ASSUME TypeOK, NEW w \in Workers, WriteRow(w) \/ UpdateRaises(w)
  PROVE  \A t \in TaskIds : t # id[w] => tasks'[t] = tasks[t]
  BY DEF TypeOK, WriteRow, UpdateRaises

\* A step of a call leaves the others and their rows alone.
LEMMA StepOthers ==
  ASSUME TypeOK, NEW w \in Workers, Step(w)
  PROVE  OthersStay(w)
  <1>1. CASE WritePause(w) \/ WriteStart(w) \/ WriteProgress(w) \/ WriteComplete(w) \/ WriteFailed(w)
    <2>1. \A t \in TaskIds : t # id[w] => tasks'[t] = tasks[t]
      BY <1>1, WriteOthers
      DEF WritePause, WriteStart, WriteProgress, WriteComplete, WriteFailed
    <2>2. \A v \in Workers : v # w => pc'[v] = pc[v] /\ id'[v] = id[v] /\ mem'[v] = mem[v]
      <3>1. CASE EndCall(w, "raised") \/ EndCall(w, "completed")
        BY <3>1 DEF EndCall, TypeOK
      <3>2. CASE Except(w)
        BY <3>2 DEF Except, TypeOK
      <3>3. CASE pc' = [pc EXCEPT ![w] = "start"] /\ id' = id
                   /\ mem' = [mem EXCEPT ![w] = Started(@)]
        BY <3>3 DEF TypeOK
      <3>4. CASE pc' = [pc EXCEPT ![w] = "fetch"] /\ id' = id /\ mem' = mem
        BY <3>4 DEF TypeOK
      <3>5. QED
        BY <1>1, <3>1, <3>2, <3>3, <3>4
        DEF WritePause, WriteStart, WriteProgress, WriteComplete, WriteFailed, Goto
    <2>3. QED
      BY <2>1, <2>2 DEF OthersStay
  <1>2. CASE FetchPage(w)
    <2>1. \A v \in Workers : v # w => pc'[v] = pc[v] /\ id'[v] = id[v] /\ mem'[v] = mem[v]
      BY <1>2 DEF FetchPage, Except, Goto, TypeOK
    <2>2. QED
      BY <1>2, <2>1 DEF FetchPage, OthersStay, table
  <1>3. CASE SyncStock(w)
    <2>1. \A v \in Workers : v # w => pc'[v] = pc[v] /\ id'[v] = id[v] /\ mem'[v] = mem[v]
      BY <1>3 DEF SyncStock, SaveStock, SkipStock, DailyStockFails, FinanceStockFails, NextStock,
         Except, TypeOK
    <2>2. QED
      BY <1>3, <2>1 DEF SyncStock, OthersStay
  <1>4. CASE EndBatch(w)
    <2>1. \A v \in Workers : v # w => pc'[v] = pc[v] /\ id'[v] = id[v] /\ mem'[v] = mem[v]
      BY <1>4 DEF EndBatch, Goto, TypeOK
    <2>2. QED
      BY <1>4, <2>1 DEF EndBatch, OthersStay, table
  <1>5. QED
    BY <1>1, <1>2, <1>3, <1>4 DEF Step

\* A finished row stays as it is, unless the call that completed it says failed.
StaysFinished(t) ==
  tasks[t].status \in {"COMPLETED", "FAILED"} =>
    \/ tasks'[t].status = tasks[t].status
    \/ /\ tasks'[t].status = "FAILED"
       /\ \E w \in Workers : id[w] = t /\ pc[w] = "fail"

\* What becomes of the row of a call under way: nothing that a reader of the table
\* takes for a new start, and no way back.
RowGoesOn(t) ==
  /\ tasks'[t] # NoTask
  /\ tasks'[t].started = tasks[t].started
  /\ tasks'[t].offset >= tasks[t].offset
  /\ IsResumable(tasks'[t]) => IsResumable(tasks[t])
  /\ StaysFinished(t)

\* A write in the loop, or none, does no more to the row than that.
LEMMA LoopRow ==
  ASSUME MutexInv, NEW w \in Workers, pc[w] \in InLoop,
         tasks' = tasks \/ WriteRow(w)
  PROVE  RowGoesOn(id[w])
  <1>1. /\ id[w] \in Rows /\ id[w] \in TaskIds /\ mem[w] \in SyncTask /\ mem[w].offset \in Nat
        /\ tasks[id[w]].offset \in Nat
    BY RowTypes DEF MutexInv, InLoop
  <1>2. tasks[id[w]] # NoTask /\ mem[w] # NoTask
    BY <1>1, NoTaskAssumption DEF Rows
  <1>3. CASE tasks' = tasks
    BY <1>1, <1>2, <1>3 DEF RowGoesOn, StaysFinished
  <1>4. CASE WriteRow(w)
    <2>1. tasks'[id[w]] = mem[w]
      BY <1>1, <1>4 DEF WriteRow, MutexInv, TypeOK
    <2>2. /\ mem[w].started = tasks[id[w]].started /\ mem[w].offset >= tasks[id[w]].offset
          /\ \/ tasks[id[w]].status = "RUNNING"
             \/ tasks[id[w]].status = "COMPLETED" /\ pc[w] = "fail" /\ mem[w].status = "FAILED"
      BY <1>4 DEF MutexInv, CallInv, ToWrite, OwnsRow, NotBehind
    <2>3. QED
      BY <1>2, <2>1, <2>2 DEF RowGoesOn, StaysFinished, IsResumable
  <1>5. QED
    BY <1>3, <1>4

\* A call that enters the except clause: its row is still its own.
LEMMA ExceptKeeps ==
  ASSUME MutexInv, NEW w \in Workers, pc[w] \in InLoop, Except(w),
         \/ tasks' = tasks /\ pc[w] # "fail"
         \/ WriteRow(w) /\ pc[w] \in {"progress", "complete"}
  PROVE  /\ pc'[w] \in InLoop /\ id'[w] = id[w] /\ mem'[w].started = mem[w].started
         /\ ToWrite(w)' /\ OwnsRow(w)' /\ NotBehind(w)'
  <1>1. /\ id[w] \in TaskIds /\ mem[w] \in SyncTask /\ mem[w].offset \in Nat
        /\ mem[w].started \in Nat /\ mem[w].age \in Nat /\ StaleAge \in Nat
    BY RowTypes DEF MutexInv, InLoop
  <1>2. pc'[w] = "fail" /\ id'[w] = id[w] /\ mem'[w] = Failed(mem[w])
    BY DEF Except, MutexInv, TypeOK
  <1>3. /\ mem'[w].started = mem[w].started /\ mem'[w].offset = mem[w].offset
        /\ mem'[w].status = "FAILED" /\ mem'[w].age = 0
    BY <1>1, <1>2 DEF Failed, SyncTask
  <1>4. /\ tasks[id[w]].started = mem[w].started /\ mem[w].age < StaleAge
        /\ mem[w].offset >= tasks[id[w]].offset /\ CallInv(w)
    BY DEF MutexInv, CallInv, OwnsRow, NotBehind, InLoop
  <1>5. ToWrite(w)'
    BY <1>2, <1>3 DEF ToWrite
  <1>6. CASE tasks' = tasks /\ pc[w] # "fail"
    BY <1>1, <1>2, <1>3, <1>4, <1>5, <1>6 DEF CallInv, OwnsRow, NotBehind, InLoop
  <1>7. CASE WriteRow(w) /\ pc[w] \in {"progress", "complete"}
    <2>1. tasks'[id[w]] = mem[w]
      BY <1>1, <1>7 DEF WriteRow, MutexInv, TypeOK
    <2>2. mem[w].status \in {"RUNNING", "COMPLETED"}
      BY <1>4, <1>7 DEF CallInv, ToWrite
    <2>3. QED
      BY <1>1, <1>2, <1>3, <1>4, <1>5, <1>7, <2>1, <2>2 DEF OwnsRow, NotBehind, InLoop
  <1>8. QED
    BY <1>6, <1>7

\* What a step in the loop makes of the call and its row.
LEMMA LoopStep ==
  ASSUME MutexInv, Spaced, NEW w \in Workers, pc[w] \in InLoop, Step(w)
  PROVE  /\ clock' = clock
         /\ RowGoesOn(id[w])
         /\ \/ pc'[w] = "idle"
            \/ /\ pc'[w] \in InLoop /\ id'[w] = id[w] /\ mem'[w].started = mem[w].started
               /\ ToWrite(w)' /\ OwnsRow(w)' /\ NotBehind(w)'
  <1> DEFINE Goes == /\ pc'[w] \in InLoop /\ id'[w] = id[w] /\ mem'[w].started = mem[w].started
                     /\ ToWrite(w)' /\ OwnsRow(w)' /\ NotBehind(w)'
  <1>1. /\ id[w] \in TaskIds /\ mem[w] \in SyncTask /\ mem[w].offset \in Nat
        /\ mem[w].started \in Nat /\ mem[w].age \in Nat /\ StaleAge \in Nat
        /\ tasks[id[w]].offset \in Nat /\ StaleAge > 0
    BY RowTypes DEF MutexInv, InLoop, Spaced
  <1>2. TypeOK /\ CallInv(w)
    BY DEF MutexInv
  <1>3. /\ tasks[id[w]].started = mem[w].started /\ mem[w].age < StaleAge
        /\ mem[w].offset >= tasks[id[w]].offset
        /\ pc[w] # "fail" => tasks[id[w]].status = "RUNNING" /\ tasks[id[w]].age < StaleAge
    BY <1>2 DEF CallInv, OwnsRow, NotBehind
  <1> DEFINE Quiet == /\ tasks' = tasks /\ pc[w] # "fail" /\ id'[w] = id[w] /\ mem'[w] = mem[w]
                      /\ pc'[w] \in {"fetch", "stock"} /\ mem[w].status = "RUNNING"
  <1>4. Quiet => Goes
    BY <1>1, <1>3 DEF ToWrite, OwnsRow, NotBehind, InLoop
  <1>5. CASE WriteProgress(w)
    <2>1. clock' = clock /\ mem[w].status = "RUNNING" /\ pc[w] = "progress"
      BY <1>2, <1>5 DEF WriteProgress, CallInv, ToWrite
    <2>2. CASE StatementRuns(w) /\ WriteRow(w) /\ Goto(w, "fetch") /\ id' = id /\ mem' = mem
      <3>1. tasks'[id[w]] = mem[w] /\ pc'[w] = "fetch"
        BY <1>1, <1>2, <2>2 DEF WriteRow, Goto, TypeOK
      <3>2. Goes
        BY <1>1, <1>3, <2>1, <2>2, <3>1 DEF ToWrite, OwnsRow, NotBehind, InLoop
      <3>3. QED
        BY <2>1, <2>2, <3>2, LoopRow
    <2>3. CASE UpdateRaises(w) /\ Except(w)
      <3>1. \/ tasks' = tasks /\ pc[w] # "fail"
            \/ WriteRow(w) /\ pc[w] \in {"progress", "complete"}
        BY <2>1, <2>3 DEF UpdateRaises
      <3>2. Goes
        BY <2>3, <3>1, ExceptKeeps
      <3>3. QED
        BY <2>1, <3>1, <3>2, LoopRow
    <2>4. QED
      BY <1>5, <2>2, <2>3 DEF WriteProgress
  <1>6. CASE WriteComplete(w)
    <2>1. clock' = clock /\ pc[w] = "complete"
      BY <1>6 DEF WriteComplete
    <2>2. CASE StatementRuns(w) /\ WriteRow(w) /\ EndCall(w, "completed")
      <3>1. pc'[w] = "idle"
        BY <1>2, <2>2 DEF EndCall, TypeOK
      <3>2. QED
        BY <2>1, <2>2, <3>1, LoopRow
    <2>3. CASE UpdateRaises(w) /\ Except(w)
      <3>1. \/ tasks' = tasks /\ pc[w] # "fail"
            \/ WriteRow(w) /\ pc[w] \in {"progress", "complete"}
        BY <2>1, <2>3 DEF UpdateRaises
      <3>2. Goes
        BY <2>3, <3>1, ExceptKeeps
      <3>3. QED
        BY <2>1, <3>1, <3>2, LoopRow
    <2>4. QED
      BY <1>6, <2>2, <2>3 DEF WriteComplete
  <1>7. CASE WriteFailed(w)
    <2>1. clock' = clock /\ pc'[w] = "idle"
      BY <1>2, <1>7 DEF WriteFailed, EndCall, TypeOK
    <2>2. tasks' = tasks \/ WriteRow(w)
      BY <1>7 DEF WriteFailed, UpdateRaises
    <2>3. QED
      BY <2>1, <2>2, LoopRow
  <1>8. CASE FetchPage(w)
    <2>1. tasks' = tasks /\ clock' = clock /\ pc[w] = "fetch" /\ mem[w].status = "RUNNING"
      BY <1>2, <1>8 DEF FetchPage, table, CallInv, ToWrite
    <2>2. CASE Except(w)
      BY <2>1, <2>2, ExceptKeeps, LoopRow
    <2>3. CASE pc' = [pc EXCEPT ![w] = "stock"] /\ id' = id /\ mem' = mem
      <3>1. Quiet
        BY <1>2, <2>1, <2>3 DEF TypeOK
      <3>2. QED
        BY <1>4, <2>1, <3>1, LoopRow
    <2>4. QED
      BY <1>8, <2>2, <2>3 DEF FetchPage, Goto
  <1>9. CASE SyncStock(w)
    <2>1. tasks' = tasks /\ clock' = clock /\ pc[w] = "stock" /\ mem[w].status = "RUNNING"
      BY <1>2, <1>9 DEF SyncStock, CallInv, ToWrite
    <2>2. CASE Except(w)
      BY <2>1, <2>2, ExceptKeeps, LoopRow
    <2>3. CASE pc' = pc /\ id' = id /\ mem' = mem
      <3>1. Quiet
        BY <2>1, <2>3
      <3>2. QED
        BY <1>4, <2>1, <3>1, LoopRow
    <2>4. QED
      BY <1>9, <2>2, <2>3
      DEF SyncStock, SaveStock, SkipStock, DailyStockFails, FinanceStockFails, NextStock
  <1>10. CASE EndBatch(w)
    <2>1. /\ tasks' = tasks /\ clock' = clock /\ id' = id /\ pc[w] = "stock"
          /\ mem[w].status = "RUNNING"
      BY <1>2, <1>10 DEF EndBatch, table, budget, CallInv, ToWrite
    <2>2. ProcessedCount(w) \in Nat /\ mem[w].bs \in Nat
      <3>1. ProcessedCount(w) \in Nat
        BY <1>2 DEF ProcessedCount, TypeOK
      <3>2. QED
        BY <1>1, <3>1, BatchAssumption DEF SyncTask
    <2>3. CASE pc' = [pc EXCEPT ![w] = "complete"] /\ mem' = [mem EXCEPT ![w] = Completed(@)]
      <3>1. pc'[w] = "complete" /\ mem'[w] = Completed(mem[w])
        BY <1>2, <2>3 DEF TypeOK
      <3>2. /\ mem'[w].started = mem[w].started /\ mem'[w].offset = mem[w].offset
            /\ mem'[w].status = "COMPLETED" /\ mem'[w].age = 0
        BY <1>1, <3>1 DEF Completed, SyncTask
      <3>3. Goes
        BY <1>1, <1>3, <2>1, <3>1, <3>2 DEF ToWrite, OwnsRow, NotBehind, InLoop
      <3>4. QED
        BY <2>1, <3>3, LoopRow
    <2>4. CASE /\ pc' = [pc EXCEPT ![w] = "progress"]
               /\ mem' = [mem EXCEPT ![w] = Progressed(@, ProcessedCount(w))]
      <3>1. pc'[w] = "progress" /\ mem'[w] = Progressed(mem[w], ProcessedCount(w))
        BY <1>2, <2>4 DEF TypeOK
      <3>2. /\ mem'[w].started = mem[w].started /\ mem'[w].offset = mem[w].offset + mem[w].bs
            /\ mem'[w].status = mem[w].status /\ mem'[w].age = 0
        BY <1>1, <2>2, <3>1 DEF Progressed, SyncTask
      <3>3. mem'[w].offset >= tasks[id[w]].offset
        BY <1>1, <1>3, <2>2, <3>2
      <3>4. Goes
        BY <1>1, <1>3, <2>1, <3>1, <3>2, <3>3 DEF ToWrite, OwnsRow, NotBehind, InLoop
      <3>5. QED
        BY <2>1, <3>4, LoopRow
    <2>5. QED
      BY <1>10, <2>3, <2>4 DEF EndBatch, Goto
  <1>11. QED
    BY <1>5, <1>6, <1>7, <1>8, <1>9, <1>10 DEF Step, InLoop, WritePause, WriteStart

\* A step in a loop disturbs nobody: the table changes only in the row of the call,
\* which nobody else works on.
LEMMA LoopKeepsMutex ==
  ASSUME MutexInv, Spaced, TypeOK', NEW w \in Workers, pc[w] \in InLoop, Step(w)
  PROVE  MutexInv'
  <1>1. /\ clock' = clock /\ RowGoesOn(id[w]) /\ OthersStay(w)
        /\ \/ pc'[w] = "idle"
           \/ /\ pc'[w] \in InLoop /\ id'[w] = id[w] /\ mem'[w].started = mem[w].started
              /\ ToWrite(w)' /\ OwnsRow(w)' /\ NotBehind(w)'
    BY LoopStep, StepOthers DEF MutexInv
  <1>2. id[w] \in Rows /\ id[w] \in TaskIds /\ tasks'[id[w]].started = tasks[id[w]].started
    BY <1>1, RowTypes DEF MutexInv, RowGoesOn
  <1>3. Rows' = Rows
    BY <1>1, <1>2 DEF Rows, OthersStay, RowGoesOn
  <1>4. \A t \in Rows : /\ tasks'[t].started = tasks[t].started
                        /\ IsResumable(tasks'[t]) => IsResumable(tasks[t])
    BY <1>1, <1>2 DEF OthersStay, RowGoesOn, Rows
  <1>5. StartsAreCounted'
    <2>1. \A v \in Workers : pc'[v] # "idle" => pc[v] # "idle" /\ mem'[v].started = mem[v].started
      BY <1>1 DEF OthersStay, InLoop
    <2>2. QED
      BY <1>1, <1>3, <1>4, <2>1 DEF MutexInv, StartsAreCounted
  <1>6. ResumableIsLatest'
    BY <1>3, <1>4 DEF MutexInv, ResumableIsLatest
  <1>7. OneWorkerPerTask'
    BY <1>1 DEF MutexInv, OneWorkerPerTask, OthersStay, InLoop
  <1>8. ASSUME NEW v \in Workers PROVE CallInv(v)'
    <2>1. CASE v = w
      <3>1. pc'[w] \notin Entering
        BY <1>1 DEF InLoop, Entering
      <3>2. EntersAlone(w)'
        BY <3>1 DEF EntersAlone, Entering
      <3>3. CASE pc'[w] = "idle"
        BY <2>1, <3>2, <3>3 DEF CallInv, ToWrite, OwnsRow, NotBehind, InLoop
      <3>4. QED
        BY <1>1, <2>1, <3>2, <3>3 DEF CallInv
    <2>2. CASE v # w
      <3>1. pc'[v] = pc[v] /\ id'[v] = id[v] /\ mem'[v] = mem[v]
        BY <1>1, <2>2 DEF OthersStay
      <3>2. pc[v] # "idle" => id[v] \in TaskIds /\ tasks'[id[v]] = tasks[id[v]]
        <4>1. pc[v] # "idle" => id[v] # id[w]
          BY <2>2 DEF MutexInv, OneWorkerPerTask, InLoop
        <4>2. QED
          BY <1>1, <4>1 DEF OthersStay, MutexInv, TypeOK
      <3>3. CallInv(v)
        BY DEF MutexInv
      <3>4. ToWrite(v)' /\ OwnsRow(v)' /\ NotBehind(v)'
        BY <3>1, <3>2, <3>3 DEF CallInv, ToWrite, OwnsRow, NotBehind, InLoop
      <3>5. EntersAlone(v)'
        <4>1. pc'[v] \in Entering => \A x \in Workers : pc'[x] \in Entering => x = v
          BY <1>1, <3>1, <3>3 DEF CallInv, EntersAlone, OthersStay, InLoop, Entering
        <4>2. /\ pc'[v] \in {"pause", "start"} => IsResumable(tasks'[id'[v]])
              /\ pc'[v] = "pause" => mem'[v].started = tasks'[id'[v]].started
          BY <3>1, <3>2, <3>3 DEF CallInv, EntersAlone
        <4>3. pc'[v] = "create" => id'[v] \notin Rows' /\ \A t \in Rows' : ~IsResumable(tasks'[t])
          BY <1>3, <1>4, <3>1, <3>3 DEF CallInv, EntersAlone
        <4>4. pc'[v] \in {"start", "create"} =>
                /\ \A u \in Rows' : tasks'[u].started < mem'[v].started
                /\ mem'[v].age < StaleAge
          BY <1>3, <1>4, <3>1, <3>3 DEF CallInv, EntersAlone
        <4>5. QED
          BY <4>1, <4>2, <4>3, <4>4 DEF EntersAlone
      <3>6. QED
        BY <3>4, <3>5 DEF CallInv
    <2>3. QED
      BY <2>1, <2>2
  <1>9. QED
    BY <1>5, <1>6, <1>7, <1>8 DEF MutexInv

\* Where nobody else enters and only the row of w changes, the others hold on to
\* what they had.
LEMMA OthersKeep ==
  ASSUME MutexInv, NEW w \in Workers, OthersStay(w), NEW v \in Workers, v # w,
         pc[v] \notin Entering, pc[v] # "idle" => id[v] # id[w] \/ tasks' = tasks
  PROVE  CallInv(v)'
  <1>1. pc'[v] = pc[v] /\ id'[v] = id[v] /\ mem'[v] = mem[v]
    BY DEF OthersStay
  <1>2. pc[v] # "idle" => tasks'[id[v]] = tasks[id[v]]
    BY DEF OthersStay, MutexInv, TypeOK
  <1>3. CallInv(v)
    BY DEF MutexInv
  <1>4. EntersAlone(v)'
    BY <1>1 DEF EntersAlone, Entering
  <1>5. QED
    BY <1>1, <1>2, <1>3, <1>4 DEF CallInv, ToWrite, OwnsRow, NotBehind, InLoop

\* pause() is written, and the call goes on to start().
LEMMA PauseKeepsMutex ==
  ASSUME MutexInv, Spaced, TypeOK', NEW w \in Workers, WritePause(w)
  PROVE  MutexInv' /\ RowGoesOn(id[w])
  <1>1. /\ id[w] \in Rows /\ id[w] \in TaskIds /\ mem[w] \in SyncTask /\ mem[w].offset \in Nat
        /\ mem[w].started \in Nat /\ tasks[id[w]].offset \in Nat /\ StaleAge \in Nat
        /\ clock \in Nat /\ StaleAge > 0 /\ pc[w] = "pause"
        /\ \A t \in Rows : tasks[t].started \in Nat
    BY RowTypes DEF MutexInv, Spaced, WritePause
  <1>2. /\ IsResumable(tasks[id[w]]) /\ mem[w].started = tasks[id[w]].started
        /\ mem[w].status = "PAUSED" /\ mem[w].offset >= tasks[id[w]].offset
        /\ \A v \in Workers : v # w => pc[v] \notin Entering
    BY <1>1 DEF MutexInv, CallInv, EntersAlone, ToWrite, NotBehind, Entering
  <1>3. tasks' = tasks \/ tasks'[id[w]] = mem[w]
    BY <1>1 DEF WritePause, WriteRow, UpdateRaises, MutexInv, TypeOK
  <1>4. RowGoesOn(id[w])
    BY <1>1, <1>2, <1>3, NoTaskAssumption DEF RowGoesOn, StaysFinished, IsResumable, Rows
  <1>5. OthersStay(w)
    BY StepOthers DEF MutexInv, Step
  <1>6. Rows' = Rows
    BY <1>1, <1>4, <1>5 DEF Rows, OthersStay, RowGoesOn
  <1>7. \A t \in Rows : /\ tasks'[t].started = tasks[t].started
                        /\ IsResumable(tasks'[t]) => IsResumable(tasks[t])
    BY <1>1, <1>4, <1>5 DEF OthersStay, RowGoesOn, Rows
  <1>8. \/ clock' = clock /\ pc'[w] = "idle"
        \/ /\ clock' = clock + 1 /\ pc'[w] = "start" /\ id'[w] = id[w]
           /\ mem'[w] = Started(mem[w]) /\ tasks'[id[w]] = mem[w]
    BY <1>1 DEF WritePause, WriteRow, EndCall, Goto, MutexInv, TypeOK
  <1>9. pc'[w] = "start" =>
          /\ id'[w] = id[w] /\ tasks'[id[w]] = mem[w] /\ mem'[w].status = "RUNNING"
          /\ mem'[w].started = clock + 1 /\ clock' = clock + 1
          /\ mem'[w].age = 0 /\ mem'[w].offset = mem[w].offset
    BY <1>1, <1>8 DEF Started, SyncTask
  <1>10. StartsAreCounted'
    <2>1. clock <= clock' /\ clock' \in Nat
      BY <1>1, <1>8
    <2>2. \A t \in Rows' : tasks'[t].started <= clock'
      BY <1>1, <1>6, <1>7, <2>1 DEF MutexInv, StartsAreCounted
    <2>3. \A v \in Workers : pc'[v] # "idle" => mem'[v].started <= clock'
      <3>1. TAKE v \in Workers
      <3>2. CASE v = w
        BY <1>1, <1>8, <1>9, <3>2
      <3>3. CASE v # w
        BY <1>1, <1>5, <2>1, <3>3, RowTypes DEF OthersStay, MutexInv, StartsAreCounted
      <3>4. QED
        BY <3>2, <3>3
    <2>4. QED
      BY <2>2, <2>3 DEF StartsAreCounted
  <1>11. ResumableIsLatest'
    BY <1>6, <1>7 DEF MutexInv, ResumableIsLatest
  <1>12. OneWorkerPerTask'
    BY <1>1, <1>5, <1>8 DEF MutexInv, OneWorkerPerTask, OthersStay
  <1>13. ASSUME NEW v \in Workers PROVE CallInv(v)'
    <2>1. CASE v # w
      <3>1. pc[v] # "idle" => id[v] # id[w]
        BY <1>1, <2>1 DEF MutexInv, OneWorkerPerTask
      <3>2. QED
        BY <1>2, <1>5, <2>1, <3>1, OthersKeep
    <2>2. CASE v = w /\ pc'[w] = "idle"
      BY <2>2 DEF CallInv, ToWrite, EntersAlone, OwnsRow, NotBehind, InLoop, Entering
    <2>3. CASE v = w /\ pc'[w] = "start"
      <3>1. ToWrite(w)' /\ OwnsRow(w)' /\ NotBehind(w)'
        BY <1>1, <1>9, <2>3 DEF ToWrite, OwnsRow, NotBehind, InLoop
      <3>2. \A x \in Workers : pc'[x] \in Entering => x = w
        BY <1>2, <1>5 DEF OthersStay
      <3>3. \A u \in Rows' : tasks'[u].started < mem'[w].started
        BY <1>1, <1>6, <1>7, <1>9, <2>3 DEF MutexInv, StartsAreCounted
      <3>4. EntersAlone(w)'
        BY <1>1, <1>2, <1>9, <2>3, <3>2, <3>3 DEF EntersAlone, IsResumable
      <3>5. QED
        BY <2>3, <3>1, <3>4 DEF CallInv
    <2>4. QED
      BY <1>8, <2>1, <2>2, <2>3
  <1>14. QED
    BY <1>4, <1>10, <1>11, <1>12, <1>13 DEF MutexInv

\* What the action properties ask of one row.
NoWayBack(t) ==
  tasks[t] # NoTask =>
    /\ tasks'[t] # NoTask => tasks'[t].offset >= tasks[t].offset
    /\ StaysFinished(t)

\* The first write of a resumed or a new task.
LEMMA StartKeepsMutex ==
  ASSUME MutexInv, Spaced, TypeOK', NEW w \in Workers, WriteStart(w)
  PROVE  MutexInv' /\ NoWayBack(id[w])
  <1>1. /\ id[w] \in TaskIds /\ mem[w] \in SyncTask /\ mem[w].offset \in Nat
        /\ mem[w].started \in Nat /\ clock \in Nat /\ pc[w] \in {"start", "create"}
        /\ \A t \in Rows : tasks[t].started \in Nat /\ tasks[t].offset \in Nat
        /\ mem[w] # NoTask
    BY RowTypes, NoTaskAssumption DEF MutexInv, WriteStart
  <1>2. /\ pc[w] = "start" => id[w] \in Rows /\ IsResumable(tasks[id[w]])
                              /\ mem[w].offset >= tasks[id[w]].offset
        /\ pc[w] = "create" => id[w] \notin Rows /\ \A t \in Rows : ~IsResumable(tasks[t])
        /\ \A u \in Rows : tasks[u].started < mem[w].started
        /\ mem[w].status = "RUNNING" /\ mem[w].age < StaleAge /\ mem[w].started <= clock
        /\ \A v \in Workers : v # w => pc[v] \notin Entering
    BY <1>1, RowTypes
    DEF MutexInv, CallInv, EntersAlone, ToWrite, NotBehind, Entering, StartsAreCounted
  <1>3. \A t \in Rows : t # id[w] => ~IsResumable(tasks[t])
    <2>1. CASE pc[w] = "create"
      BY <1>2, <2>1
    <2>2. CASE pc[w] = "start"
      <3>1. TAKE t \in Rows
      <3>2. HAVE t # id[w]
      <3>3. id[w] \in Rows /\ tasks[t].started < tasks[id[w]].started
        BY <1>2, <2>2, <3>2 DEF MutexInv, ResumableIsLatest
      <3>4. IsResumable(tasks[t]) => tasks[id[w]].started < tasks[t].started
        BY <3>2, <3>3 DEF MutexInv, ResumableIsLatest
      <3>5. QED
        BY <1>1, <3>3, <3>4
    <2>3. QED
      BY <1>1, <2>1, <2>2
  <1>4. tasks' = tasks \/ tasks'[id[w]] = mem[w]
    BY <1>1 DEF WriteStart, WriteRow, UpdateRaises, MutexInv, TypeOK
  <1>5. OthersStay(w)
    BY StepOthers DEF MutexInv, Step
  <1>6. /\ clock' = clock
        /\ \/ pc'[w] = "idle"
           \/ pc'[w] = "fetch" /\ id'[w] = id[w] /\ mem'[w] = mem[w] /\ tasks'[id[w]] = mem[w]
    BY <1>1 DEF WriteStart, WriteRow, EndCall, Goto, MutexInv, TypeOK
  <1>7. NoWayBack(id[w])
    <2>1. CASE tasks' = tasks
      BY <1>1, <2>1 DEF NoWayBack, StaysFinished, Rows
    <2>2. CASE tasks'[id[w]] = mem[w] /\ id[w] \in Rows
      BY <1>1, <1>2, <2>2 DEF NoWayBack, StaysFinished, IsResumable
    <2>3. CASE id[w] \notin Rows
      BY <1>1, <2>3 DEF NoWayBack, Rows
    <2>4. QED
      BY <1>4, <2>1, <2>2, <2>3
  <1>8. StartsAreCounted'
    <2>1. \A t \in Rows' : tasks'[t].started <= clock'
      BY <1>1, <1>2, <1>4, <1>5, <1>6 DEF MutexInv, StartsAreCounted, Rows, OthersStay
    <2>2. \A v \in Workers : pc'[v] # "idle" => mem'[v].started <= clock'
      BY <1>1, <1>2, <1>5, <1>6 DEF MutexInv, StartsAreCounted, OthersStay
    <2>3. QED
      BY <2>1, <2>2 DEF StartsAreCounted
  <1>9. ResumableIsLatest'
    <2>1. CASE tasks' = tasks
      BY <2>1 DEF MutexInv, ResumableIsLatest, Rows
    <2>2. CASE tasks'[id[w]] = mem[w]
      <3>1. SUFFICES ASSUME NEW t \in Rows', NEW u \in Rows', IsResumable(tasks'[t]), u # t
                     PROVE  tasks'[u].started < tasks'[t].started
        BY DEF ResumableIsLatest
      <3>2. t = id[w]
        BY <1>3, <1>5, <3>1 DEF OthersStay, Rows
      <3>3. u \in Rows /\ tasks'[u] = tasks[u]
        BY <1>5, <3>1, <3>2 DEF OthersStay, Rows
      <3>4. QED
        BY <1>2, <2>2, <3>2, <3>3
    <2>3. QED
      BY <1>4, <2>1, <2>2
  <1>10. OneWorkerPerTask'
    BY <1>1, <1>5, <1>6 DEF MutexInv, OneWorkerPerTask, OthersStay
  <1>11. ASSUME NEW v \in Workers PROVE CallInv(v)'
    <2>1. CASE v # w
      <3>1. pc[v] # "idle" => id[v] # id[w]
        BY <1>1, <2>1 DEF MutexInv, OneWorkerPerTask
      <3>2. QED
        BY <1>2, <1>5, <2>1, <3>1, OthersKeep
    <2>2. CASE v = w /\ pc'[w] = "idle"
      BY <2>2 DEF CallInv, ToWrite, EntersAlone, OwnsRow, NotBehind, InLoop, Entering
    <2>3. CASE v = w /\ pc'[w] = "fetch"
      BY <1>1, <1>2, <1>6, <2>3
      DEF CallInv, ToWrite, EntersAlone, OwnsRow, NotBehind, InLoop, Entering
    <2>4. QED
      BY <1>6, <2>1, <2>2, <2>3
  <1>12. QED
    BY <1>7, <1>8, <1>9, <1>10, <1>11 DEF MutexInv

\* A call begins: the row it takes is stale, paused or new, and so nobody's.
LEMMA BeginKeepsMutex ==
  ASSUME MutexInv, Spaced, TypeOK', NEW w \in Workers, Begin(w)
  PROVE  MutexInv' /\ tasks' = tasks
  <1>1. tasks' = tasks /\ Rows' = Rows /\ pc[w] = "idle" /\ clock \in Nat /\ StaleAge \in Nat
        /\ StaleAge > 0 /\ \A v \in Workers : pc[v] \notin Entering
    BY RowTypes DEF Begin, Reject, BeginPause, BeginResume, BeginCreate, table, Rows, Spaced,
       MayEnter, MutexInv
  <1>2. CASE Reject(w)
    <2>1. pc' = pc /\ id' = id /\ mem' = mem /\ clock' = clock
      BY <1>2 DEF Reject, budget
    <2>2. StartsAreCounted' /\ ResumableIsLatest' /\ OneWorkerPerTask'
      BY <1>1, <2>1 DEF MutexInv, StartsAreCounted, ResumableIsLatest, OneWorkerPerTask
    <2>3. ASSUME NEW v \in Workers PROVE CallInv(v)'
      BY <1>1, <2>1 DEF MutexInv, CallInv, ToWrite, EntersAlone, OwnsRow, NotBehind
    <2>4. QED
      BY <1>1, <2>2, <2>3 DEF MutexInv
  <1>3. CASE BeginPause(w) \/ BeginResume(w) \/ BeginCreate(w)
    <2>1. PICK t \in TaskIds, task \in SyncTask, here \in Entering :
            /\ pc' = [pc EXCEPT ![w] = here]
            /\ id' = [id EXCEPT ![w] = t]
            /\ mem' = [mem EXCEPT ![w] = task]
            /\ \/ /\ here = "pause" /\ task = Paused(tasks[t]) /\ clock' = clock
                  /\ IsLatest(t) /\ tasks[t].status = "RUNNING" /\ IsStale(tasks[t])
               \/ /\ here = "start" /\ task = Started(tasks[t]) /\ clock' = clock + 1
                  /\ IsLatest(t) /\ tasks[t].status # "RUNNING" /\ IsResumable(tasks[t])
               \/ /\ here = "create" /\ task.started = clock + 1 /\ task.age = 0
                  /\ task.status = "RUNNING" /\ clock' = clock + 1
                  /\ t \notin Rows /\ \A v \in Workers : id[v] # t
                  /\ \A u \in TaskIds : IsLatest(u) => ~IsResumable(tasks[u])
      <3>1. CASE BeginPause(w)
        <4>1. PICK t \in TaskIds :
                /\ IsLatest(t) /\ tasks[t].status = "RUNNING" /\ IsStale(tasks[t])
                /\ id' = [id EXCEPT ![w] = t]
                /\ mem' = [mem EXCEPT ![w] = Paused(tasks[t])]
          BY <3>1 DEF BeginPause
        <4>2. Paused(tasks[t]) \in SyncTask
          BY <1>1, <4>1, TaskMethods, RowTypes DEF MutexInv, IsLatest
        <4>3. pc' = [pc EXCEPT ![w] = "pause"] /\ clock' = clock /\ "pause" \in Entering
          BY <3>1 DEF BeginPause, Goto, budget, Entering
        <4>4. QED
          BY <4>1, <4>2, <4>3
      <3>2. CASE BeginResume(w)
        <4>1. PICK t \in TaskIds :
                /\ IsLatest(t) /\ tasks[t].status # "RUNNING" /\ IsResumable(tasks[t])
                /\ id' = [id EXCEPT ![w] = t]
                /\ mem' = [mem EXCEPT ![w] = Started(tasks[t])]
          BY <3>2 DEF BeginResume
        <4>2. Started(tasks[t]) \in SyncTask
          BY <1>1, <4>1, TaskMethods, RowTypes DEF MutexInv, IsLatest
        <4>3. pc' = [pc EXCEPT ![w] = "start"] /\ clock' = clock + 1 /\ "start" \in Entering
          BY <3>2 DEF BeginResume, Goto, Entering
        <4>4. QED
          BY <4>1, <4>2, <4>3
      <3>3. CASE BeginCreate(w)
        <4>1. PICK t \in TaskIds \ Rows, bs \in BatchSizes :
                /\ \A v \in Workers : id[v] # t
                /\ id' = [id EXCEPT ![w] = t]
                /\ mem' = [mem EXCEPT ![w] = NewTask(bs)]
          BY <3>3 DEF BeginCreate
        <4>2. /\ NewTask(bs) \in SyncTask /\ NewTask(bs).started = clock + 1
              /\ NewTask(bs).age = 0 /\ NewTask(bs).status = "RUNNING"
          BY <1>1, NewTaskType DEF NewTask
        <4>3. /\ pc' = [pc EXCEPT ![w] = "create"] /\ clock' = clock + 1
              /\ "create" \in Entering
              /\ \A u \in TaskIds : IsLatest(u) => ~IsResumable(tasks[u])
          BY <3>3 DEF BeginCreate, Goto, Entering
        <4>4. QED
          BY <4>1, <4>2, <4>3
      <3>4. QED
        BY <1>3, <3>1, <3>2, <3>3
    <2>2. pc'[w] = here /\ id'[w] = t /\ mem'[w] = task
      BY <2>1 DEF MutexInv, TypeOK
    <2>3. \A v \in Workers : v # w =>
            pc'[v] = pc[v] /\ id'[v] = id[v] /\ mem'[v] = mem[v]
      <3>1. session' = [session EXCEPT ![w] = "ok"]
        BY <1>3 DEF BeginPause, BeginResume, BeginCreate, OpenSession
      <3>2. QED
        BY <2>1, <3>1 DEF MutexInv, TypeOK
    <2>4. \A v \in Workers : pc[v] # "idle" => id[v] # t
      <3>1. TAKE v \in Workers
      <3>2. HAVE pc[v] # "idle"
      <3>3. pc[v] \in InLoop /\ tasks[id[v]].age \in Nat
        BY <1>1, <3>2, RowTypes DEF MutexInv, TypeOK
      <3>4. \/ tasks[id[v]].status = "RUNNING" /\ tasks[id[v]].age < StaleAge
            \/ tasks[id[v]].status = "COMPLETED"
        BY <3>3 DEF MutexInv, CallInv, OwnsRow
      <3>5. QED
        BY <1>1, <2>1, <3>3, <3>4 DEF IsStale, IsResumable
    <2>5. /\ here = "pause" => /\ task.started = tasks[t].started /\ task.status = "PAUSED"
                               /\ task.offset = tasks[t].offset /\ IsResumable(tasks[t])
          /\ here = "start" => /\ task.started = clock + 1 /\ task.status = "RUNNING"
                               /\ task.offset = tasks[t].offset /\ task.age = 0
                               /\ IsResumable(tasks[t])
          /\ here \in {"pause", "start"} => t \in Rows
      <3>1. here \in {"pause", "start"} => t \in Rows /\ tasks[t] \in SyncTask
        BY <2>1, RowTypes DEF IsLatest, MutexInv
      <3>2. QED
        BY <2>1, <3>1 DEF Paused, Started, SyncTask, IsResumable
    <2>6. clock <= clock' /\ clock' \in Nat /\ task.started <= clock'
      <3>1. here = "pause" => tasks[t].started <= clock
        BY <2>5 DEF MutexInv, StartsAreCounted
      <3>2. QED
        BY <1>1, <2>1, <2>5, <3>1
    <2>7. StartsAreCounted'
      <3>1. \A u \in Rows' : tasks'[u].started <= clock'
        BY <1>1, <2>6, RowTypes DEF MutexInv, StartsAreCounted
      <3>2. \A v \in Workers : pc'[v] # "idle" => mem'[v].started <= clock'
        BY <1>1, <2>2, <2>3, <2>6, RowTypes DEF MutexInv, StartsAreCounted
      <3>3. QED
        BY <3>1, <3>2 DEF StartsAreCounted
    <2>8. ResumableIsLatest'
      BY <1>1 DEF MutexInv, ResumableIsLatest
    <2>9. OneWorkerPerTask'
      BY <2>2, <2>3, <2>4 DEF MutexInv, OneWorkerPerTask
    <2>10. ASSUME NEW v \in Workers PROVE CallInv(v)'
      <3>1. CASE v # w
        <4>1. OthersStay(w)
          BY <1>1, <2>3 DEF OthersStay
        <4>2. QED
          BY <1>1, <3>1, <4>1, OthersKeep
      <3>2. CASE v = w
        <4>1. \A x \in Workers : pc'[x] \in Entering => x = w
          BY <1>1, <2>3
        <4>2. here = "create" => \A u \in Rows : ~IsResumable(tasks[u])
          <5>1. SUFFICES ASSUME here = "create", NEW u \in Rows, IsResumable(tasks[u])
                         PROVE  FALSE
            OBVIOUS
          <5>2. \A x \in Rows : x # u => tasks[x].started < tasks[u].started
            BY <5>1 DEF MutexInv, ResumableIsLatest
          <5>3. \A x \in Rows : tasks[x].started \in Nat /\ x \in TaskIds
            BY RowTypes DEF MutexInv
          <5>4. IsLatest(u)
            BY <5>1, <5>2, <5>3 DEF IsLatest
          <5>5. QED
            BY <2>1, <5>1, <5>3, <5>4
        <4>3. here \in {"start", "create"} =>
                /\ \A u \in Rows : tasks[u].started < task.started
                /\ task.age < StaleAge
          <5>1. \A u \in Rows : tasks[u].started <= clock /\ tasks[u].started \in Nat
            BY RowTypes DEF MutexInv, StartsAreCounted
          <5>2. QED
            BY <1>1, <2>1, <2>5, <5>1
        <4>4. EntersAlone(w)'
          BY <1>1, <2>1, <2>2, <2>5, <4>1, <4>2, <4>3 DEF EntersAlone
        <4>5. ToWrite(w)' /\ OwnsRow(w)'
          BY <2>1, <2>2, <2>5 DEF ToWrite, OwnsRow, InLoop, Entering
        <4>6. NotBehind(w)'
          <5>1. here \in {"pause", "start"} => tasks[t].offset \in Nat
            BY <2>5, RowTypes DEF MutexInv
          <5>2. QED
            BY <1>1, <2>1, <2>2, <2>5, <5>1 DEF NotBehind, InLoop, Entering
        <4>7. QED
          BY <3>2, <4>4, <4>5, <4>6 DEF CallInv
      <3>3. QED
        BY <3>1, <3>2
    <2>11. QED
      BY <1>1, <2>7, <2>8, <2>9, <2>10 DEF MutexInv
  <1>4. QED
    BY <1>2, <1>3 DEF Begin

\* Time, a crash and a row that moves: ages grow, and no batch is late.
LEMMA EnvironmentKeepsMutex ==
  ASSUME MutexInv, Spaced, TypeOK', Crash \/ Tick \/ MoveRow
  PROVE  MutexInv' /\ \A t \in TaskIds : NoWayBack(t)
  <1>1. CASE Crash
    <2>1. tasks' = tasks /\ clock' = clock /\ \A w \in Workers : pc'[w] = "idle"
      BY <1>1 DEF Crash, table
    <2>2. StartsAreCounted' /\ ResumableIsLatest' /\ OneWorkerPerTask'
      BY <2>1 DEF MutexInv, StartsAreCounted, ResumableIsLatest, OneWorkerPerTask, Rows
    <2>3. \A w \in Workers : CallInv(w)'
      BY <2>1 DEF CallInv, ToWrite, EntersAlone, OwnsRow, NotBehind, InLoop, Entering
    <2>4. \A t \in TaskIds : NoWayBack(t)
      BY <2>1, RowTypes DEF NoWayBack, StaysFinished, MutexInv, Rows
    <2>5. QED
      BY <2>2, <2>3, <2>4 DEF MutexInv
  <1>2. CASE MoveRow
    <2>1. tasks' = tasks /\ clock' = clock /\ pc' = pc /\ id' = id /\ mem' = mem
      BY <1>2 DEF MoveRow, local
    <2>2. StartsAreCounted' /\ ResumableIsLatest' /\ OneWorkerPerTask'
      BY <2>1 DEF MutexInv, StartsAreCounted, ResumableIsLatest, OneWorkerPerTask, Rows
    <2>3. \A w \in Workers : CallInv(w)'
      BY <2>1 DEF MutexInv, CallInv, ToWrite, EntersAlone, OwnsRow, NotBehind, Rows
    <2>4. \A t \in TaskIds : NoWayBack(t)
      BY <2>1, RowTypes DEF NoWayBack, StaysFinished, MutexInv, Rows
    <2>5. QED
      BY <2>2, <2>3, <2>4 DEF MutexInv
  <1>3. CASE Tick
    <2>1. /\ tasks' = [t \in TaskIds |-> IF t \in Rows THEN Older(tasks[t]) ELSE NoTask]
          /\ mem' = [w \in Workers |-> IF mem[w] = NoTask THEN NoTask ELSE Older(mem[w])]
          /\ pc' = pc /\ id' = id /\ clock' = clock
          /\ \A w \in Workers : InTime(w)
      BY <1>3 DEF Tick, budget, Spaced
    <2>2. \A task \in SyncTask :
            /\ Older(task).started = task.started /\ Older(task).offset = task.offset
            /\ Older(task).status = task.status /\ Older(task) \in SyncTask
            /\ task.age < StaleAge => Older(task).age = task.age + 1
      BY TaskMethods DEF Older, SyncTask, MutexInv, TypeOK
    <2>3. \A t \in Rows : tasks'[t] = Older(tasks[t]) /\ tasks[t] \in SyncTask /\ t \in TaskIds
      BY <2>1, RowTypes DEF MutexInv
    <2>4. Rows' = Rows
      BY <2>1, <2>2, <2>3, NoTaskAssumption DEF Rows
    <2>5. \A w \in Workers : pc[w] # "idle" => mem'[w] = Older(mem[w]) /\ mem[w] \in SyncTask
      BY <2>1, RowTypes, NoTaskAssumption DEF MutexInv
    <2>6. StartsAreCounted'
      BY <2>1, <2>2, <2>3, <2>4, <2>5 DEF MutexInv, StartsAreCounted
    <2>7. ResumableIsLatest'
      BY <2>2, <2>3, <2>4 DEF MutexInv, ResumableIsLatest, IsResumable
    <2>8. OneWorkerPerTask'
      BY <2>1 DEF MutexInv, OneWorkerPerTask
    <2>9. ASSUME NEW w \in Workers PROVE CallInv(w)'
      <3>1. CallInv(w) /\ InTime(w) /\ StaleAge \in Nat
        BY <2>1, RowTypes DEF MutexInv
      <3>2. pc[w] \in {"pause", "start"} \cup InLoop => id[w] \in Rows
        BY RowTypes DEF MutexInv
      <3>3. ToWrite(w)'
        BY <2>1, <2>2, <2>5, <3>1 DEF CallInv, ToWrite
      <3>4. EntersAlone(w)'
        <4>1. pc'[w] \in Entering => \A v \in Workers : pc'[v] \in Entering => v = w
          BY <2>1, <3>1 DEF CallInv, EntersAlone
        <4>2. /\ pc'[w] \in {"pause", "start"} => IsResumable(tasks'[id'[w]])
              /\ pc'[w] = "pause" => mem'[w].started = tasks'[id'[w]].started
          BY <2>1, <2>2, <2>3, <2>5, <3>1, <3>2 DEF CallInv, EntersAlone, IsResumable
        <4>3. pc'[w] = "create" => id'[w] \notin Rows' /\ \A t \in Rows' : ~IsResumable(tasks'[t])
          BY <2>1, <2>2, <2>3, <2>4, <3>1 DEF CallInv, EntersAlone, IsResumable
        <4>4. pc'[w] \in {"start", "create"} =>
                /\ \A u \in Rows' : tasks'[u].started < mem'[w].started
                /\ mem'[w].age < StaleAge
          BY <2>1, <2>2, <2>3, <2>4, <2>5, <3>1 DEF CallInv, EntersAlone, InTime
        <4>5. QED
          BY <4>1, <4>2, <4>3, <4>4 DEF EntersAlone
      <3>5. OwnsRow(w)'
        <4>1. SUFFICES ASSUME pc[w] \in InLoop PROVE OwnsRow(w)'
          BY <2>1 DEF OwnsRow
        <4>2. /\ tasks'[id'[w]] = Older(tasks[id[w]]) /\ mem'[w] = Older(mem[w])
              /\ tasks[id[w]] \in SyncTask /\ mem[w] \in SyncTask
          BY <2>1, <2>3, <2>5, <3>2, <4>1 DEF InLoop
        <4>3. /\ mem[w].age + 1 < StaleAge /\ tasks[id[w]].age + 1 < StaleAge
              /\ mem[w].age \in Nat /\ tasks[id[w]].age \in Nat
          BY <3>1, <4>1, <4>2 DEF InTime, SyncTask
        <4>4. QED
          BY <2>1, <2>2, <3>1, <4>1, <4>2, <4>3 DEF CallInv, OwnsRow
      <3>6. NotBehind(w)'
        BY <2>1, <2>2, <2>3, <2>5, <3>1, <3>2 DEF CallInv, NotBehind, InLoop
      <3>7. QED
        BY <3>3, <3>4, <3>5, <3>6 DEF CallInv
    <2>10. \A t \in TaskIds : NoWayBack(t)
      BY <2>2, <2>3, RowTypes DEF NoWayBack, StaysFinished, MutexInv, Rows
    <2>11. QED
      BY <2>6, <2>7, <2>8, <2>9, <2>10 DEF MutexInv
  <1>4. QED
    BY <1>1, <1>2, <1>3

LEMMA MutexInit == Init => MutexInv
  <1>1. SUFFICES ASSUME Init PROVE MutexInv
    OBVIOUS
  <1>2. Rows = {} /\ \A w \in Workers : pc[w] = "idle"
    BY <1>1 DEF Init, Rows
  <1>3. StartsAreCounted /\ ResumableIsLatest /\ OneWorkerPerTask
    BY <1>2 DEF StartsAreCounted, ResumableIsLatest, OneWorkerPerTask
  <1>4. \A w \in Workers : CallInv(w)
    BY <1>2 DEF CallInv, ToWrite, EntersAlone, OwnsRow, NotBehind, InLoop, Entering
  <1>5. QED
    BY <1>1, <1>3, <1>4, TypeInit DEF MutexInv

\* Every step keeps the invariant and takes no row back.
LEMMA MutexNext ==
  ASSUME MutexInv, Spaced, [Next]_vars
  PROVE  MutexInv' /\ \A t \in TaskIds : NoWayBack(t)
  <1>1. TypeOK'
    BY TypeNext DEF MutexInv
  <1>2. ASSUME tasks' = tasks PROVE \A t \in TaskIds : NoWayBack(t)
    BY <1>2, RowTypes DEF NoWayBack, StaysFinished, MutexInv, Rows
  <1>3. CASE UNCHANGED vars
    <2>1. /\ tasks' = tasks /\ pc' = pc /\ id' = id /\ mem' = mem
          /\ clock' = clock
      BY <1>3 DEF vars
    <2>2. StartsAreCounted' /\ ResumableIsLatest' /\ OneWorkerPerTask'
      BY <2>1 DEF MutexInv, StartsAreCounted, ResumableIsLatest, OneWorkerPerTask, Rows
    <2>3. \A w \in Workers : CallInv(w)'
      BY <2>1 DEF MutexInv, CallInv, ToWrite, EntersAlone, OwnsRow, NotBehind, Rows
    <2>4. QED
      BY <1>1, <1>2, <2>1, <2>2, <2>3 DEF MutexInv
  <1>4. ASSUME NEW w \in Workers, Begin(w) PROVE MutexInv' /\ \A t \in TaskIds : NoWayBack(t)
    BY <1>1, <1>2, <1>4, BeginKeepsMutex
  <1>5. ASSUME NEW w \in Workers, Step(w) PROVE MutexInv' /\ \A t \in TaskIds : NoWayBack(t)
    <2>1. OthersStay(w) /\ \A t \in TaskIds : t # id[w] => NoWayBack(t)
      <3>1. OthersStay(w)
        BY <1>5, StepOthers DEF MutexInv
      <3>2. \A t \in TaskIds : tasks[t] # NoTask => tasks[t].offset \in Nat
        BY RowTypes DEF MutexInv, Rows
      <3>3. QED
        BY <3>1, <3>2 DEF OthersStay, NoWayBack, StaysFinished
    <2>2. CASE WritePause(w)
      BY <1>1, <2>1, <2>2, PauseKeepsMutex DEF RowGoesOn, NoWayBack
    <2>3. CASE WriteStart(w)
      BY <1>1, <2>1, <2>3, StartKeepsMutex
    <2>4. CASE pc[w] \in InLoop
      <3>1. MutexInv'
        BY <1>1, <1>5, <2>4, LoopKeepsMutex
      <3>2. NoWayBack(id[w])
        BY <1>5, <2>4, LoopStep DEF RowGoesOn, NoWayBack
      <3>3. QED
        BY <2>1, <3>1, <3>2
    <2>5. QED
      BY <1>5, <2>2, <2>3, <2>4
      DEF Step, FetchPage, SyncStock, EndBatch, WriteProgress, WriteComplete, WriteFailed, InLoop
  <1>6. CASE Crash \/ Tick \/ MoveRow
    BY <1>1, <1>6, EnvironmentKeepsMutex
  <1>7. QED
    BY <1>3, <1>4, <1>5, <1>6 DEF Next

\* If triggers are apart and batches are faster than the threshold, there is at
\* most one RUNNING row of a job type, whatever fails, crashes or moves.
THEOREM RunningIsUnique ==
  ASSUME Spaced
  PROVE  Spec => []AtMostOneRunning
  <1>1. MutexInv /\ [Next]_vars => MutexInv'
    BY MutexNext
  <1>2. MutexInv => AtMostOneRunning
    <2>1. SUFFICES ASSUME MutexInv PROVE AtMostOneRunning
      OBVIOUS
    <2>2. \A t \in Rows : tasks[t].started \in Nat
      BY <2>1, RowTypes DEF MutexInv
    <2>3. QED
      BY <2>1, <2>2 DEF MutexInv, ResumableIsLatest, AtMostOneRunning, IsResumable
  <1>3. QED
    BY <1>1, <1>2, MutexInit, PTL DEF Spec

\* ... no two calls work on one row,
THEOREM OwnersDiffer ==
  ASSUME Spaced
  PROVE  Spec => []OneWorkerPerTask
  <1>1. MutexInv /\ [Next]_vars => MutexInv'
    BY MutexNext
  <1>2. MutexInv => OneWorkerPerTask
    BY DEF MutexInv
  <1>3. QED
    BY <1>1, <1>2, MutexInit, PTL DEF Spec

\* ... no write moves a checkpoint back,
THEOREM OffsetsGrow ==
  ASSUME Spaced
  PROVE  Spec => OffsetNeverGoesBack
  <1>1. MutexInv /\ [Next]_vars => MutexInv'
    BY MutexNext
  <1>2. MutexInv /\ [Next]_vars
          => [\A t \in TaskIds :
                tasks[t] # NoTask /\ tasks'[t] # NoTask => tasks'[t].offset >= tasks[t].offset]_vars
    BY MutexNext DEF NoWayBack
  <1>3. QED
    BY <1>1, <1>2, MutexInit, PTL DEF Spec, OffsetNeverGoesBack

\* ... and a finished row is not worked on again: no call starts or resumes it, FAILED
\* is final, and COMPLETED gives way only to the FAILED of the call that completed it.
THEOREM FinishedRowsAreNotReopened ==
  ASSUME Spaced
  PROVE  Spec => FinishedIsNotReopened
  <1>1. MutexInv /\ [Next]_vars => MutexInv'
    BY MutexNext
  <1>2. MutexInv /\ [Next]_vars
          => [\A t \in TaskIds :
                tasks[t] # NoTask /\ tasks[t].status \in {"COMPLETED", "FAILED"}
                  => \/ tasks'[t].status = tasks[t].status
                     \/ /\ tasks'[t].status = "FAILED"
                        /\ \E w \in Workers : id[w] = t /\ pc[w] = "fail"]_vars
    BY MutexNext DEF NoWayBack, StaysFinished
  <1>3. QED
    BY <1>1, <1>2, MutexInit, PTL DEF Spec, FinishedIsNotReopened

-----------------------------------------------------------------------------
(* One failing stock (the daily use case).                                  *)
(*                                                                         *)
(* The property speaks of the end of a batch; what the steps preserve is    *)
(* the same bound for the part of the page that was passed already.  A call *)
(* whose session is aborted is outside of it: from then on nothing of the   *)
(* page is saved.                                                           *)

\* The stocks that call w passed over although there was something to save.
Passed(w) == {page[w][i] : i \in {j \in 1..Len(page[w]) : j < pos[w]}}
Unsaved(w) == Passed(w) \ (saved \cup NoData)

IsolationInv ==
  /\ TypeOK
  /\ \A w \in Workers :
       pc[w] = "stock" /\ session[w] = "ok" => Cardinality(Unsaved(w)) <= faults

\* What was passed of a page is finite.
LEMMA PassedFinite ==
  ASSUME TypeOK, NEW w \in Workers
  PROVE  IsFiniteSet(Unsaved(w)) /\ Cardinality(Unsaved(w)) \in Nat
  <1> DEFINE I == {j \in 1..Len(page[w]) : j < pos[w]}
             F == [i \in I |-> page[w][i]]
  <1>1. Len(page[w]) \in Nat
    BY LenProperties DEF TypeOK
  <1>2. IsFiniteSet(1..Len(page[w]))
    BY <1>1, FS_Interval
  <1>3. IsFiniteSet(I)
    BY <1>2, FS_Subset, I \subseteq 1..Len(page[w])
  <1>4. IsFiniteSet({F[i] : i \in I})
    <2>1. F \in Surjection(I, {F[i] : i \in I})
      BY DEF Surjection
    <2>2. QED
      BY <1>3, <2>1, FS_Surjection
  <1>5. Passed(w) = {F[i] : i \in I}
    BY DEF Passed
  <1>6. IsFiniteSet(Unsaved(w))
    BY <1>4, <1>5, FS_Subset, Unsaved(w) \subseteq Passed(w) DEF Unsaved
  <1>7. QED
    BY <1>6, FS_CardinalityType

\* A step that leaves the pages alone and forgets nothing that was saved.
LEMMA IsolationQuiet ==
  ASSUME IsolationInv, TypeOK', NEW v \in Workers, faults' >= faults, saved \subseteq saved',
         page'[v] = page[v], pos'[v] = pos[v], pc'[v] = pc[v], session'[v] = session[v],
         pc'[v] = "stock", session'[v] = "ok"
  PROVE  Cardinality(Unsaved(v)') <= faults'
  <1>1. Unsaved(v)' \subseteq Unsaved(v)
    BY DEF Unsaved, Passed
  <1>2. Cardinality(Unsaved(v)') <= Cardinality(Unsaved(v)) /\ Cardinality(Unsaved(v)') \in Nat
    BY <1>1, PassedFinite, FS_Subset, FS_CardinalityType DEF IsolationInv
  <1>3. Cardinality(Unsaved(v)) <= faults /\ Cardinality(Unsaved(v)) \in Nat /\ faults \in Nat /\ faults' \in Nat
    BY PassedFinite DEF IsolationInv, TypeOK
  <1>4. QED
    BY <1>2, <1>3

\* A step of a call concerns its own session.
LEMMA StepSessions ==
  ASSUME TypeOK, NEW w \in Workers, Step(w)
  PROVE  \A v \in Workers : v # w => session'[v] = session[v]
  <1>1. session' = session \/ \E s \in {"aborted"} : session' = [session EXCEPT ![w] = s]
    BY DEF Step, WritePause, WriteStart, FetchPage, SyncStock, EndBatch, WriteProgress, WriteComplete,
       WriteFailed, SaveStock, SkipStock, DailyStockFails, FinanceStockFails, StockRaises,
       StatementRuns, StatementRaises, CheckoutFails, UpdateRaises
  <1>2. QED
    BY <1>1 DEF TypeOK

\* The stock at hand: saved, without data, or paid for with a fault.
LEMMA IsolationStock ==
  ASSUME IsolationInv, TypeOK', NEW w \in Workers, SyncStock(w), session'[w] = "ok", pc'[w] = "stock"
  PROVE  Cardinality(Unsaved(w)') <= faults'
  <1>1. /\ Cardinality(Unsaved(w)) \in Nat /\ IsFiniteSet(Unsaved(w)) /\ faults \in Nat
        /\ pos[w] \in Nat /\ pos[w] <= Len(page[w]) /\ pc[w] = "stock" /\ Len(page[w]) \in Nat
    BY PassedFinite, LenProperties DEF IsolationInv, TypeOK, SyncStock
  <1>2. /\ page' = page /\ pos'[w] = pos[w] + 1
        /\ SaveStock(w) \/ SkipStock(w) \/ DailyStockFails(w)
    BY DEF SyncStock, SaveStock, SkipStock, DailyStockFails, FinanceStockFails, NextStock, Except,
       IsolationInv, TypeOK
  <1>3. Passed(w)' = Passed(w) \cup {Stock(w)}
    <2>1. {j \in 1..Len(page[w]) : j < pos[w] + 1} = {j \in 1..Len(page[w]) : j < pos[w]} \cup {pos[w]}
      BY <1>1, pos[w] \in 1..Len(page[w]) DEF IsolationInv, TypeOK
    <2>2. Passed(w)' = {page[w][i] : i \in {j \in 1..Len(page[w]) : j < pos[w] + 1}}
      BY <1>2 DEF Passed
    <2>3. QED
      BY <2>1, <2>2 DEF Passed, Stock
  <1>4. saved \subseteq saved'
    BY <1>2 DEF SaveStock, SkipStock, DailyStockFails
  <1>5. CASE SaveStock(w) \/ SkipStock(w)
    <2>1. Unsaved(w)' \subseteq Unsaved(w)
      BY <1>3, <1>5 DEF Unsaved, SaveStock, SkipStock
    <2>2. faults' = faults /\ session[w] = "ok"
      BY <1>5 DEF SaveStock, SkipStock, StatementRuns, NoFault, IsolationInv, TypeOK
    <2>3. Cardinality(Unsaved(w)') <= Cardinality(Unsaved(w)) /\ Cardinality(Unsaved(w)') \in Nat
      BY <1>1, <2>1, FS_Subset, FS_CardinalityType
    <2>4. QED
      BY <1>1, <2>2, <2>3 DEF IsolationInv
  <1>6. CASE DailyStockFails(w)
    <2>1. ~StatementRaises(w)
      BY DEF StatementRaises, IsolationInv, TypeOK
    <2>2. faults' = faults + 1 /\ session[w] = "ok"
      BY <1>6, <2>1 DEF DailyStockFails, StockRaises, CheckoutFails, Fault
    <2>3. Unsaved(w)' \subseteq Unsaved(w) \cup {Stock(w)}
      BY <1>3, <1>4 DEF Unsaved
    <2>4. /\ IsFiniteSet(Unsaved(w) \cup {Stock(w)})
          /\ Cardinality(Unsaved(w) \cup {Stock(w)}) <= Cardinality(Unsaved(w)) + 1
          /\ Cardinality(Unsaved(w) \cup {Stock(w)}) \in Nat
      <3>1. /\ IsFiniteSet(Unsaved(w) \cup {Stock(w)})
            /\ Cardinality(Unsaved(w) \cup {Stock(w)})
                 = IF Stock(w) \in Unsaved(w) THEN Cardinality(Unsaved(w)) ELSE Cardinality(Unsaved(w)) + 1
        BY <1>1, FS_AddElement
      <3>2. QED
        BY <1>1, <3>1
    <2>5. Cardinality(Unsaved(w)') <= Cardinality(Unsaved(w) \cup {Stock(w)}) /\ Cardinality(Unsaved(w)') \in Nat
      BY <2>3, <2>4, FS_Subset, FS_CardinalityType
    <2>6. Cardinality(Unsaved(w)) <= faults
      BY <1>1, <2>2 DEF IsolationInv
    <2>7. QED
      BY <1>1, <2>2, <2>4, <2>5, <2>6
  <1>7. QED
    BY <1>2, <1>5, <1>6

\* Nothing is ever unsaved and no fault is forgotten.
LEMMA SavedGrows ==
  ASSUME TypeOK, [Next]_vars
  PROVE  saved \subseteq saved' /\ faults' \in Nat /\ faults' >= faults
  <1>1. faults' \in Nat /\ faults \in Nat
    BY TypeNext DEF TypeOK
  <1>2. \A w \in Workers :
          StatementRuns(w) \/ StatementRaises(w) \/ CheckoutFails(w) \/ UpdateRaises(w)
            => faults' >= faults
    BY <1>1 DEF StatementRuns, StatementRaises, CheckoutFails, UpdateRaises, Fault, NoFault
  <1>3. ASSUME NEW w \in Workers, Begin(w) PROVE saved' = saved /\ faults' = faults
    BY <1>3 DEF Begin, Reject, BeginPause, BeginResume, BeginCreate, table, budget
  <1>4. ASSUME NEW w \in Workers, Step(w) PROVE saved \subseteq saved' /\ faults' >= faults
    <2>1. CASE WritePause(w) \/ WriteStart(w) \/ WriteProgress(w) \/ WriteComplete(w) \/ WriteFailed(w)
      BY <1>2, <2>1 DEF WritePause, WriteStart, WriteProgress, WriteComplete, WriteFailed
    <2>2. CASE FetchPage(w)
      BY <1>2, <2>2 DEF FetchPage, table
    <2>3. CASE EndBatch(w)
      BY <1>1, <2>3 DEF EndBatch, table, budget
    <2>4. CASE SyncStock(w)
      <3>1. saved \subseteq saved'
        BY <2>4 DEF SyncStock, SaveStock, SkipStock, DailyStockFails, FinanceStockFails
      <3>2. faults' >= faults
        BY <1>1, <1>2, <2>4
        DEF SyncStock, SaveStock, SkipStock, DailyStockFails, FinanceStockFails, StockRaises, Fault, NoFault
      <3>3. QED
        BY <3>1, <3>2
    <2>5. QED
      BY <1>4, <2>1, <2>2, <2>3, <2>4 DEF Step
  <1>5. CASE Crash \/ Tick \/ MoveRow
    BY <1>1, <1>5 DEF Crash, Tick, MoveRow, table, budget
  <1>6. CASE UNCHANGED vars
    BY <1>1, <1>6 DEF vars
  <1>7. QED
    BY <1>1, <1>3, <1>4, <1>5, <1>6 DEF Next

LEMMA IsolationInit == Init => IsolationInv
  BY TypeInit DEF Init, IsolationInv

LEMMA IsolationNext == IsolationInv /\ [Next]_vars => IsolationInv'
  <1> SUFFICES ASSUME IsolationInv, [Next]_vars PROVE IsolationInv'
    OBVIOUS
  <1>1. TypeOK /\ TypeOK' /\ saved \subseteq saved' /\ faults' >= faults /\ faults' \in Nat
    BY TypeNext, SavedGrows DEF IsolationInv
  <1> DEFINE Fine(v) == pc'[v] = "stock" /\ session'[v] = "ok" => Cardinality(Unsaved(v)') <= faults'
             Still(v) == /\ page'[v] = page[v] /\ pos'[v] = pos[v]
                         /\ pc'[v] = pc[v] /\ session'[v] = session[v]
  <1>2. \A v \in Workers : Still(v) => Fine(v)
    BY <1>1, IsolationQuiet
  <1>3. ASSUME NEW w \in Workers, Begin(w) PROVE \A v \in Workers : Still(v) \/ pc'[v] # "stock"
    BY <1>1, <1>3 DEF Begin, Reject, BeginPause, BeginResume, BeginCreate, OpenSession, Goto, TypeOK
  <1>4. ASSUME NEW w \in Workers, Step(w) PROVE \A v \in Workers : Fine(v)
    <2>1. \A v \in Workers : v # w => Still(v)
      <3>1. \A v \in Workers : v # w => pc'[v] = pc[v] /\ session'[v] = session[v]
        BY <1>1, <1>4, StepOthers, StepSessions DEF OthersStay
      <3>2. \A v \in Workers : v # w => page'[v] = page[v] /\ pos'[v] = pos[v]
        BY <1>1, <1>4 DEF Step, WritePause, WriteStart, FetchPage, SyncStock, EndBatch, WriteProgress,
           WriteComplete, WriteFailed, EndCall, Except, SaveStock, SkipStock, DailyStockFails,
           FinanceStockFails, NextStock, TypeOK
      <3>3. QED
        BY <3>1, <3>2
    <2>2. Fine(w)
      <3>1. CASE SyncStock(w)
        BY <1>1, <3>1, IsolationStock
      <3>2. CASE FetchPage(w)
        <4>1. SUFFICES ASSUME pc'[w] = "stock" PROVE Cardinality(Unsaved(w)') <= faults'
          OBVIOUS
        <4>2. pos'[w] = 1
          BY <1>1, <3>2, <4>1 DEF FetchPage, Except, TypeOK
        <4>3. Unsaved(w)' = {}
          BY <4>2 DEF Unsaved, Passed
        <4>4. QED
          BY <1>1, <4>3, FS_EmptySet
      <3>3. CASE ~SyncStock(w) /\ ~FetchPage(w)
        <4>1. pc'[w] # "stock"
          BY <1>1, <1>4, <3>3 DEF Step, WritePause, WriteStart, EndBatch, WriteProgress,
             WriteComplete, WriteFailed, EndCall, Except, Goto, TypeOK
        <4>2. QED
          BY <4>1
      <3>4. QED
        BY <3>1, <3>2, <3>3
    <2>3. QED
      BY <1>2, <2>1, <2>2
  <1>5. CASE Crash
    BY <1>1, <1>5 DEF Crash, IsolationInv
  <1>6. CASE Tick \/ MoveRow \/ UNCHANGED vars
    <2>1. \A v \in Workers : Still(v)
      BY <1>6 DEF Tick, MoveRow, local, vars
    <2>2. QED
      BY <1>1, <1>2, <2>1 DEF IsolationInv
  <1>7. (\A v \in Workers : Fine(v)) => IsolationInv'
    BY <1>1 DEF IsolationInv
  <1>8. QED
    BY <1>2, <1>3, <1>4, <1>5, <1>6, <1>7 DEF Next

\* Unless a statement of the database fails, no session is aborted.
SessionsRun == \A w \in Workers : session[w] = "ok"

LEMMA SessionsInit == Init => SessionsRun
  BY DEF Init, SessionsRun

LEMMA SessionsNext ==
  "db" \notin FaultKinds /\ TypeOK /\ SessionsRun /\ [Next]_vars => SessionsRun'
  <1> SUFFICES ASSUME "db" \notin FaultKinds, TypeOK, SessionsRun, [Next]_vars PROVE SessionsRun'
    OBVIOUS
  <1>1. \A w \in Workers : ~StatementRaises(w) /\ ~CheckoutFails(w) /\ ~UpdateRaises(w)
    BY DEF StatementRaises, CheckoutFails, UpdateRaises, SessionsRun, Fault
  <1>2. ASSUME NEW w \in Workers, Begin(w) PROVE SessionsRun'
    BY <1>2 DEF Begin, Reject, BeginPause, BeginResume, BeginCreate, OpenSession, SessionsRun, TypeOK
  <1>3. ASSUME NEW w \in Workers, Step(w) PROVE session' = session
    BY <1>1, <1>3 DEF Step, WritePause, WriteStart, FetchPage, SyncStock, EndBatch, WriteProgress,
       WriteComplete, WriteFailed, SaveStock, SkipStock, DailyStockFails, FinanceStockFails,
       StockRaises, StatementRuns
  <1>4. CASE Crash \/ Tick \/ MoveRow \/ UNCHANGED vars
    BY <1>4 DEF Crash, Tick, MoveRow, local, vars, SessionsRun
  <1>5. QED
    BY <1>2, <1>3, <1>4 DEF Next, SessionsRun

\* A failing stock costs no other stock its data, whatever raises and for every
\* table, page size and number of calls, as long as the session can be used:
\* SyncDailyHistoryCmd catches the exception per stock.
THEOREM OneStockFailsAlone == Spec => []SingleStockFailureIsolated
  <1>1. IsolationInv => SingleStockFailureIsolated
    <2> SUFFICES ASSUME IsolationInv, NEW w \in Workers,
                        pc[w] = "stock", pos[w] > Len(page[w]), session[w] = "ok"
                 PROVE  Cardinality(ToSet(page[w]) \ (saved \cup NoData)) <= faults
      BY DEF SingleStockFailureIsolated
    <2>1. Len(page[w]) \in Nat /\ pos[w] \in Nat
      BY LenProperties DEF IsolationInv, TypeOK
    <2>2. ToSet(page[w]) = Passed(w)
      <3>1. {j \in 1..Len(page[w]) : j < pos[w]} = 1..Len(page[w])
        BY <2>1
      <3>2. DOMAIN page[w] = 1..Len(page[w])
        BY LenProperties DEF IsolationInv, TypeOK
      <3>3. QED
        BY <3>1, <3>2 DEF ToSet, Passed
    <2>3. QED
      BY <2>2 DEF IsolationInv, Unsaved
  <1>2. QED
    BY IsolationInit, IsolationNext, <1>1, PTL DEF Spec

-----------------------------------------------------------------------------
(* A call leaves a finished row.                                            *)
(*                                                                         *)
(* What a RUNNING row owes its call is preserved because a call lets go of   *)
(* its row only after a write of COMPLETED or FAILED: the invariant says     *)
(* what the two last awaits are about to write and that only a call under    *)
(* way has a row.  A statement that fails would break it: the write in the   *)
(* except clause then raises too.                                            *)

TidyInv ==
  /\ TypeOK /\ SessionsRun /\ RaisedMeansFinished
  /\ \A w \in Workers :
       /\ pc[w] = "idle" => id[w] = NoTask
       /\ pc[w] = "complete" => mem[w].status = "COMPLETED"
       /\ pc[w] = "fail" => mem[w].status = "FAILED"

\* The call's own part of it.
Tidy(w) ==
  /\ pc'[w] = "idle" => id'[w] = NoTask
  /\ pc'[w] = "complete" => mem'[w].status = "COMPLETED"
  /\ pc'[w] = "fail" => mem'[w].status = "FAILED"

LEMMA TidyInit == Init => TidyInv
  <1> SUFFICES ASSUME Init PROVE TidyInv
    OBVIOUS
  <1>1. RaisedMeansFinished
    BY DEF Init, RaisedMeansFinished, Rows
  <1>2. \A w \in Workers : pc[w] = "idle" /\ id[w] = NoTask
    BY DEF Init
  <1>3. QED
    BY <1>1, <1>2, TypeInit, SessionsInit DEF TidyInv

\* A call that begins takes a row in hand and writes none.
LEMMA TidyBegin ==
  ASSUME TidyInv, NEW w \in Workers, Begin(w)
  PROVE  /\ tasks' = tasks /\ crashes' = crashes /\ (id'[w] = id[w] \/ id[w] = NoTask)
         /\ Tidy(w)
         /\ \A v \in Workers : v # w => pc'[v] = pc[v] /\ id'[v] = id[v] /\ mem'[v] = mem[v]
  <1> USE DEF TidyInv, TypeOK, MayEnter, table, budget, Goto
  <1>1. CASE Reject(w)
    BY <1>1 DEF Reject, Tidy
  <1>2. CASE BeginPause(w)
    <2>1. PICK t \in TaskIds : id' = [id EXCEPT ![w] = t] /\ mem' = [mem EXCEPT ![w] = Paused(tasks[t])]
      BY <1>2 DEF BeginPause
    <2>2. pc' = [pc EXCEPT ![w] = "pause"] /\ tasks' = tasks /\ crashes' = crashes /\ pc[w] = "idle"
      BY <1>2 DEF BeginPause
    <2>3. QED
      BY <2>1, <2>2 DEF Tidy
  <1>3. CASE BeginResume(w)
    <2>1. PICK t \in TaskIds : id' = [id EXCEPT ![w] = t] /\ mem' = [mem EXCEPT ![w] = Started(tasks[t])]
      BY <1>3 DEF BeginResume
    <2>2. pc' = [pc EXCEPT ![w] = "start"] /\ tasks' = tasks /\ crashes' = crashes /\ pc[w] = "idle"
      BY <1>3 DEF BeginResume
    <2>3. QED
      BY <2>1, <2>2 DEF Tidy
  <1>4. CASE BeginCreate(w)
    <2>1. PICK t \in TaskIds, bs \in BatchSizes :
            id' = [id EXCEPT ![w] = t] /\ mem' = [mem EXCEPT ![w] = NewTask(bs)]
      BY <1>4 DEF BeginCreate
    <2>2. pc' = [pc EXCEPT ![w] = "create"] /\ tasks' = tasks /\ crashes' = crashes /\ pc[w] = "idle"
      BY <1>4 DEF BeginCreate
    <2>3. QED
      BY <2>1, <2>2 DEF Tidy
  <1>5. QED
    BY <1>1, <1>2, <1>3, <1>4 DEF Begin

\* A call under way keeps its row until it has written how it ended.
LEMMA TidyStep ==
  ASSUME "db" \notin FaultKinds, TidyInv, NEW w \in Workers, Step(w)
  PROVE  /\ Tidy(w) /\ crashes' = crashes
         /\ \/ id'[w] = id[w] /\ id[w] # NoTask
            \/ id[w] \in TaskIds /\ tasks'[id[w]].status # "RUNNING"
  <1> USE DEF TidyInv, TypeOK, Goto
  <1>1. ~StatementRaises(w) /\ ~UpdateRaises(w)
    BY DEF StatementRaises, CheckoutFails, UpdateRaises, SessionsRun, Fault
  <1>2. pc[w] # "idle" /\ id[w] \in TaskIds /\ mem[w] \in SyncTask /\ id[w] # NoTask
    <2>1. pc[w] # "idle"
      BY DEF Step, WritePause, WriteStart, FetchPage, SyncStock, EndBatch, WriteProgress,
         WriteComplete, WriteFailed
    <2>2. QED
      BY <2>1, AtHand
  <1>3. WriteRow(w) => tasks'[id[w]] = mem[w]
    BY <1>2 DEF WriteRow
  <1>4. Except(w) => pc'[w] = "fail" /\ mem'[w].status = "FAILED" /\ id'[w] = id[w]
    BY <1>2 DEF Except, Failed, SyncTask
  <1>5. \A how \in {"completed", "raised"} : EndCall(w, how) => pc'[w] = "idle" /\ id'[w] = NoTask
    BY DEF EndCall
  <1>6. CASE WritePause(w)
    <2>1. pc' = [pc EXCEPT ![w] = "start"] /\ id' = id /\ crashes' = crashes
      BY <1>1, <1>6 DEF WritePause
    <2>2. QED
      BY <1>2, <2>1 DEF Tidy
  <1>7. CASE WriteStart(w) \/ WriteProgress(w)
    <2>1. pc' = [pc EXCEPT ![w] = "fetch"] /\ id' = id /\ crashes' = crashes
      BY <1>1, <1>7 DEF WriteStart, WriteProgress
    <2>2. QED
      BY <1>2, <2>1 DEF Tidy
  <1>8. CASE FetchPage(w)
    <2>1. pc' = [pc EXCEPT ![w] = "stock"] /\ id' = id /\ crashes' = crashes
      BY <1>1, <1>8 DEF FetchPage
    <2>2. QED
      BY <1>2, <2>1 DEF Tidy
  <1>9. CASE SyncStock(w)
    <2>1. \/ pc' = pc /\ id' = id /\ mem' = mem
          \/ Except(w)
      BY <1>9 DEF SyncStock, SaveStock, SkipStock, DailyStockFails, FinanceStockFails, NextStock
    <2>2. crashes' = crashes /\ pc[w] = "stock"
      BY <1>9 DEF SyncStock
    <2>3. QED
      BY <1>2, <1>4, <2>1, <2>2 DEF Tidy
  <1>10. CASE EndBatch(w)
    <2>1. \/ pc'[w] = "complete" /\ mem'[w] = Completed(mem[w])
          \/ pc'[w] = "progress"
      BY <1>10 DEF EndBatch
    <2>2. Completed(mem[w]).status = "COMPLETED"
      BY <1>2 DEF Completed, SyncTask
    <2>3. id' = id /\ crashes' = crashes
      BY <1>10 DEF EndBatch, budget
    <2>4. QED
      BY <1>2, <2>1, <2>2, <2>3 DEF Tidy
  <1>11. CASE WriteComplete(w)
    <2>1. WriteRow(w) /\ EndCall(w, "completed") /\ crashes' = crashes /\ pc[w] = "complete"
      BY <1>1, <1>11 DEF WriteComplete
    <2>2. QED
      BY <1>2, <1>3, <1>5, <2>1 DEF Tidy
  <1>12. CASE WriteFailed(w)
    <2>1. WriteRow(w) /\ EndCall(w, "raised") /\ crashes' = crashes /\ pc[w] = "fail"
      BY <1>1, <1>12 DEF WriteFailed
    <2>2. QED
      BY <1>2, <1>3, <1>5, <2>1 DEF Tidy
  <1>13. QED
    BY <1>6, <1>7, <1>8, <1>9, <1>10, <1>11, <1>12 DEF Step

\* A row that is RUNNING after a step was so before it, or is in the hand of the
\* call that stepped.
LEMMA TidyNext ==
  "db" \notin FaultKinds /\ TidyInv /\ [Next]_vars => TidyInv'
  <1> SUFFICES ASSUME "db" \notin FaultKinds, TidyInv, [Next]_vars PROVE TidyInv'
    OBVIOUS
  <1>1. TypeOK /\ TypeOK' /\ SessionsRun'
    BY TypeNext, SessionsNext DEF TidyInv
  <1>2. ASSUME NEW w \in Workers, Begin(w) PROVE TidyInv'
    <2>1. /\ tasks' = tasks /\ crashes' = crashes /\ (id'[w] = id[w] \/ id[w] = NoTask)
          /\ Tidy(w)
          /\ \A v \in Workers : v # w => pc'[v] = pc[v] /\ id'[v] = id[v] /\ mem'[v] = mem[v]
      BY <1>2, TidyBegin
    <2>2. RaisedMeansFinished'
      BY <2>1, IdAssumption DEF RaisedMeansFinished, Rows, TidyInv
    <2>3. QED
      BY <1>1, <2>1, <2>2 DEF TidyInv, Tidy
  <1>3. ASSUME NEW w \in Workers, Step(w) PROVE TidyInv'
    <2>1. /\ Tidy(w) /\ crashes' = crashes
          /\ \/ id'[w] = id[w] /\ id[w] # NoTask
             \/ id[w] \in TaskIds /\ tasks'[id[w]].status # "RUNNING"
      BY <1>3, TidyStep
    <2>2. OthersStay(w)
      BY <1>1, <1>3, StepOthers
    <2>3. RaisedMeansFinished'
      <3>1. SUFFICES ASSUME NEW t \in Rows', tasks'[t].status = "RUNNING", ~(crashes > 0)
                     PROVE  \E v \in Workers : id'[v] = t
        BY <2>1 DEF RaisedMeansFinished
      <3>2. CASE t = id[w]
        BY <2>1, <3>1, <3>2
      <3>3. CASE t # id[w]
        <4>1. tasks'[t] = tasks[t] /\ t \in Rows
          BY <2>2, <3>3 DEF OthersStay, Rows
        <4>2. PICK v \in Workers : id[v] = t
          BY <3>1, <4>1 DEF TidyInv, RaisedMeansFinished
        <4>3. id'[v] = t
          BY <2>2, <3>3, <4>2 DEF OthersStay
        <4>4. QED
          BY <4>3
      <3>4. QED
        BY <3>2, <3>3
    <2>4. QED
      BY <1>1, <2>1, <2>2, <2>3 DEF TidyInv, Tidy, OthersStay
  <1>4. CASE Crash
    <2>1. crashes' > 0
      BY <1>1, <1>4 DEF Crash, TypeOK
    <2>2. \A w \in Workers : pc'[w] = "idle" /\ id'[w] = NoTask
      BY <1>4 DEF Crash
    <2>3. QED
      BY <1>1, <2>1, <2>2 DEF TidyInv, RaisedMeansFinished
  <1>5. CASE Tick
    <2>1. /\ pc' = pc /\ id' = id /\ crashes' = crashes
          /\ tasks' = [t \in TaskIds |-> IF t \in Rows THEN Older(tasks[t]) ELSE NoTask]
          /\ mem' = [w \in Workers |-> IF mem[w] = NoTask THEN NoTask ELSE Older(mem[w])]
      BY <1>5 DEF Tick, budget
    <2>2. \A task \in SyncTask : Older(task).status = task.status
      BY DEF Older, SyncTask
    <2>3. \A t \in Rows' : t \in Rows /\ tasks'[t].status = tasks[t].status
      BY <1>1, <2>1, <2>2 DEF Rows, TypeOK
    <2>4. \A w \in Workers : pc[w] # "idle" => mem'[w].status = mem[w].status
      BY <1>1, <2>1, <2>2, AtHand
    <2>5. RaisedMeansFinished'
      BY <2>1, <2>3 DEF RaisedMeansFinished, TidyInv
    <2>6. QED
      BY <1>1, <2>1, <2>4, <2>5 DEF TidyInv
  <1>6. CASE MoveRow \/ UNCHANGED vars
    <2>1. UNCHANGED <<tasks, pc, id, mem, crashes>>
      BY <1>6 DEF MoveRow, local, vars
    <2>2. QED
      BY <1>1, <2>1 DEF TidyInv, RaisedMeansFinished, Rows
  <1>7. QED
    BY <1>2, <1>3, <1>4, <1>5, <1>6 DEF Next

\* A call that ends without the process dying leaves a finished row, however many
\* calls share it and whatever the provider raises, as long as no statement of the
\* database fails: the except clause writes FAILED before it raises.
THEOREM EndedMeansFinished ==
  "db" \notin FaultKinds => (Spec => []RaisedMeansFinished)
  <1>1. SUFFICES ASSUME "db" \notin FaultKinds PROVE Spec => []RaisedMeansFinished
    OBVIOUS
  <1>2. TidyInv /\ [Next]_vars => TidyInv'
    BY <1>1, TidyNext
  <1>3. TidyInv => RaisedMeansFinished
    BY DEF TidyInv
  <1>4. QED
    BY <1>2, <1>3, TidyInit, PTL DEF Spec

-----------------------------------------------------------------------------
(* The rows as one checkpointed job.                                        *)
(*                                                                         *)
(* Each write of a row must be one step of the job, so only the write of a    *)
(* failure may move the offset along with the status, and it may not move     *)
(* that of a COMPLETED row.  Neither invariant above says so: what a call     *)
(* holds is at the offset of its row except between update_progress() and     *)
(* its write, or the except clause if that write is refused.                  *)

AtCheckpoint(w) ==
  /\ pc[w] = "create" => mem[w].offset = 0
  /\ (\/ pc[w] \in {"pause", "start", "fetch", "stock", "complete"}
      \/ pc[w] = "fail" /\ tasks[id[w]].status = "COMPLETED")
       => mem[w].offset = tasks[id[w]].offset

JobInv ==
  /\ MutexInv /\ IInv
  /\ \A w \in Workers : AtCheckpoint(w)

LEMMA JobInvInit == Init => JobInv
  <1> SUFFICES ASSUME Init PROVE JobInv
    OBVIOUS
  <1>1. \A w \in Workers : pc[w] = "idle"
    BY DEF Init
  <1>2. QED
    BY <1>1, MutexInit, InvInit DEF JobInv, AtCheckpoint

\* The methods that do not move the offset.
LEMMA OffsetMethods ==
  ASSUME NEW task \in SyncTask
  PROVE  /\ Started(task).offset = task.offset /\ Paused(task).offset = task.offset
         /\ Completed(task).offset = task.offset /\ Failed(task).offset = task.offset
         /\ Older(task).offset = task.offset /\ Older(task).status = task.status
  BY DEF SyncTask, Started, Paused, Completed, Failed, Older

\* A call that begins holds the offset of the row it read.
LEMMA CheckpointBegin ==
  ASSUME TypeOK, NEW w \in Workers, AtCheckpoint(w), Begin(w)
  PROVE  /\ AtCheckpoint(w)' /\ tasks' = tasks /\ attempted' = attempted
         /\ \A v \in Workers : v # w =>
              pc'[v] = pc[v] /\ id'[v] = id[v] /\ mem'[v] = mem[v]
  <1> USE DEF TypeOK, MayEnter, table, budget, Goto, OpenSession
  <1>1. CASE Reject(w)
    BY <1>1 DEF Reject, AtCheckpoint
  <1>2. CASE BeginPause(w)
    <2>1. PICK t \in TaskIds : /\ t \in Rows /\ id' = [id EXCEPT ![w] = t]
                               /\ mem' = [mem EXCEPT ![w] = Paused(tasks[t])]
      BY <1>2 DEF BeginPause, IsLatest
    <2>2. pc' = [pc EXCEPT ![w] = "pause"] /\ tasks' = tasks /\ attempted' = attempted
      BY <1>2 DEF BeginPause
    <2>3. Paused(tasks[t]).offset = tasks[t].offset
      BY <2>1, OffsetMethods DEF Rows
    <2>4. QED
      BY <2>1, <2>2, <2>3 DEF AtCheckpoint
  <1>3. CASE BeginResume(w)
    <2>1. PICK t \in TaskIds : /\ t \in Rows /\ id' = [id EXCEPT ![w] = t]
                               /\ mem' = [mem EXCEPT ![w] = Started(tasks[t])]
      BY <1>3 DEF BeginResume, IsLatest
    <2>2. pc' = [pc EXCEPT ![w] = "start"] /\ tasks' = tasks /\ attempted' = attempted
      BY <1>3 DEF BeginResume
    <2>3. Started(tasks[t]).offset = tasks[t].offset
      BY <2>1, OffsetMethods DEF Rows
    <2>4. QED
      BY <2>1, <2>2, <2>3 DEF AtCheckpoint
  <1>4. CASE BeginCreate(w)
    <2>1. PICK t \in TaskIds, bs \in BatchSizes :
            id' = [id EXCEPT ![w] = t] /\ mem' = [mem EXCEPT ![w] = NewTask(bs)]
      BY <1>4 DEF BeginCreate
    <2>2. pc' = [pc EXCEPT ![w] = "create"] /\ tasks' = tasks /\ attempted' = attempted
      BY <1>4 DEF BeginCreate
    <2>3. NewTask(bs).offset = 0
      BY DEF NewTask
    <2>4. QED
      BY <2>1, <2>2, <2>3 DEF AtCheckpoint
  <1>5. QED
    BY <1>1, <1>2, <1>3, <1>4 DEF Begin

\* A step of a call keeps it at its checkpoint.
LEMMA CheckpointStep ==
  ASSUME TypeOK, NEW w \in Workers, CallInv(w), AtCheckpoint(w), Step(w)
  PROVE  AtCheckpoint(w)'
  <1> USE DEF TypeOK, Goto
  <1>1. pc[w] # "idle"
    BY DEF Step, WritePause, WriteStart, FetchPage, SyncStock, EndBatch, WriteProgress,
       WriteComplete, WriteFailed
  <1>2. id[w] \in TaskIds /\ mem[w] \in SyncTask
    BY <1>1, AtHand
  <1>3. WriteRow(w) => tasks'[id[w]] = mem[w]
    BY <1>2 DEF WriteRow
  <1>4. /\ pc[w] \in {"fetch", "stock", "progress"} => tasks[id[w]].status = "RUNNING"
        /\ pc[w] = "progress" => mem[w].status = "RUNNING"
    BY DEF CallInv, ToWrite, OwnsRow, InLoop
  <1>5. Except(w) => pc'[w] = "fail" /\ mem'[w].offset = mem[w].offset /\ id'[w] = id[w]
    BY <1>2, OffsetMethods DEF Except
  <1>6. \A how \in {"completed", "raised"} : EndCall(w, how) => pc'[w] = "idle"
    BY DEF EndCall
  <1>7. CASE WritePause(w)
    <2>1. CASE pc'[w] = "idle"
      BY <2>1 DEF AtCheckpoint
    <2>2. CASE WriteRow(w) /\ mem' = [mem EXCEPT ![w] = Started(@)] /\ Goto(w, "start") /\ id' = id
      <3>1. mem'[w].offset = mem[w].offset
        BY <1>2, <2>2, OffsetMethods
      <3>2. QED
        BY <1>3, <2>2, <3>1 DEF AtCheckpoint
    <2>3. QED
      BY <1>6, <1>7, <2>1, <2>2 DEF WritePause
  <1>8. CASE WriteStart(w) \/ WriteProgress(w)
    <2>1. CASE pc'[w] = "idle"
      BY <2>1 DEF AtCheckpoint
    <2>2. CASE pc[w] = "progress" /\ UpdateRaises(w) /\ Except(w)
      BY <1>3, <1>4, <1>5, <2>2 DEF UpdateRaises, AtCheckpoint
    <2>3. CASE WriteRow(w) /\ pc' = [pc EXCEPT ![w] = "fetch"] /\ UNCHANGED <<id, mem>>
      BY <1>3, <2>3 DEF AtCheckpoint
    <2>4. QED
      BY <1>6, <1>8, <2>1, <2>2, <2>3 DEF WriteStart, WriteProgress
  <1>9. CASE FetchPage(w)
    <2>1. CASE Except(w)
      BY <1>4, <1>5, <1>9, <2>1 DEF FetchPage, table, AtCheckpoint
    <2>2. CASE pc' = [pc EXCEPT ![w] = "stock"] /\ UNCHANGED <<id, mem>>
      BY <1>9, <2>2 DEF AtCheckpoint, FetchPage, table
    <2>3. QED
      BY <1>9, <2>1, <2>2 DEF FetchPage
  <1>10. CASE SyncStock(w)
    <2>1. Except(w) \/ UNCHANGED <<pc, id, mem>>
      BY <1>10 DEF SyncStock, SaveStock, SkipStock, DailyStockFails, FinanceStockFails, NextStock
    <2>2. tasks' = tasks /\ pc[w] = "stock"
      BY <1>10 DEF SyncStock
    <2>3. QED
      BY <1>5, <2>1, <2>2 DEF AtCheckpoint
  <1>11. CASE EndBatch(w)
    <2>1. \/ pc'[w] = "complete" /\ mem'[w] = Completed(mem[w])
          \/ pc'[w] = "progress"
      BY <1>11 DEF EndBatch
    <2>2. UNCHANGED <<tasks, id>> /\ pc[w] = "stock"
      BY <1>11 DEF EndBatch, table
    <2>3. QED
      BY <1>2, <2>1, <2>2, OffsetMethods DEF AtCheckpoint
  <1>12. CASE WriteComplete(w) \/ WriteFailed(w)
    <2>1. CASE pc'[w] = "idle"
      BY <2>1 DEF AtCheckpoint
    <2>2. CASE pc[w] = "complete" /\ UpdateRaises(w) /\ Except(w)
      BY <1>3, <1>5, <2>2 DEF UpdateRaises, AtCheckpoint
    <2>3. QED
      BY <1>6, <1>12, <2>1, <2>2 DEF WriteComplete, WriteFailed
  <1>13. QED
    BY <1>7, <1>8, <1>9, <1>10, <1>11, <1>12 DEF Step

LEMMA CheckpointEnvironment ==
  ASSUME TypeOK, \A w \in Workers : AtCheckpoint(w), Crash \/ Tick \/ MoveRow \/ UNCHANGED vars
  PROVE  \A w \in Workers : AtCheckpoint(w)'
  <1>1. CASE Crash
    BY <1>1 DEF Crash, AtCheckpoint
  <1>2. CASE Tick
    <2>1. SUFFICES ASSUME NEW w \in Workers, pc[w] # "idle" PROVE AtCheckpoint(w)'
      BY <1>2 DEF Tick, AtCheckpoint
    <2>2. id[w] \in TaskIds /\ mem[w] \in SyncTask /\ mem[w] # NoTask
      BY <2>1, AtHand
    <2>3. mem'[w].offset = mem[w].offset
      BY <1>2, <2>2, OffsetMethods DEF Tick
    <2>4. pc[w] # "create" =>
            /\ tasks'[id[w]].offset = tasks[id[w]].offset
            /\ tasks'[id[w]].status = tasks[id[w]].status
      <3>1. SUFFICES ASSUME pc[w] # "create"
                     PROVE  /\ tasks'[id[w]].offset = tasks[id[w]].offset
                            /\ tasks'[id[w]].status = tasks[id[w]].status
        OBVIOUS
      <3>2. id[w] \in Rows /\ tasks[id[w]] \in SyncTask
        BY <2>1, <2>2, <3>1 DEF TypeOK, Rows, Entering, InLoop
      <3>3. QED
        BY <1>2, <2>2, <3>2, OffsetMethods DEF Tick
    <2>5. QED
      BY <1>2, <2>1, <2>3, <2>4 DEF Tick, AtCheckpoint
  <1>3. CASE MoveRow \/ UNCHANGED vars
    BY <1>3 DEF MoveRow, local, vars, AtCheckpoint
  <1>4. QED
    BY <1>1, <1>2, <1>3

LEMMA JobInvNext ==
  Spaced /\ MaxMoves = 0 /\ JobInv /\ [Next]_vars => JobInv'
  <1> SUFFICES ASSUME Spaced, MaxMoves = 0, JobInv, [Next]_vars PROVE JobInv'
    OBVIOUS
  <1>1. TypeOK /\ MutexInv' /\ IInv' /\ OneWorkerPerTask
    BY MutexNext, InvNext DEF JobInv, MutexInv
  <1>2. ASSUME NEW w \in Workers, Begin(w) PROVE \A v \in Workers : AtCheckpoint(v)'
    BY <1>1, <1>2, CheckpointBegin DEF JobInv, AtCheckpoint
  <1>3. ASSUME NEW w \in Workers, Step(w), NEW v \in Workers PROVE AtCheckpoint(v)'
    <2>1. CASE v = w
      BY <1>1, <1>3, <2>1, CheckpointStep DEF JobInv, MutexInv
    <2>2. CASE v # w
      <3>1. OthersStay(w) /\ pc[w] # "idle"
        BY <1>1, <1>3, StepOthers DEF Step, WritePause, WriteStart, FetchPage, SyncStock, EndBatch,
           WriteProgress, WriteComplete, WriteFailed
      <3>2. /\ pc'[v] = pc[v] /\ id'[v] = id[v] /\ mem'[v] = mem[v]
            /\ pc[v] # "idle" => tasks'[id[v]] = tasks[id[v]]
        BY <1>1, <2>2, <3>1, AtHand DEF OthersStay, OneWorkerPerTask
      <3>3. QED
        BY <3>2 DEF JobInv, AtCheckpoint
    <2>3. QED
      BY <2>1, <2>2
  <1>4. CASE Crash \/ Tick \/ MoveRow \/ UNCHANGED vars
    BY <1>1, <1>4, CheckpointEnvironment DEF JobInv
  <1>5. QED
    BY <1>1, <1>2, <1>3, <1>4 DEF Next, JobInv

\* What a write of a row is to the job.
LEMMA JobWrite ==
  ASSUME TypeOK, NEW w \in Workers, pc[w] # "idle", WriteRow(w)
  PROVE  /\ JobStatus' = [JobStatus EXCEPT ![id[w]] = mem[w].status]
         /\ JobOffset' = [JobOffset EXCEPT ![id[w]] = mem[w].offset]
  <1>1. id[w] \in TaskIds /\ mem[w] # NoTask
    BY AtHand
  <1>2. tasks' = [tasks EXCEPT ![id[w]] = mem[w]] /\ tasks \in [TaskIds -> SyncTask \cup {NoTask}]
    BY DEF WriteRow, TypeOK
  <1>3. QED
    BY <1>1, <1>2 DEF JobStatus, JobOffset

LEMMA JobTables ==
  Job!Items = Stocks /\ \A n \in Nat : Job!FirstItems(n) = Before(n)
  BY StocksAre DEF Job!Items, Job!FirstItems, Before, N

\* The write at the end of each await, as a step of the job.
LEMMA WriteMapped ==
  ASSUME Spaced, JobInv, NEW w \in Workers, pc[w] # "idle", WriteRow(w),
         attempted' = attempted
  PROVE  Job!JobNext \/ UNCHANGED Job!jobVars
  <1> DEFINE t == id[w]
  <1>1. TypeOK /\ CallInv(w) /\ AtCheckpoint(w) /\ t \in TaskIds /\ mem[w] \in SyncTask
        /\ Grounded(mem[w], attempted[t])
    BY AtHand DEF JobInv, MutexInv, IInv
  <1>2. /\ JobStatus' = [JobStatus EXCEPT ![t] = mem[w].status]
        /\ JobOffset' = [JobOffset EXCEPT ![t] = mem[w].offset]
    BY <1>1, JobWrite
  <1>3. JobStatus = [u \in TaskIds |-> JobStatus[u]] /\ JobOffset = [u \in TaskIds |-> JobOffset[u]]
    BY DEF JobStatus, JobOffset
  <1>4. t \in Rows => JobStatus[t] = tasks[t].status /\ JobOffset[t] = tasks[t].offset
    BY <1>1 DEF Rows, JobStatus, JobOffset
  <1>5. pc[w] \in {"pause", "start"} \cup InLoop => t \in Rows /\ tasks[t] \in SyncTask
    BY <1>1, RowTypes
  <1>6. JobStatus' = JobStatus /\ JobOffset' = JobOffset => UNCHANGED Job!jobVars
    BY DEF Job!jobVars
  <1> HIDE DEF t
  <1>7. CASE pc[w] = "pause"
    <2>1. mem[w].status = "PAUSED" /\ tasks[t].status \in {"RUNNING", "PAUSED"}
          /\ mem[w].offset = tasks[t].offset
      BY <1>1, <1>7 DEF CallInv, ToWrite, EntersAlone, IsResumable, AtCheckpoint, t
    <2>2. JobOffset' = JobOffset /\ JobStatus' = [JobStatus EXCEPT ![t] = "PAUSED"]
      BY <1>2, <1>3, <1>4, <1>5, <1>7, <2>1
    <2>3. JobStatus[t] = "RUNNING" => Job!Pause(t)
      BY <2>2 DEF Job!Pause
    <2>4. JobStatus[t] = "PAUSED" => JobStatus' = JobStatus
      BY <1>3, <2>2
    <2>5. QED
      BY <1>1, <1>4, <1>5, <1>6, <1>7, <2>1, <2>2, <2>3, <2>4 DEF Job!JobNext
  <1>8. CASE pc[w] = "start"
    <2>1. mem[w].status = "RUNNING" /\ tasks[t].status \in {"RUNNING", "PAUSED"}
          /\ mem[w].offset = tasks[t].offset
      BY <1>1, <1>8 DEF CallInv, ToWrite, EntersAlone, IsResumable, AtCheckpoint, t
    <2>2. JobOffset' = JobOffset /\ JobStatus' = [JobStatus EXCEPT ![t] = "RUNNING"]
      BY <1>2, <1>3, <1>4, <1>5, <1>8, <2>1
    <2>3. JobStatus[t] = "PAUSED" => Job!Resume(t)
      BY <2>2 DEF Job!Resume
    <2>4. JobStatus[t] = "RUNNING" => JobStatus' = JobStatus
      BY <1>3, <2>2
    <2>5. QED
      BY <1>1, <1>4, <1>5, <1>6, <1>8, <2>1, <2>2, <2>3, <2>4 DEF Job!JobNext
  <1>9. CASE pc[w] = "create"
    <2>1. /\ mem[w].status = "RUNNING" /\ mem[w].offset = 0 /\ t \notin Rows
          /\ \A u \in Rows : ~IsResumable(tasks[u])
      BY <1>1, <1>9 DEF CallInv, ToWrite, EntersAlone, AtCheckpoint, t
    <2>2. JobStatus[t] = "none" /\ JobOffset[t] = 0
      BY <1>1, <2>1 DEF Rows, JobStatus, JobOffset
    <2>3. \A u \in TaskIds : ~Job!Unfinished(u)
      BY <2>1 DEF Job!Unfinished, JobStatus, Rows, IsResumable
    <2>4. JobOffset' = JobOffset /\ JobStatus' = [JobStatus EXCEPT ![t] = "RUNNING"]
      BY <1>2, <1>3, <2>1, <2>2
    <2>5. Job!Open(t)
      BY <2>2, <2>3, <2>4 DEF Job!Open
    <2>6. QED
      BY <1>1, <2>5 DEF Job!JobNext
  <1>10. CASE pc[w] \in InLoop
    <2>1. /\ JobStatus[t] = tasks[t].status /\ JobOffset[t] = tasks[t].offset
          /\ \/ tasks[t].status = "RUNNING"
             \/ tasks[t].status = "COMPLETED" /\ pc[w] = "fail"
          /\ mem[w].offset >= tasks[t].offset /\ mem[w].offset \in Nat /\ tasks[t].offset \in Nat
      BY <1>1, <1>4, <1>5, <1>10 DEF CallInv, OwnsRow, NotBehind, SyncTask, t
    <2>2. JobOffset'[t] = mem[w].offset /\ JobOffset' = [JobOffset EXCEPT ![t] = JobOffset'[t]]
      BY <1>1, <1>2, <1>3
    <2>3. Job!FirstItems(JobOffset'[t]) \subseteq attempted[t]
      BY <1>1, <2>1, <2>2, JobTables DEF Grounded
    <2>4. mem[w].offset = tasks[t].offset => JobOffset' = JobOffset
      BY <1>3, <2>1, <2>2
    <2>5. CASE pc[w] \in {"fetch", "stock", "progress"}
      <3>1. mem[w].status = "RUNNING"
        BY <1>1, <2>5 DEF CallInv, ToWrite
      <3>2. JobStatus' = JobStatus
        BY <1>2, <1>3, <2>1, <2>5, <3>1
      <3>3. CASE mem[w].offset = tasks[t].offset
        BY <1>6, <2>4, <3>2, <3>3
      <3>4. CASE mem[w].offset # tasks[t].offset
        <4>1. JobOffset'[t] \in {n \in Nat : n > JobOffset[t]}
          BY <2>1, <2>2, <3>4
        <4>2. Job!Checkpoint(t)
          BY <2>1, <2>2, <2>3, <2>5, <3>2, <4>1 DEF Job!Checkpoint
        <4>3. QED
          BY <1>1, <4>2 DEF Job!JobNext
      <3>5. QED
        BY <3>3, <3>4
    <2>6. CASE pc[w] = "complete"
      <3>1. mem[w].offset = tasks[t].offset /\ mem[w].status = "COMPLETED"
        BY <1>1, <2>6 DEF AtCheckpoint, CallInv, ToWrite, t
      <3>2. Kind = FINANCE => attempted[t] = Job!Items
        BY <1>1, <3>1, JobTables DEF Grounded
      <3>3. Job!Complete(t)
        BY <1>2, <2>1, <2>4, <2>6, <3>1, <3>2 DEF Job!Complete
      <3>4. QED
        BY <1>1, <3>3 DEF Job!JobNext
    <2>7. CASE pc[w] = "fail"
      <3>1. mem[w].status = "FAILED"
        BY <1>1, <2>7 DEF CallInv, ToWrite
      <3>2. CASE tasks[t].status = "RUNNING"
        <4>1. JobOffset'[t] \in {n \in Nat : n >= JobOffset[t]}
          BY <2>1, <2>2
        <4>2. Job!Fail(t)
          BY <1>2, <2>1, <2>2, <2>3, <3>1, <3>2, <4>1 DEF Job!Fail
        <4>3. QED
          BY <1>1, <4>2 DEF Job!JobNext
      <3>3. CASE tasks[t].status = "COMPLETED"
        <4>1. JobOffset' = JobOffset
          BY <1>1, <2>4, <2>7, <3>3 DEF AtCheckpoint, t
        <4>2. Job!Disown(t)
          BY <1>2, <2>1, <3>1, <3>3, <4>1 DEF Job!Disown
        <4>3. QED
          BY <1>1, <4>2 DEF Job!JobNext
      <3>4. QED
        BY <2>1, <3>2, <3>3
    <2>8. QED
      BY <1>10, <2>5, <2>6, <2>7 DEF InLoop
  <1>11. QED
    BY <1>1, <1>7, <1>8, <1>9, <1>10 DEF TypeOK, Entering

\* A step of a call: a write, the processing of one stock, or nothing a reader of
\* the rows would see.
LEMMA StepMapped ==
  ASSUME Spaced, JobInv, NEW w \in Workers, Step(w)
  PROVE  Job!JobNext \/ UNCHANGED Job!jobVars
  <1>1. TypeOK /\ CallInv(w)
    BY DEF JobInv, MutexInv
  <1>2. tasks' = tasks /\ attempted' = attempted => UNCHANGED Job!jobVars
    BY DEF Job!jobVars, JobStatus, JobOffset
  <1>3. CASE SyncStock(w)
    <2>1. tasks' = tasks /\ pc[w] = "stock" /\ pos[w] <= Len(page[w])
      BY <1>3 DEF SyncStock
    <2>2. \/ attempted' = attempted
          \/ attempted' = [attempted EXCEPT ![id[w]] = @ \cup {Stock(w)}]
      BY <1>3 DEF SyncStock, SaveStock, SkipStock, DailyStockFails, FinanceStockFails, NextStock
    <2>3. JobStatus' = JobStatus /\ JobOffset' = JobOffset
      BY <2>1 DEF JobStatus, JobOffset
    <2>4. id[w] \in TaskIds /\ JobStatus[id[w]] = "RUNNING"
      <3>1. id[w] \in TaskIds /\ tasks[id[w]] # NoTask
        BY <1>1, <2>1 DEF TypeOK, InLoop
      <3>2. tasks[id[w]].status = "RUNNING"
        BY <1>1, <2>1 DEF CallInv, OwnsRow, InLoop
      <3>3. QED
        BY <3>1, <3>2 DEF JobStatus
    <2>5. Stock(w) \in Job!Items
      BY <1>1, <2>1, JobTables DEF Stock, TypeOK
    <2>6. attempted' = [attempted EXCEPT ![id[w]] = @ \cup {Stock(w)}] => Job!Work(id[w])
      BY <2>3, <2>4, <2>5 DEF Job!Work
    <2>7. QED
      BY <1>2, <2>1, <2>2, <2>4, <2>6 DEF Job!JobNext
  <1>4. CASE FetchPage(w) \/ EndBatch(w)
    BY <1>2, <1>4 DEF FetchPage, EndBatch, table
  <1>5. CASE WritePause(w) \/ WriteStart(w) \/ WriteProgress(w) \/ WriteComplete(w) \/ WriteFailed(w)
    <2>1. pc[w] # "idle" /\ attempted' = attempted
      BY <1>5 DEF WritePause, WriteStart, WriteProgress, WriteComplete, WriteFailed
    <2>2. tasks' = tasks \/ WriteRow(w)
      BY <1>5 DEF WritePause, WriteStart, WriteProgress, WriteComplete, WriteFailed, UpdateRaises
    <2>3. QED
      BY <1>2, <2>1, <2>2, WriteMapped
  <1>6. QED
    BY <1>3, <1>4, <1>5 DEF Step

LEMMA NextMapped ==
  ASSUME Spaced, MaxMoves = 0, JobInv, [Next]_vars
  PROVE  [Job!JobNext]_(Job!jobVars)
  <1>1. tasks' = tasks /\ attempted' = attempted => UNCHANGED Job!jobVars
    BY DEF Job!jobVars, JobStatus, JobOffset
  <1>2. ASSUME NEW w \in Workers, Begin(w) PROVE UNCHANGED Job!jobVars
    BY <1>1, <1>2, CheckpointBegin DEF JobInv, MutexInv
  <1>3. ASSUME NEW w \in Workers, Step(w) PROVE Job!JobNext \/ UNCHANGED Job!jobVars
    BY <1>3, StepMapped
  <1>4. CASE Crash \/ MoveRow \/ UNCHANGED vars
    BY <1>1, <1>4 DEF Crash, MoveRow, table, vars
  <1>5. CASE Tick
    <2>1. attempted' = attempted
          /\ tasks' = [t \in TaskIds |-> IF t \in Rows THEN Older(tasks[t]) ELSE NoTask]
      BY <1>5 DEF Tick
    <2>2. \A t \in TaskIds :
            /\ t \in Rows <=> tasks'[t] # NoTask
            /\ t \in Rows => tasks'[t].status = tasks[t].status /\ tasks'[t].offset = tasks[t].offset
      <3>1. ASSUME NEW t \in Rows
            PROVE  /\ tasks'[t] # NoTask /\ tasks'[t].status = tasks[t].status
                   /\ tasks'[t].offset = tasks[t].offset
        <4>1. tasks[t] \in SyncTask /\ tasks'[t] = Older(tasks[t])
          BY <2>1 DEF JobInv, IInv, TypeOK, Rows
        <4>2. Older(tasks[t]) \in SyncTask
          BY <4>1, TaskMethods DEF JobInv, IInv, TypeOK
        <4>3. QED
          BY <4>1, <4>2, OffsetMethods, NoTaskAssumption
      <3>2. QED
        BY <2>1, <3>1
    <2>3. JobStatus' = JobStatus /\ JobOffset' = JobOffset
      BY <2>2 DEF JobStatus, JobOffset, Rows
    <2>4. QED
      BY <2>1, <2>3 DEF Job!jobVars
  <1>6. QED
    BY <1>2, <1>3, <1>4, <1>5 DEF Next

LEMMA InitMapped == Init => Job!JobInit
  BY DEF Init, Job!JobInit, JobStatus, JobOffset

\* With triggers apart, batches faster than the stale threshold and a stock table
\* that keeps its order, the rows that any number of calls of run_history_sync
\* write, interrupted, taken over and repeated as they may be, are those of one
\* checkpointed job.
THEOREM CallsMakeOneJob ==
  ASSUME Spaced, MaxMoves = 0
  PROVE  Spec => IsCheckpointedJob
  <1>1. JobInv /\ [Next]_vars => JobInv'
    BY JobInvNext
  <1>2. JobInv /\ [Next]_vars => [Job!JobNext]_(Job!jobVars)
    BY NextMapped
  <1>3. QED
    BY <1>1, <1>2, JobInvInit, InitMapped, PTL DEF Spec, IsCheckpointedJob, Job!JobSpec

-----------------------------------------------------------------------------
(* What the job promises a reader of the rows follows from its own steps.   *)

JobTyped ==
  /\ JobStatus \in [TaskIds -> Statuses \cup {"none"}]
  /\ JobOffset \in [TaskIds -> Nat]
  /\ attempted \in [TaskIds -> SUBSET Job!Items]

LEMMA SoundInit == Job!JobInit => JobTyped /\ Job!JobSound
  <1> SUFFICES ASSUME Job!JobInit PROVE JobTyped /\ Job!JobSound
    OBVIOUS
  <1>1. \A t \in TaskIds : JobStatus[t] = "none" /\ JobOffset[t] = 0 /\ attempted[t] = {}
    BY DEF Job!JobInit
  <1>2. Job!FirstItems(0) = {}
    BY DEF Job!FirstItems
  <1>3. JobTyped
    BY DEF Job!JobInit, JobTyped
  <1>4. QED
    BY <1>1, <1>2, <1>3 DEF Job!JobSound, Job!Unfinished

LEMMA SoundNext ==
  JobTyped /\ Job!JobSound /\ [Job!JobNext]_(Job!jobVars) => (JobTyped /\ Job!JobSound)'
  <1> SUFFICES ASSUME JobTyped, Job!JobSound, [Job!JobNext]_(Job!jobVars)
               PROVE  JobTyped' /\ Job!JobSound'
    OBVIOUS
  <1> USE DEF JobTyped, Statuses
  <1>1. CASE UNCHANGED Job!jobVars
    BY <1>1 DEF Job!jobVars, Job!JobSound, Job!Unfinished
  <1>2. ASSUME NEW t \in TaskIds,
               Job!Open(t) \/ Job!Pause(t) \/ Job!Resume(t) \/ Job!Complete(t)
        PROVE  JobTyped' /\ Job!JobSound'
    <2>1. /\ JobOffset' = JobOffset /\ attempted' = attempted
          /\ \E s \in Statuses : JobStatus' = [JobStatus EXCEPT ![t] = s]
      BY <1>2 DEF Job!Open, Job!Pause, Job!Resume, Job!Complete
    <2>2. JobTyped' /\ \A u \in TaskIds : u # t => JobStatus'[u] = JobStatus[u]
      BY <2>1
    <2>3. \A u, v \in TaskIds : Job!Unfinished(u)' /\ Job!Unfinished(v)' => u = v
      <3>1. \A u \in TaskIds : u # t /\ Job!Unfinished(u)' => Job!Unfinished(u)
        BY <2>2 DEF Job!Unfinished
      <3>2. Job!Unfinished(t) \/ (\A u \in TaskIds : ~Job!Unfinished(u))
        BY <1>2 DEF Job!Open, Job!Pause, Job!Resume, Job!Complete, Job!Unfinished
      <3>3. QED
        BY <3>1, <3>2 DEF Job!JobSound
    <2>4. \A u \in TaskIds :
            /\ Job!FirstItems(JobOffset'[u]) \subseteq attempted'[u]
            /\ Kind = FINANCE /\ JobStatus'[u] = "COMPLETED" => attempted'[u] = Job!Items
      <3>1. Kind = FINANCE /\ JobStatus'[t] = "COMPLETED" => attempted[t] = Job!Items
        BY <1>2 DEF Job!Open, Job!Pause, Job!Resume, Job!Complete
      <3>2. QED
        BY <2>1, <2>2, <3>1 DEF Job!JobSound
    <2>5. QED
      BY <2>2, <2>3, <2>4 DEF Job!JobSound, Job!Unfinished
  <1>3. ASSUME NEW t \in TaskIds, Job!Work(t)
        PROVE  JobTyped' /\ Job!JobSound'
    <2>1. PICK i \in Job!Items : attempted' = [attempted EXCEPT ![t] = @ \cup {i}]
      BY <1>3 DEF Job!Work
    <2>2. JobStatus' = JobStatus /\ JobOffset' = JobOffset
      BY <1>3 DEF Job!Work
    <2>3. \A u \in TaskIds : attempted[u] \subseteq attempted'[u] /\ attempted'[u] \subseteq Job!Items
      BY <2>1
    <2>4. JobTyped'
      BY <2>1, <2>2
    <2>5. QED
      BY <2>2, <2>3, <2>4 DEF Job!JobSound, Job!Unfinished
  <1>4. ASSUME NEW t \in TaskIds, Job!Checkpoint(t)
        PROVE  JobTyped' /\ Job!JobSound'
    <2>1. /\ JobStatus' = JobStatus /\ attempted' = attempted /\ JobOffset'[t] \in Nat
          /\ Job!FirstItems(JobOffset'[t]) \subseteq attempted[t]
          /\ JobOffset' = [JobOffset EXCEPT ![t] = JobOffset'[t]]
      BY <1>4 DEF Job!Checkpoint
    <2>2. \A u \in TaskIds : u # t => JobOffset'[u] = JobOffset[u]
      BY <2>1
    <2>3. JobTyped'
      BY <2>1
    <2>4. QED
      BY <2>1, <2>2, <2>3 DEF Job!JobSound, Job!Unfinished
  <1>5. ASSUME NEW t \in TaskIds, Job!Fail(t) \/ Job!Disown(t)
        PROVE  JobTyped' /\ Job!JobSound'
    <2>1. /\ JobStatus' = [JobStatus EXCEPT ![t] = "FAILED"] /\ attempted' = attempted
          /\ JobOffset'[t] \in Nat /\ Job!FirstItems(JobOffset'[t]) \subseteq attempted[t]
          /\ JobOffset' = [JobOffset EXCEPT ![t] = JobOffset'[t]]
      BY <1>5 DEF Job!Fail, Job!Disown, Job!JobSound
    <2>2. \A u \in TaskIds : u # t => JobOffset'[u] = JobOffset[u] /\ JobStatus'[u] = JobStatus[u]
      BY <2>1
    <2>3. JobTyped' /\ JobStatus'[t] = "FAILED"
      BY <2>1
    <2>4. QED
      BY <2>1, <2>2, <2>3 DEF Job!JobSound, Job!Unfinished
  <1>6. QED
    BY <1>1, <1>2, <1>3, <1>4, <1>5 DEF Job!JobNext

\* A checkpointed job is sound: one unfinished task at most, a checkpoint backed by
\* work, and COMPLETED finance tasks that processed the whole table.
THEOREM OneJobIsSound == IsCheckpointedJob => []Job!JobSound
  <1>1. QED
    BY SoundInit, SoundNext, PTL DEF IsCheckpointedJob, Job!JobSpec

=============================================================================
