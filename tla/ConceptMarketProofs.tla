------------------------- MODULE ConceptMarketProofs -------------------------
(***************************************************************************)
(* What holds of the concepts on their way from the provider through the    *)
(* database into the graph, for every set of concepts and stocks and every   *)
(* number of overlapping syncs of both kinds, failing calls and crashes; and  *)
(* of the market data, for every set of stock codes and every number of       *)
(* requests, faults and moves of the boards.                                *)
(***************************************************************************)
EXTENDS KnowledgeGraph, MarketDataSync, FiniteSetTheorems, SequenceTheorems, TLAPS

-----------------------------------------------------------------------------
(* The concepts and the graph *)

SyncRecord == [pc : {"idle", "fetch", "upsert", "delete", "insert"}, todo : SUBSET Concepts,
               cur : Concepts \cup {NoConcept}, batch : SUBSET MemberCodes,
               gone : SUBSET MemberCodes, aborted : BOOLEAN]

\* The transaction of a run has locked the row of its concept.
Locks(w) == conceptRun[w].pc \in {"delete", "insert"}

\* Two transactions that hold a lock are about different concepts.
LocksAreApart ==
  \A v, w \in ConceptRuns : v # w /\ Locks(v) /\ Locks(w) => conceptRun[v].cur # conceptRun[w].cur

\* What a transaction deletes is still all there is when it inserts.
DeletesAll == \A w \in ConceptRuns : conceptRun[w].pc = "insert" =>
                                       conceptRun[w].gone = member[conceptRun[w].cur]

\* What a run has in hand was offered once.
BatchWasOffered ==
  \A w \in ConceptRuns : conceptRun[w].pc \in {"upsert", "delete", "insert"} =>
    conceptRun[w].cur \in Concepts /\ conceptRun[w].batch \in versions[conceptRun[w].cur]

OfferIsKnown == \A c \in Concepts : offered[c] \in versions[c]

\* A stored concept has one of the lists, one that is not stored has none.
StoredIsVersion ==
  \A c \in Concepts : IF c \in concept THEN member[c] \in versions[c] ELSE member[c] = {}

ConceptInv ==
  /\ ConceptTypeOK /\ LocksAreApart /\ DeletesAll /\ BatchWasOffered
  /\ OfferIsKnown /\ StoredIsVersion

\* Part of one list of each concept.
PartOfVersions(f) == \A c \in Concepts : \E S \in versions[c] : f[c] \subseteq S

GraphRecord == [pc : {"idle", "stocks", "merge", "concepts", "rebuild"},
                mode : {"full", "incremental"}, all : BOOLEAN, codes : SUBSET MemberCodes,
                seen : SUBSET Concepts,
                batch : {<<>>, <<"members">>} \cup [Concepts -> SUBSET MemberCodes]
                          \cup [MemberCodes -> Industries \cup {Blank, NoIndustry}]]

\* What a rebuild writes, and what the last one has written.
GraphInv ==
  /\ graphRun \in [GraphRuns -> GraphRecord]
  /\ industry \in [MemberCodes -> Industries \cup {Blank, NoIndustry}]
  /\ PartOfVersions(inConcept)
  /\ \A g \in GraphRuns : graphRun[g].pc = "rebuild" => PartOfVersions(graphRun[g].batch)

-----------------------------------------------------------------------------
(* The concept sync. *)

LEMMA IdleSyncFacts == IdleSync \in SyncRecord /\ IdleSync.pc = "idle"
  BY DEF IdleSync, SyncRecord

LEMMA RunTypes ==
  ASSUME ConceptTypeOK
  PROVE  /\ conceptRun \in [ConceptRuns -> SyncRecord]
         /\ \A w \in ConceptRuns : conceptRun[w] \in SyncRecord
  BY DEF ConceptTypeOK, SyncRecord

\* A run changes its own record only: what it claims there is what must hold.
LEMMA OneRunMoves ==
  ASSUME ConceptInv, NEW w \in ConceptRuns, NEW r \in SyncRecord,
         conceptRun' = [conceptRun EXCEPT ![w] = r],
         UNCHANGED <<conceptProvider, conceptTables>>,
         r.pc \in {"upsert", "delete", "insert"} => r.cur \in Concepts /\ r.batch \in versions[r.cur],
         r.pc = "insert" => r.gone = member[r.cur],
         r.pc \in {"delete", "insert"} =>
           \A v \in ConceptRuns \ {w} : ~(Locks(v) /\ conceptRun[v].cur = r.cur)
  PROVE  ConceptInv'
  <1>1. /\ offered' = offered /\ versions' = versions /\ concept' = concept /\ member' = member
    BY DEF conceptProvider, conceptTables
  <1>2. ConceptTypeOK /\ conceptRun \in [ConceptRuns -> SyncRecord]
    BY RunTypes DEF ConceptInv
  <1>3. conceptRun'[w] = r /\ \A v \in ConceptRuns : v # w => conceptRun'[v] = conceptRun[v]
    BY <1>2
  <1>4. ConceptTypeOK'
    <2>1. conceptRun' \in [ConceptRuns -> SyncRecord]
      BY <1>2
    <2>2. QED
      BY <1>1, <1>2, <2>1 DEF ConceptTypeOK, SyncRecord
  <1>5. LocksAreApart'
    BY <1>3 DEF ConceptInv, LocksAreApart, Locks
  <1>6. DeletesAll' /\ BatchWasOffered'
    BY <1>1, <1>3 DEF ConceptInv, DeletesAll, BatchWasOffered
  <1>7. OfferIsKnown' /\ StoredIsVersion'
    BY <1>1 DEF ConceptInv, OfferIsKnown, StoredIsVersion
  <1>8. QED
    BY <1>4, <1>5, <1>6, <1>7 DEF ConceptInv

\* The record of a run between two concepts.
LEMMA NextConceptFacts ==
  ASSUME ConceptTypeOK, NEW w \in ConceptRuns, NEW aborted \in BOOLEAN, NextConcept(w, aborted)
  PROVE  \E r \in SyncRecord : /\ conceptRun' = [conceptRun EXCEPT ![w] = r]
                               /\ r.pc \in {"idle", "fetch"}
  <1> DEFINE walking == [IdleSync EXCEPT !.pc = "fetch", !.todo = conceptRun[w].todo,
                                         !.aborted = aborted]
             r == IF conceptRun[w].todo = {} THEN IdleSync ELSE walking
  <1>1. conceptRun[w].todo \subseteq Concepts
    BY RunTypes DEF SyncRecord
  <1>2. walking \in SyncRecord /\ walking.pc = "fetch"
    BY <1>1 DEF IdleSync, SyncRecord
  <1>3. conceptRun' = [conceptRun EXCEPT ![w] = r]
    BY DEF NextConcept
  <1>4. QED
    BY <1>2, <1>3, IdleSyncFacts

LEMMA OfferConceptKeeps ==
  ASSUME ConceptInv, NEW c \in Concepts, OfferConcept(c)
  PROVE  ConceptInv' /\ \A d \in Concepts : versions[d] \subseteq versions'[d]
  <1>1. /\ versions' = [versions EXCEPT ![c] = @ \cup {offered'[c]}]
        /\ concept' = concept /\ member' = member /\ conceptRun' = conceptRun
    BY DEF OfferConcept, conceptTables
  <1>2. PICK S \in SUBSET MemberCodes : offered' = [offered EXCEPT ![c] = S]
    BY DEF OfferConcept
  <1>3. /\ ConceptTypeOK /\ offered \in [Concepts -> SUBSET MemberCodes]
        /\ versions \in [Concepts -> SUBSET SUBSET MemberCodes]
    BY DEF ConceptInv, ConceptTypeOK
  <1>4. offered' \in [Concepts -> SUBSET MemberCodes] /\ offered'[c] \in SUBSET MemberCodes
    BY <1>2, <1>3
  <1>5. /\ versions' \in [Concepts -> SUBSET SUBSET MemberCodes]
        /\ \A d \in Concepts : versions[d] \subseteq versions'[d]
    BY <1>1, <1>3, <1>4
  <1>6. ConceptTypeOK'
    BY <1>1, <1>3, <1>4, <1>5 DEF ConceptTypeOK
  <1>7. OfferIsKnown'
    <2>1. ASSUME NEW d \in Concepts PROVE offered'[d] \in versions'[d]
      <3>1. CASE d = c
        BY <1>1, <1>3, <3>1
      <3>2. CASE d # c
        BY <1>2, <1>3, <1>5, <3>2 DEF ConceptInv, OfferIsKnown
      <3>3. QED
        BY <3>1, <3>2
    <2>2. QED
      BY <2>1 DEF OfferIsKnown
  <1>8. LocksAreApart' /\ DeletesAll' /\ BatchWasOffered' /\ StoredIsVersion'
    <2>1. LocksAreApart' /\ DeletesAll'
      BY <1>1 DEF ConceptInv, LocksAreApart, Locks, DeletesAll
    <2>2. BatchWasOffered'
      BY <1>1, <1>5 DEF ConceptInv, BatchWasOffered
    <2>3. StoredIsVersion'
      BY <1>1, <1>5 DEF ConceptInv, StoredIsVersion
    <2>4. QED
      BY <2>1, <2>2, <2>3
  <1>9. QED
    BY <1>5, <1>6, <1>7, <1>8 DEF ConceptInv

LEMMA StartConceptSyncKeeps ==
  ASSUME ConceptInv, NEW w \in ConceptRuns, StartConceptSync(w)
  PROVE  ConceptInv'
  <1> DEFINE r == [IdleSync EXCEPT !.pc = "fetch", !.todo = ConceptList]
  <1>1. conceptRun' = [conceptRun EXCEPT ![w] = r] /\ UNCHANGED <<conceptProvider, conceptTables>>
    BY DEF StartConceptSync
  <1>2. r \in SyncRecord /\ r.pc = "fetch"
    BY DEF IdleSync, SyncRecord, ConceptList
  <1> HIDE DEF r
  <1>3. QED
    BY <1>1, <1>2, OneRunMoves

LEMMA FetchConstituentsKeeps ==
  ASSUME ConceptInv, NEW w \in ConceptRuns, NEW c \in Concepts, FetchConstituents(w, c)
  PROVE  ConceptInv'
  <1> DEFINE r == [conceptRun[w] EXCEPT !.pc = "upsert", !.todo = conceptRun[w].todo \ {c},
                                        !.cur = c, !.batch = offered[c]]
  <1>1. /\ conceptRun \in [ConceptRuns -> SyncRecord] /\ conceptRun[w] \in SyncRecord
        /\ offered[c] \in SUBSET MemberCodes
    BY RunTypes DEF ConceptInv, ConceptTypeOK
  <1>2. conceptRun' = [conceptRun EXCEPT ![w] = r] /\ UNCHANGED <<conceptProvider, conceptTables>>
    BY <1>1 DEF FetchConstituents, SyncRecord
  <1>3. r \in SyncRecord /\ r.pc = "upsert" /\ r.cur = c /\ r.batch = offered[c]
    BY <1>1 DEF SyncRecord
  <1> HIDE DEF r
  <1>4. r.cur \in Concepts /\ r.batch \in versions[r.cur]
    BY <1>3 DEF ConceptInv, OfferIsKnown
  <1>5. QED
    BY <1>2, <1>3, <1>4, OneRunMoves

LEMMA FetchConstituentsFailsKeeps ==
  ASSUME ConceptInv, NEW w \in ConceptRuns, NEW c \in Concepts, FetchConstituentsFails(w, c)
  PROVE  ConceptInv'
  <1> DEFINE rest == [conceptRun[w] EXCEPT !.todo = conceptRun[w].todo \ {c}]
             r == IF conceptRun[w].todo = {c} THEN IdleSync ELSE rest
  <1>1. conceptRun \in [ConceptRuns -> SyncRecord] /\ conceptRun[w] \in SyncRecord
    BY RunTypes DEF ConceptInv
  <1>2. /\ conceptRun' = [conceptRun EXCEPT ![w] = r] /\ UNCHANGED <<conceptProvider, conceptTables>>
        /\ conceptRun[w].pc = "fetch"
    BY <1>1 DEF FetchConstituentsFails, SyncRecord
  <1>3. rest \in SyncRecord /\ rest.pc = "fetch"
    BY <1>1, <1>2 DEF SyncRecord
  <1>4. r \in SyncRecord /\ r.pc \in {"idle", "fetch"}
    BY <1>3, IdleSyncFacts
  <1> HIDE DEF r
  <1>5. QED
    BY <1>2, <1>4, OneRunMoves

LEMMA UpsertConceptKeeps ==
  ASSUME ConceptInv, NEW w \in ConceptRuns, UpsertConcept(w)
  PROVE  ConceptInv'
  <1> DEFINE r == [conceptRun[w] EXCEPT !.pc = "delete"]
  <1>1. conceptRun \in [ConceptRuns -> SyncRecord] /\ conceptRun[w] \in SyncRecord
    BY RunTypes DEF ConceptInv
  <1>2. /\ conceptRun' = [conceptRun EXCEPT ![w] = r] /\ UNCHANGED <<conceptProvider, conceptTables>>
        /\ conceptRun[w].pc = "upsert" /\ RowFree(w)
    BY <1>1 DEF UpsertConcept, SyncRecord
  <1>3. /\ r \in SyncRecord /\ r.pc = "delete" /\ r.cur = conceptRun[w].cur
        /\ r.batch = conceptRun[w].batch
    BY <1>1 DEF SyncRecord
  <1> HIDE DEF r
  <1>4. r.cur \in Concepts /\ r.batch \in versions[r.cur]
    BY <1>2, <1>3 DEF ConceptInv, BatchWasOffered
  <1>5. \A v \in ConceptRuns \ {w} : ~(Locks(v) /\ conceptRun[v].cur = r.cur)
    BY <1>2, <1>3 DEF RowFree, Locks
  <1>6. QED
    BY <1>2, <1>3, <1>4, <1>5, OneRunMoves

LEMMA DeleteMembersKeeps ==
  ASSUME ConceptInv, NEW w \in ConceptRuns, DeleteMembers(w)
  PROVE  ConceptInv'
  <1> DEFINE r == [conceptRun[w] EXCEPT !.pc = "insert", !.gone = member[conceptRun[w].cur]]
  <1>1. conceptRun \in [ConceptRuns -> SyncRecord] /\ conceptRun[w] \in SyncRecord
    BY RunTypes DEF ConceptInv
  <1>2. /\ conceptRun' = [conceptRun EXCEPT ![w] = r] /\ UNCHANGED <<conceptProvider, conceptTables>>
        /\ conceptRun[w].pc = "delete"
    BY <1>1 DEF DeleteMembers, SyncRecord
  <1>3. conceptRun[w].cur \in Concepts /\ conceptRun[w].batch \in versions[conceptRun[w].cur]
    BY <1>2 DEF ConceptInv, BatchWasOffered
  <1>4. member[conceptRun[w].cur] \in SUBSET MemberCodes
    BY <1>3 DEF ConceptInv, ConceptTypeOK
  <1>5. /\ r \in SyncRecord /\ r.pc = "insert" /\ r.cur = conceptRun[w].cur
        /\ r.batch = conceptRun[w].batch /\ r.gone = member[conceptRun[w].cur]
    BY <1>1, <1>4 DEF SyncRecord
  <1> HIDE DEF r
  <1>6. \A v \in ConceptRuns \ {w} : ~(Locks(v) /\ conceptRun[v].cur = r.cur)
    BY <1>2, <1>5 DEF ConceptInv, LocksAreApart, Locks
  <1>7. QED
    BY <1>2, <1>3, <1>5, <1>6, OneRunMoves

\* The constituents are exactly the batch: all that was there is deleted.
LEMMA InsertMembersKeeps ==
  ASSUME ConceptInv, NEW w \in ConceptRuns, InsertMembers(w)
  PROVE  ConceptInv'
  <1> DEFINE c == conceptRun[w].cur
  <1>1. /\ conceptRun[w].pc = "insert" /\ concept' = concept \cup {c}
        /\ member' = [member EXCEPT ![c] = Replaced(w)] /\ NextConcept(w, FALSE)
        /\ offered' = offered /\ versions' = versions
    BY DEF InsertMembers, conceptProvider
  <1>2. /\ ConceptTypeOK /\ conceptRun \in [ConceptRuns -> SyncRecord]
        /\ member \in [Concepts -> SUBSET MemberCodes]
        /\ versions \in [Concepts -> SUBSET SUBSET MemberCodes] /\ concept \subseteq Concepts
    BY RunTypes DEF ConceptInv, ConceptTypeOK
  <1>3. c \in Concepts /\ conceptRun[w].batch \in versions[c]
    BY <1>1 DEF ConceptInv, BatchWasOffered
  <1>4. Replaced(w) = conceptRun[w].batch
    BY <1>1 DEF ConceptInv, DeletesAll, Replaced
  <1>5. /\ member' \in [Concepts -> SUBSET MemberCodes] /\ member'[c] = conceptRun[w].batch
        /\ \A d \in Concepts : d # c => member'[d] = member[d]
    BY <1>1, <1>2, <1>3, <1>4
  <1>6. PICK r \in SyncRecord : conceptRun' = [conceptRun EXCEPT ![w] = r] /\ r.pc \in {"idle", "fetch"}
    BY <1>1, <1>2, NextConceptFacts
  <1>7. conceptRun'[w] = r /\ \A v \in ConceptRuns : v # w => conceptRun'[v] = conceptRun[v]
    BY <1>2, <1>6
  <1>8. ConceptTypeOK'
    <2>1. conceptRun' \in [ConceptRuns -> SyncRecord]
      BY <1>2, <1>6
    <2>2. QED
      BY <1>1, <1>2, <1>3, <1>5, <2>1 DEF ConceptTypeOK, SyncRecord
  <1>9. LocksAreApart' /\ BatchWasOffered'
    BY <1>1, <1>6, <1>7 DEF ConceptInv, LocksAreApart, Locks, BatchWasOffered
  <1>10. DeletesAll'
    <2>1. SUFFICES ASSUME NEW v \in ConceptRuns, conceptRun'[v].pc = "insert"
                   PROVE  conceptRun'[v].gone = member'[conceptRun'[v].cur]
      BY DEF DeletesAll
    <2>2. v # w /\ conceptRun'[v] = conceptRun[v]
      BY <1>6, <1>7, <2>1
    <2>3. conceptRun[v].cur \in Concepts /\ conceptRun[v].cur # c
      BY <1>1, <2>1, <2>2 DEF ConceptInv, BatchWasOffered, LocksAreApart, Locks
    <2>4. QED
      BY <1>5, <2>1, <2>2, <2>3 DEF ConceptInv, DeletesAll
  <1>11. OfferIsKnown' /\ StoredIsVersion'
    BY <1>1, <1>3, <1>5 DEF ConceptInv, OfferIsKnown, StoredIsVersion
  <1>12. QED
    BY <1>8, <1>9, <1>10, <1>11 DEF ConceptInv

LEMMA TransactionFailsKeeps ==
  ASSUME ConceptInv, NEW w \in ConceptRuns, TransactionFails(w)
  PROVE  ConceptInv'
  <1>1. NextConcept(w, TRUE) /\ UNCHANGED <<conceptProvider, conceptTables>>
    BY DEF TransactionFails
  <1>2. PICK r \in SyncRecord : conceptRun' = [conceptRun EXCEPT ![w] = r] /\ r.pc \in {"idle", "fetch"}
    BY <1>1, NextConceptFacts DEF ConceptInv
  <1>3. QED
    BY <1>1, <1>2, OneRunMoves

LEMMA ConceptInvInit == ASSUME ConceptInit PROVE ConceptInv
  <1>1. \A w \in ConceptRuns : conceptRun[w].pc = "idle"
    BY IdleSyncFacts DEF ConceptInit
  <1>2. ConceptTypeOK
    <2>1. conceptRun \in [ConceptRuns -> SyncRecord]
      BY IdleSyncFacts DEF ConceptInit
    <2>2. versions \in [Concepts -> SUBSET SUBSET MemberCodes]
      BY DEF ConceptInit
    <2>3. QED
      BY <2>1, <2>2 DEF ConceptInit, ConceptTypeOK, SyncRecord
  <1>3. LocksAreApart /\ DeletesAll /\ BatchWasOffered
    BY <1>1 DEF LocksAreApart, Locks, DeletesAll, BatchWasOffered
  <1>4. OfferIsKnown /\ StoredIsVersion
    BY DEF ConceptInit, OfferIsKnown, StoredIsVersion
  <1>5. QED
    BY <1>2, <1>3, <1>4 DEF ConceptInv

\* Lists that were offered stay on record.
VersionsGrow == \A c \in Concepts : versions[c] \subseteq versions'[c]

LEMMA ConceptStep ==
  ASSUME ConceptInv, ConceptNext
  PROVE  ConceptInv' /\ VersionsGrow
  <1>1. CASE \E c \in Concepts : OfferConcept(c)
    BY <1>1, OfferConceptKeeps DEF VersionsGrow
  <1>2. CASE \E w \in ConceptRuns : StartConceptSync(w)
    BY <1>2, StartConceptSyncKeeps DEF VersionsGrow, StartConceptSync, conceptProvider
  <1>3. CASE \E w \in ConceptRuns : UpsertConcept(w)
    BY <1>3, UpsertConceptKeeps DEF VersionsGrow, UpsertConcept, conceptProvider
  <1>4. CASE \E w \in ConceptRuns : DeleteMembers(w)
    BY <1>4, DeleteMembersKeeps DEF VersionsGrow, DeleteMembers, conceptProvider
  <1>5. CASE \E w \in ConceptRuns : InsertMembers(w)
    BY <1>5, InsertMembersKeeps DEF VersionsGrow, InsertMembers, conceptProvider
  <1>6. CASE \E w \in ConceptRuns : TransactionFails(w)
    BY <1>6, TransactionFailsKeeps DEF VersionsGrow, TransactionFails, conceptProvider
  <1>7. CASE \E w \in ConceptRuns, c \in Concepts : FetchConstituents(w, c)
    BY <1>7, FetchConstituentsKeeps DEF VersionsGrow, FetchConstituents, conceptProvider
  <1>8. CASE \E w \in ConceptRuns, c \in Concepts : FetchConstituentsFails(w, c)
    BY <1>8, FetchConstituentsFailsKeeps DEF VersionsGrow, FetchConstituentsFails, conceptProvider
  <1>9. QED
    BY <1>1, <1>2, <1>3, <1>4, <1>5, <1>6, <1>7, <1>8 DEF ConceptNext

-----------------------------------------------------------------------------
(* The graph. *)

LEMMA GrownVersions ==
  ASSUME VersionsGrow, NEW f, PartOfVersions(f)
  PROVE  \A c \in Concepts : \E S \in versions'[c] : f[c] \subseteq S
  BY DEF VersionsGrow, PartOfVersions

\* The constituents in the database belong to one list each.
LEMMA StoredIsPart == ASSUME ConceptInv PROVE PartOfVersions(member)
  <1>1. ASSUME NEW c \in Concepts PROVE \E S \in versions[c] : member[c] \subseteq S
    <2>1. CASE c \in concept
      BY <2>1 DEF ConceptInv, StoredIsVersion
    <2>2. CASE c \notin concept
      BY <2>2 DEF ConceptInv, StoredIsVersion, OfferIsKnown
    <2>3. QED
      BY <2>1, <2>2
  <1>2. QED
    BY <1>1 DEF PartOfVersions

\* Relationships written from a part of the lists are such a part again.
LEMMA MergedIsPart ==
  ASSUME ConceptInv, NEW g \in GraphRuns, NEW Done, PartOfVersions(graphRun[g].batch)
  PROVE  PartOfVersions(MergedConcepts(g, Done))
  <1>1. ASSUME NEW c \in Concepts
        PROVE  \E S \in versions[c] : MergedConcepts(g, Done)[c] \subseteq S
    <2>1. PICK S \in versions[c] : graphRun[g].batch[c] \subseteq S
      BY DEF PartOfVersions
    <2>2. MergedConcepts(g, Done)[c] \subseteq graphRun[g].batch[c]
      BY DEF MergedConcepts, NoRelations
    <2>3. QED
      BY <2>1, <2>2
  <1>2. QED
    BY <1>1 DEF PartOfVersions

LEMMA NothingIsPart ==
  ASSUME ConceptInv, NEW f, \A c \in Concepts : f[c] = {}
  PROVE  PartOfVersions(f)
  BY DEF ConceptInv, OfferIsKnown, PartOfVersions

LEMMA IdleGraphFacts == IdleGraphRun \in GraphRecord /\ IdleGraphRun.pc = "idle"
  BY DEF IdleGraphRun, GraphRecord

\* One graph sync moves, while the concept sync stands still.
LEMMA OneGraphRunMoves ==
  ASSUME ConceptInv, GraphInv, NEW g \in GraphRuns, NEW r \in GraphRecord,
         graphRun' = [graphRun EXCEPT ![g] = r], UNCHANGED <<industry, conceptVars>>,
         r.pc = "rebuild" => PartOfVersions(r.batch),
         PartOfVersions(inConcept')
  PROVE  GraphInv'
  <1>1. versions' = versions /\ industry' = industry
    BY DEF conceptVars
  <1>2. graphRun' \in [GraphRuns -> GraphRecord]
    BY DEF GraphInv
  <1>3. graphRun'[g] = r /\ \A h \in GraphRuns : h # g => graphRun'[h] = graphRun[h]
    BY DEF GraphInv
  <1>4. ASSUME NEW h \in GraphRuns, graphRun'[h].pc = "rebuild"
        PROVE  PartOfVersions(graphRun'[h].batch)
    BY <1>3, <1>4 DEF GraphInv
  <1>5. QED
    BY <1>1, <1>2, <1>4 DEF GraphInv, PartOfVersions

LEMMA SyncGraphKeeps ==
  ASSUME ConceptInv, GraphInv, NEW g \in GraphRuns, SyncGraph(g)
  PROVE  GraphInv'
  <1>1. PICK pc \in {"stocks", "concepts"}, mode \in {"full", "incremental"}, all \in BOOLEAN :
          StartGraphSync(g, pc, mode, all)
    BY DEF SyncGraph, SyncStocksFull, SyncStocksIncremental, SyncConcepts, SyncAll
  <1> DEFINE r == [IdleGraphRun EXCEPT !.pc = pc, !.mode = mode, !.all = all]
  <1>2. /\ graphRun' = [graphRun EXCEPT ![g] = r] /\ UNCHANGED <<industry, conceptVars>>
        /\ inConcept' = inConcept
    BY <1>1 DEF StartGraphSync, graphDb
  <1>3. r \in GraphRecord /\ r.pc # "rebuild"
    BY DEF IdleGraphRun, GraphRecord
  <1> HIDE DEF r
  <1>4. QED
    BY <1>2, <1>3, OneGraphRunMoves DEF GraphInv

LEMMA EndStocksFacts ==
  ASSUME GraphInv, NEW g \in GraphRuns, EndStocks(g)
  PROVE  \E r \in GraphRecord : graphRun' = [graphRun EXCEPT ![g] = r] /\ r.pc # "rebuild"
  <1> DEFINE on == [IdleGraphRun EXCEPT !.pc = "concepts"]
             r == IF graphRun[g].all THEN on ELSE IdleGraphRun
  <1>1. on \in GraphRecord /\ on.pc = "concepts"
    BY DEF IdleGraphRun, GraphRecord
  <1>2. graphRun' = [graphRun EXCEPT ![g] = r]
    BY DEF EndStocks, AfterStocks
  <1> HIDE DEF on
  <1>3. QED
    BY <1>1, <1>2, IdleGraphFacts

LEMMA FetchStocksKeeps ==
  ASSUME ConceptInv, GraphInv, NEW g \in GraphRuns, FetchStocks(g)
  PROVE  GraphInv'
  <1>1. UNCHANGED <<industry, conceptVars>> /\ inConcept' = inConcept
    BY DEF FetchStocks, graphDb
  <1>2. PICK codes \in SUBSET MemberCodes :
          IF codes = {} THEN EndStocks(g)
          ELSE graphRun' = [graphRun EXCEPT ![g].pc = "merge", ![g].codes = codes,
                                            ![g].batch = industry]
    BY DEF FetchStocks, PageOfStocks, IncrementalStocks, StocksByCodes
  <1>3. CASE codes = {}
    <2>1. PICK r \in GraphRecord : graphRun' = [graphRun EXCEPT ![g] = r] /\ r.pc # "rebuild"
      BY <1>2, <1>3, EndStocksFacts
    <2>2. QED
      BY <1>1, <2>1, OneGraphRunMoves DEF GraphInv
  <1>4. CASE codes # {}
    <2> DEFINE r == [graphRun[g] EXCEPT !.pc = "merge", !.codes = codes, !.batch = industry]
    <2>1. graphRun \in [GraphRuns -> GraphRecord] /\ graphRun[g] \in GraphRecord
          /\ industry \in [MemberCodes -> Industries \cup {Blank, NoIndustry}]
      BY DEF GraphInv
    <2>2. graphRun' = [graphRun EXCEPT ![g] = r]
      BY <1>2, <1>4, <2>1 DEF GraphRecord
    <2>3. r \in GraphRecord /\ r.pc = "merge"
      BY <2>1 DEF GraphRecord
    <2> HIDE DEF r
    <2>4. QED
      BY <1>1, <2>2, <2>3, OneGraphRunMoves DEF GraphInv
  <1>5. QED
    BY <1>3, <1>4

LEMMA MergeStocksKeeps ==
  ASSUME ConceptInv, GraphInv, NEW g \in GraphRuns, MergeStocks(g)
  PROVE  GraphInv'
  <1>1. UNCHANGED <<industry, conceptVars>> /\ inConcept' = inConcept /\ EndStocks(g)
    BY DEF MergeStocks
  <1>2. PICK r \in GraphRecord : graphRun' = [graphRun EXCEPT ![g] = r] /\ r.pc # "rebuild"
    BY <1>1, EndStocksFacts
  <1>3. QED
    BY <1>1, <1>2, OneGraphRunMoves DEF GraphInv

LEMMA SelectConceptsKeeps ==
  ASSUME ConceptInv, GraphInv, NEW g \in GraphRuns, SelectConcepts(g)
  PROVE  GraphInv'
  <1> DEFINE selected == [graphRun[g] EXCEPT !.seen = concept, !.batch = <<"members">>]
             r == IF concept = {} THEN IdleGraphRun ELSE selected
  <1>1. /\ graphRun \in [GraphRuns -> GraphRecord] /\ graphRun[g] \in GraphRecord
        /\ concept \subseteq Concepts
    BY DEF GraphInv, ConceptInv, ConceptTypeOK
  <1>2. /\ UNCHANGED <<industry, conceptVars>> /\ inConcept' = inConcept
        /\ graphRun[g].pc = "concepts"
    BY DEF SelectConcepts, graphDb
  <1>3. graphRun' = [graphRun EXCEPT ![g] = r]
    BY <1>1 DEF SelectConcepts, EndGraphSync, GraphRecord
  <1>4. selected \in GraphRecord /\ selected.pc = "concepts"
    BY <1>1, <1>2 DEF GraphRecord
  <1>5. r \in GraphRecord /\ r.pc # "rebuild"
    BY <1>4, IdleGraphFacts
  <1> HIDE DEF r
  <1>6. QED
    BY <1>2, <1>3, <1>5, OneGraphRunMoves DEF GraphInv

LEMMA SelectMembersKeeps ==
  ASSUME ConceptInv, GraphInv, NEW g \in GraphRuns, SelectMembers(g)
  PROVE  GraphInv'
  <1> DEFINE r == [graphRun[g] EXCEPT !.pc = "rebuild", !.batch = member]
  <1>1. /\ graphRun \in [GraphRuns -> GraphRecord] /\ graphRun[g] \in GraphRecord
        /\ member \in [Concepts -> SUBSET MemberCodes]
    BY DEF GraphInv, ConceptInv, ConceptTypeOK
  <1>2. UNCHANGED <<industry, conceptVars>> /\ inConcept' = inConcept
    BY DEF SelectMembers, graphDb
  <1>3. graphRun' = [graphRun EXCEPT ![g] = r]
    BY <1>1 DEF SelectMembers, GraphRecord
  <1>4. r \in GraphRecord /\ r.batch = member
    BY <1>1 DEF GraphRecord
  <1> HIDE DEF r
  <1>5. QED
    BY <1>2, <1>3, <1>4, StoredIsPart, OneGraphRunMoves DEF GraphInv

LEMMA RebuildConceptsKeeps ==
  ASSUME ConceptInv, GraphInv, NEW g \in GraphRuns, RebuildConcepts(g)
  PROVE  GraphInv'
  <1>1. /\ UNCHANGED <<industry, conceptVars>>
        /\ graphRun' = [graphRun EXCEPT ![g] = IdleGraphRun] /\ graphRun[g].pc = "rebuild"
    BY DEF RebuildConcepts, EndGraphSync
  <1>2. PICK Done : inConcept' = MergedConcepts(g, Done)
    BY DEF RebuildConcepts, GraphRebuilt
  <1>3. PartOfVersions(graphRun[g].batch)
    BY <1>1 DEF GraphInv
  <1>4. PartOfVersions(inConcept')
    BY <1>2, <1>3, MergedIsPart
  <1>5. QED
    BY <1>1, <1>4, IdleGraphFacts, OneGraphRunMoves

LEMMA RebuildFailsKeeps ==
  ASSUME ConceptInv, GraphInv, NEW g \in GraphRuns, RebuildFails(g)
  PROVE  GraphInv'
  <1>1. /\ UNCHANGED <<industry, conceptVars>> /\ inConcept' = inConcept
        /\ graphRun' = [graphRun EXCEPT ![g] = IdleGraphRun]
    BY DEF RebuildFails, EndGraphSync, graphDb
  <1>2. QED
    BY <1>1, IdleGraphFacts, OneGraphRunMoves DEF GraphInv

LEMMA ClearGraphKeeps ==
  ASSUME ConceptInv, GraphInv, ClearGraph
  PROVE  GraphInv'
  <1>1. /\ inConcept' = [c \in Concepts |-> {}] /\ graphRun' = graphRun /\ industry' = industry
        /\ versions' = versions
    BY DEF ClearGraph, ClearAllGraphData, conceptVars
  <1>2. PartOfVersions(inConcept')
    BY <1>1, NothingIsPart
  <1>3. QED
    BY <1>1, <1>2 DEF GraphInv, PartOfVersions

LEMMA ChangeIndustryKeeps ==
  ASSUME GraphInv, NEW s \in MemberCodes, ChangeIndustry(s)
  PROVE  GraphInv'
  <1>1. /\ inConcept' = inConcept /\ graphRun' = graphRun /\ versions' = versions
    BY DEF ChangeIndustry, graphDb, conceptVars
  <1>2. PICK i \in Industries \cup {Blank} : industry' = [industry EXCEPT ![s] = i]
    BY DEF ChangeIndustry
  <1>3. industry' \in [MemberCodes -> Industries \cup {Blank, NoIndustry}]
    BY <1>2 DEF GraphInv
  <1>4. QED
    BY <1>1, <1>3 DEF GraphInv, PartOfVersions

\* The process dies with all its runs, of both kinds.
LEMMA GraphCrashKeeps ==
  ASSUME ConceptInv, GraphInv, GraphCrash
  PROVE  ConceptInv' /\ GraphInv'
  <1>1. /\ offered' = offered /\ versions' = versions /\ concept' = concept /\ member' = member
        /\ industry' = industry /\ graphRun' = [g \in GraphRuns |-> IdleGraphRun]
        /\ conceptRun' = [w \in ConceptRuns |-> IdleSync]
    BY DEF GraphCrash, conceptProvider, conceptTables
  <1>2. PartOfVersions(inConcept')
    <2>1. CASE inConcept' = inConcept
      BY <2>1 DEF GraphInv
    <2>2. CASE inConcept' # inConcept
      <3>1. PICK g \in GraphRuns, Done \in SUBSET Concepts :
              graphRun[g].pc = "rebuild" /\ inConcept' = MergedConcepts(g, Done)
        BY <2>2 DEF GraphCrash, GraphRebuilt, graphDb
      <3>2. PartOfVersions(graphRun[g].batch)
        BY <3>1 DEF GraphInv
      <3>3. QED
        BY <3>1, <3>2, MergedIsPart
    <2>3. QED
      BY <2>1, <2>2
  <1>3. GraphInv'
    <2>1. graphRun' \in [GraphRuns -> GraphRecord] /\ \A g \in GraphRuns : graphRun'[g].pc = "idle"
      BY <1>1, IdleGraphFacts
    <2>2. QED
      BY <1>1, <1>2, <2>1 DEF GraphInv, PartOfVersions
  <1>4. ConceptInv'
    <2>1. /\ conceptRun' \in [ConceptRuns -> SyncRecord]
          /\ \A w \in ConceptRuns : conceptRun'[w].pc = "idle"
      BY <1>1, IdleSyncFacts
    <2>2. ConceptTypeOK'
      BY <1>1, <2>1 DEF ConceptInv, ConceptTypeOK, SyncRecord
    <2>3. LocksAreApart' /\ DeletesAll' /\ BatchWasOffered'
      BY <2>1 DEF LocksAreApart, Locks, DeletesAll, BatchWasOffered
    <2>4. OfferIsKnown' /\ StoredIsVersion'
      BY <1>1 DEF ConceptInv, OfferIsKnown, StoredIsVersion
    <2>5. QED
      BY <2>2, <2>3, <2>4 DEF ConceptInv
  <1>5. QED
    BY <1>3, <1>4

\* The concept sync moves, while the graph stands still.
LEMMA GraphKeptByConcepts ==
  ASSUME GraphInv, VersionsGrow, UNCHANGED <<graphRun, inConcept, industry>>
  PROVE  GraphInv'
  <1>1. graphRun' = graphRun /\ inConcept' = inConcept /\ industry' = industry
    OBVIOUS
  <1>2. PartOfVersions(inConcept)'
    BY <1>1, GrownVersions DEF GraphInv, PartOfVersions
  <1>3. ASSUME NEW g \in GraphRuns, graphRun[g].pc = "rebuild"
        PROVE  \A c \in Concepts : \E S \in versions'[c] : graphRun[g].batch[c] \subseteq S
    BY <1>3, GrownVersions DEF GraphInv
  <1>4. QED
    BY <1>1, <1>2, <1>3 DEF GraphInv, PartOfVersions

LEMMA ConceptKeptByGraph ==
  ASSUME ConceptInv, UNCHANGED conceptVars
  PROVE  ConceptInv'
  <1>1. /\ offered' = offered /\ versions' = versions /\ concept' = concept /\ member' = member
        /\ conceptRun' = conceptRun
    BY DEF conceptVars
  <1>2. QED
    BY <1>1 DEF ConceptInv, ConceptTypeOK, LocksAreApart, Locks, DeletesAll, BatchWasOffered,
                OfferIsKnown, StoredIsVersion

LEMMA PipelineInvInit == ASSUME PipelineInit PROVE ConceptInv /\ GraphInv
  <1>1. ConceptInv
    BY ConceptInvInit DEF PipelineInit
  <1>2. /\ graphRun \in [GraphRuns -> GraphRecord] /\ \A g \in GraphRuns : graphRun[g].pc = "idle"
        /\ industry \in [MemberCodes -> Industries \cup {Blank, NoIndustry}]
    BY IdleGraphFacts DEF PipelineInit, GraphInit
  <1>3. PartOfVersions(inConcept)
    BY <1>1, NothingIsPart DEF PipelineInit, GraphInit
  <1>4. QED
    BY <1>1, <1>2, <1>3 DEF GraphInv

LEMMA PipelineInvStep ==
  ASSUME ConceptInv, GraphInv, [PipelineNext]_pipelineVars
  PROVE  ConceptInv' /\ GraphInv'
  <1>1. CASE ConceptNext /\ CommitNoted
    BY <1>1, ConceptStep, GraphKeptByConcepts DEF CommitNoted
  <1>2. CASE GraphCrash
    BY <1>2, GraphCrashKeeps
  <1>3. CASE GraphNext /\ ~GraphCrash
    <2>1. UNCHANGED conceptVars
      BY <1>3 DEF GraphNext, ChangeIndustry, SyncGraph, SyncStocksFull, SyncStocksIncremental,
         SyncConcepts, SyncAll, StartGraphSync, FetchStocks, MergeStocks, SelectConcepts,
         SelectMembers, RebuildConcepts, RebuildFails, ClearGraph
    <2>2. ConceptInv'
      BY <2>1, ConceptKeptByGraph
    <2>3. GraphInv'
      <3>1. CASE \E s \in MemberCodes : ChangeIndustry(s)
        BY <3>1, ChangeIndustryKeeps
      <3>2. CASE \E g \in GraphRuns : SyncGraph(g)
        BY <3>2, SyncGraphKeeps
      <3>3. CASE \E g \in GraphRuns : FetchStocks(g)
        BY <3>3, FetchStocksKeeps
      <3>4. CASE \E g \in GraphRuns : MergeStocks(g)
        BY <3>4, MergeStocksKeeps
      <3>5. CASE \E g \in GraphRuns : SelectConcepts(g)
        BY <3>5, SelectConceptsKeeps
      <3>6. CASE \E g \in GraphRuns : SelectMembers(g)
        BY <3>6, SelectMembersKeeps
      <3>7. CASE \E g \in GraphRuns : RebuildConcepts(g)
        BY <3>7, RebuildConceptsKeeps
      <3>8. CASE \E g \in GraphRuns : RebuildFails(g)
        BY <3>8, RebuildFailsKeeps
      <3>9. CASE ClearGraph
        BY <3>9, ClearGraphKeeps
      <3>10. QED
        BY <1>3, <3>1, <3>2, <3>3, <3>4, <3>5, <3>6, <3>7, <3>8, <3>9 DEF GraphNext
    <2>4. QED
      BY <2>2, <2>3
  <1>4. CASE UNCHANGED pipelineVars
    <2>1. UNCHANGED conceptVars /\ UNCHANGED graphVars /\ VersionsGrow
      BY <1>4 DEF pipelineVars, conceptVars, VersionsGrow
    <2>2. QED
      BY <2>1, ConceptKeptByGraph, GraphKeptByConcepts DEF graphVars
  <1>5. QED
    BY <1>1, <1>2, <1>3, <1>4 DEF PipelineNext

\* A concept's constituents in the database are one list that the provider
\* offered, and its relationships in the graph belong to one such list, with any
\* number of concept syncs and graph syncs overlapping, failing and crashing.
THEOREM ConceptsAreNeverMixed == PipelineSpec => []ConceptsAreOneVersion
  <1>1. ConceptInv /\ GraphInv => ConceptsAreOneVersion
    BY DEF ConceptInv, StoredIsVersion, GraphInv, PartOfVersions, ConceptsAreOneVersion
  <1>2. QED
    BY <1>1, PipelineInvInit, PipelineInvStep, PTL DEF PipelineSpec

-----------------------------------------------------------------------------
(* The types of the graph.  GraphInv knows those of the runs.  *)

\* What is stored in the graph, and the industries that a merge is about to store.
GraphStored ==
  /\ stockNode \subseteq MemberCodes /\ conceptNode \subseteq Concepts
  /\ inIndustry \in [MemberCodes -> SUBSET Industries]
  /\ inConcept \in [Concepts -> SUBSET MemberCodes]
  /\ changed \in [GraphRuns -> SUBSET Concepts] /\ outdated \subseteq Concepts
  /\ \A g \in GraphRuns :
       graphRun[g].pc = "merge" =>
         graphRun[g].batch \in [MemberCodes -> Industries \cup {Blank, NoIndustry}]

\* The graph stays as it is, and no run comes to its merge.
LEMMA StoredStays ==
  ASSUME GraphStored, UNCHANGED graphDb,
         \A g \in GraphRuns : graphRun'[g].pc = "merge" => graphRun'[g] = graphRun[g]
  PROVE  GraphStored'
  BY DEF GraphStored, graphDb

\* One run moves, but not to its merge.
LEMMA OtherRunsMerge ==
  ASSUME GraphInv, NEW g \in GraphRuns, NEW r, graphRun' = [graphRun EXCEPT ![g] = r],
         r.pc # "merge"
  PROVE  \A h \in GraphRuns : graphRun'[h].pc = "merge" => graphRun'[h] = graphRun[h]
  BY DEF GraphInv

LEMMA FetchStoresNothing ==
  ASSUME GraphInv, GraphStored, NEW g \in GraphRuns, FetchStocks(g)
  PROVE  GraphStored'
  <1>1. UNCHANGED graphDb
    BY DEF FetchStocks
  <1>2. PICK codes \in SUBSET MemberCodes :
          IF codes = {} THEN EndStocks(g)
          ELSE graphRun' = [graphRun EXCEPT ![g].pc = "merge", ![g].codes = codes,
                                            ![g].batch = industry]
    BY DEF FetchStocks, PageOfStocks, IncrementalStocks, StocksByCodes
  <1>3. CASE codes = {}
    <2>1. PICK r \in GraphRecord : graphRun' = [graphRun EXCEPT ![g] = r] /\ r = AfterStocks(graphRun[g])
      BY <1>2, <1>3 DEF EndStocks, AfterStocks, IdleGraphRun, GraphRecord, GraphInv
    <2>2. r.pc # "merge"
      BY <2>1 DEF AfterStocks, IdleGraphRun
    <2>3. QED
      BY <1>1, <2>1, <2>2, OtherRunsMerge, StoredStays
  <1>4. CASE codes # {}
    <2>1. /\ graphRun \in [GraphRuns -> GraphRecord] /\ graphRun[g] \in GraphRecord
          /\ industry \in [MemberCodes -> Industries \cup {Blank, NoIndustry}]
      BY DEF GraphInv
    <2>2. /\ graphRun'[g].batch = industry
          /\ \A h \in GraphRuns \ {g} : graphRun'[h] = graphRun[h]
      BY <1>2, <1>4, <2>1 DEF GraphRecord
    <2>3. QED
      BY <1>1, <2>1, <2>2 DEF GraphStored, graphDb
  <1>5. QED
    BY <1>3, <1>4

LEMMA MergeStores ==
  ASSUME GraphInv, GraphStored, NEW g \in GraphRuns, MergeStocks(g)
  PROVE  GraphStored'
  <1>1. /\ graphRun' = [graphRun EXCEPT ![g] = AfterStocks(graphRun[g])]
        /\ conceptNode' = conceptNode /\ inConcept' = inConcept /\ graphRun[g].pc = "merge"
    BY DEF MergeStocks, EndStocks, GraphInv
  <1>2. AfterStocks(graphRun[g]).pc # "merge"
    BY DEF AfterStocks, IdleGraphRun
  <1>3. PICK Done \in SUBSET graphRun[g].codes :
          stockNode' = stockNode \cup Done /\ inIndustry' = MergedIndustry(g, Done)
    BY DEF MergeStocks, Written
  <1>4. graphRun[g] \in GraphRecord /\ graphRun[g].codes \subseteq MemberCodes
    BY DEF GraphInv, GraphRecord
  <1>5. graphRun[g].batch \in [MemberCodes -> Industries \cup {Blank, NoIndustry}]
    BY <1>1 DEF GraphStored
  <1>6. MergedIndustry(g, Done) \in [MemberCodes -> SUBSET Industries]
    <2>1. ASSUME NEW s \in MemberCodes, Normalized(graphRun[g].batch[s]) # NoIndustry
          PROVE  graphRun[g].batch[s] \in Industries
      BY <1>5, <2>1 DEF Normalized
    <2>2. QED
      BY <2>1 DEF MergedIndustry, GraphStored
  <1>7. \A h \in GraphRuns : graphRun'[h].pc = "merge" => graphRun'[h] = graphRun[h]
    BY <1>1, <1>2, OtherRunsMerge
  <1>8. changed' = changed /\ outdated' \subseteq Concepts
    BY DEF MergeStocks, GraphStored
  <1>9. QED
    BY <1>1, <1>3, <1>4, <1>6, <1>7, <1>8 DEF GraphStored

\* What a rebuild stores, whether it ends or is cut short.
LEMMA RebuildStores ==
  ASSUME GraphInv, GraphStored, NEW g \in GraphRuns, NEW Done, Done \subseteq Concepts,
         GraphRebuilt(g, Done), UNCHANGED <<stockNode, inIndustry, changed>>,
         \A h \in GraphRuns : graphRun'[h].pc = "merge" => graphRun'[h] = graphRun[h]
  PROVE  GraphStored'
  <1>1. MergedConcepts(g, Done) \in [Concepts -> SUBSET MemberCodes]
    BY DEF MergedConcepts, NoRelations, GraphStored
  <1>2. graphRun[g].seen \subseteq Concepts
    BY DEF GraphInv, GraphRecord
  <1>3. outdated' \subseteq Concepts
    BY <1>2 DEF GraphRebuilt, GraphStored
  <1>4. QED
    BY <1>1, <1>3 DEF GraphStored, GraphRebuilt

LEMMA GraphStoredStep ==
  ASSUME GraphInv, GraphStored, [PipelineNext]_pipelineVars
  PROVE  GraphStored'
  <1>1. CASE UNCHANGED graphVars
    BY <1>1 DEF GraphStored, graphVars
  <1>2. ASSUME NEW s \in MemberCodes, ChangeIndustry(s) PROVE GraphStored'
    BY <1>2, StoredStays DEF ChangeIndustry
  <1>3. ASSUME NEW g \in GraphRuns, SyncGraph(g) PROVE GraphStored'
    <2>1. PICK pc \in {"stocks", "concepts"}, mode \in {"full", "incremental"}, all \in BOOLEAN :
            StartGraphSync(g, pc, mode, all)
      BY <1>3 DEF SyncGraph, SyncStocksFull, SyncStocksIncremental, SyncConcepts, SyncAll
    <2> DEFINE r == [IdleGraphRun EXCEPT !.pc = pc, !.mode = mode, !.all = all]
    <2>2. graphRun' = [graphRun EXCEPT ![g] = r] /\ UNCHANGED graphDb
      BY <2>1 DEF StartGraphSync
    <2>3. r.pc # "merge"
      BY DEF IdleGraphRun
    <2> HIDE DEF r
    <2>4. QED
      BY <2>2, <2>3, OtherRunsMerge, StoredStays
  <1>4. ASSUME NEW g \in GraphRuns, FetchStocks(g) PROVE GraphStored'
    BY <1>4, FetchStoresNothing
  <1>5. ASSUME NEW g \in GraphRuns, MergeStocks(g) PROVE GraphStored'
    BY <1>5, MergeStores
  <1>6. ASSUME NEW g \in GraphRuns, SelectConcepts(g) \/ SelectMembers(g) PROVE GraphStored'
    <2>1. /\ UNCHANGED <<stockNode, conceptNode, inIndustry, inConcept, outdated>>
          /\ graphRun[g].pc = "concepts" /\ graphRun[g] \in GraphRecord
          /\ graphRun \in [GraphRuns -> GraphRecord]
      BY <1>6 DEF SelectConcepts, SelectMembers, GraphInv
    <2>2. /\ graphRun'[g].pc # "merge"
          /\ \A h \in GraphRuns \ {g} : graphRun'[h] = graphRun[h]
      BY <1>6, <2>1 DEF SelectConcepts, SelectMembers, EndGraphSync, IdleGraphRun, GraphRecord
    <2>3. changed' \in [GraphRuns -> SUBSET Concepts]
      BY <1>6 DEF SelectConcepts, SelectMembers, GraphStored
    <2>4. QED
      BY <2>1, <2>2, <2>3 DEF GraphStored
  <1>7. ASSUME NEW g \in GraphRuns, RebuildConcepts(g) PROVE GraphStored'
    <2>1. /\ graphRun' = [graphRun EXCEPT ![g] = IdleGraphRun] /\ IdleGraphRun.pc # "merge"
          /\ UNCHANGED <<stockNode, inIndustry, changed>>
      BY <1>7 DEF RebuildConcepts, EndGraphSync, IdleGraphRun
    <2>2. PICK Done \in SUBSET graphRun[g].seen : GraphRebuilt(g, Done)
      BY <1>7 DEF RebuildConcepts, Written
    <2>3. Done \subseteq Concepts
      BY DEF GraphInv, GraphRecord
    <2>4. QED
      BY <2>1, <2>2, <2>3, OtherRunsMerge, RebuildStores
  <1>8. ASSUME NEW g \in GraphRuns, RebuildFails(g) PROVE GraphStored'
    BY <1>8, OtherRunsMerge, StoredStays, IdleGraphFacts DEF RebuildFails, EndGraphSync
  <1>9. CASE ClearGraph
    BY <1>9 DEF ClearGraph, ClearAllGraphData, GraphStored
  <1>10. CASE GraphCrash
    <2>1. \A g \in GraphRuns : graphRun'[g].pc # "merge"
      BY <1>10 DEF GraphCrash, IdleGraphRun
    <2>2. CASE UNCHANGED graphDb
      BY <2>1, <2>2, StoredStays
    <2>3. CASE \E g \in GraphRuns, Done \in SUBSET Concepts :
                 GraphRebuilt(g, Done) /\ UNCHANGED <<stockNode, inIndustry, changed>>
      BY <2>1, <2>3, RebuildStores
    <2>4. QED
      BY <1>10, <2>2, <2>3 DEF GraphCrash
  <1>11. CASE CommitNoted
    BY <1>11 DEF CommitNoted, GraphStored
  <1>12. QED
    BY <1>1, <1>2, <1>3, <1>4, <1>5, <1>6, <1>7, <1>8, <1>9, <1>10, <1>11
       DEF PipelineNext, GraphNext, pipelineVars

\* The tables and the graph keep their types, so that a node, a relationship or a
\* list in hand is never of the wrong kind.
THEOREM PipelineTypes == PipelineSpec => [](ConceptTypeOK /\ GraphTypeOK)
  <1> DEFINE IInv == ConceptInv /\ GraphInv /\ GraphStored
  <1>1. PipelineInit => IInv
    <2>1. GraphInit => GraphStored
      BY DEF GraphInit, GraphStored, IdleGraphRun
    <2>2. QED
      BY <2>1, PipelineInvInit DEF PipelineInit
  <1>2. IInv /\ [PipelineNext]_pipelineVars => IInv'
    BY PipelineInvStep, GraphStoredStep
  <1>3. IInv => ConceptTypeOK /\ GraphTypeOK
    BY DEF ConceptInv, GraphInv, GraphStored, GraphTypeOK, GraphRecord
  <1>4. QED
    BY <1>1, <1>2, <1>3, PTL DEF PipelineSpec

-----------------------------------------------------------------------------
(* Neighbours.  The graph shows the concepts as the database has them, but for *)
(* those that are outdated.                                                   *)

\* What a record r of a rebuild has read is what there is, but for the concepts Ch.
ReadIsFresh(r, Ch) ==
  /\ r.pc = "concepts" /\ r.batch # <<>> =>
       \A c \in Concepts \ (r.seen \cup Ch) : member[c] = {}
  /\ r.pc = "rebuild" =>
       \A c \in Concepts \ Ch : member[c] = IF c \in r.seen THEN r.batch[c] ELSE {}

NoMembersYet == \A c \in Concepts \ concept : member[c] = {}

InStep == \A c \in Concepts \ outdated : inConcept[c] = member[c] \cap stockNode

FollowInv ==
  NoMembersYet /\ InStep /\ \A g \in GraphRuns : ReadIsFresh(graphRun[g], changed[g])

PipelineIInv == ConceptInv /\ GraphInv /\ GraphStored

\* A run that has read nothing has read nothing wrong.
LEMMA NothingRead ==
  ASSUME NEW r, NEW Ch, r.pc \in {"idle", "stocks", "merge"} \/ (r.pc = "concepts" /\ r.batch = <<>>)
  PROVE  ReadIsFresh(r, Ch)
  BY DEF ReadIsFresh

\* Nothing that is read changes; the run g becomes r.
LEMMA OneReads ==
  ASSUME PipelineIInv, FollowInv, NEW g \in GraphRuns, NEW r,
         graphRun' = [graphRun EXCEPT ![g] = r], ReadIsFresh(r, changed'[g]),
         UNCHANGED <<concept, member>>,
         \A h \in GraphRuns \ {g} : changed'[h] = changed[h],
         InStep'
  PROVE  FollowInv'
  <1>1. graphRun'[g] = r /\ \A h \in GraphRuns \ {g} : graphRun'[h] = graphRun[h]
    BY DEF PipelineIInv, GraphInv
  <1>2. ASSUME NEW h \in GraphRuns PROVE ReadIsFresh(graphRun[h], changed[h])'
    <2>1. CASE h = g
      BY <1>1, <2>1 DEF ReadIsFresh
    <2>2. CASE h # g
      <3>1. ReadIsFresh(graphRun[h], changed[h]) /\ graphRun'[h] = graphRun[h]
            /\ changed'[h] = changed[h]
        BY <1>1, <2>2 DEF FollowInv
      <3>2. QED
        BY <3>1 DEF ReadIsFresh
    <2>3. QED
      BY <2>1, <2>2
  <1>3. NoMembersYet'
    BY DEF FollowInv, NoMembersYet
  <1>4. QED
    BY <1>2, <1>3 DEF FollowInv

\* A rebuild writes what it has read: what is not so in the database is outdated.
LEMMA RebuiltInStep ==
  ASSUME PipelineIInv, FollowInv, NEW g \in GraphRuns, NEW Done, graphRun[g].pc = "rebuild",
         Done \subseteq graphRun[g].seen, GraphRebuilt(g, Done), UNCHANGED <<stockNode, member>>
  PROVE  InStep'
  <1> SUFFICES ASSUME NEW c \in Concepts \ outdated'
               PROVE  inConcept'[c] = member[c] \cap stockNode
    BY DEF InStep
  <1>1. c \notin graphRun[g].seen \ Done /\ c \notin changed[g]
    BY DEF GraphRebuilt
  <1>2. member[c] = IF c \in graphRun[g].seen THEN graphRun[g].batch[c] ELSE {}
    BY <1>1 DEF FollowInv, ReadIsFresh
  <1>3. inConcept'[c] = IF c \in Done THEN graphRun[g].batch[c] \cap stockNode ELSE {}
    BY DEF GraphRebuilt, MergedConcepts, NoRelations
  <1>4. QED
    BY <1>1, <1>2, <1>3

LEMMA ConceptsFollow ==
  ASSUME PipelineIInv, FollowInv, ConceptNext, CommitNoted
  PROVE  FollowInv'
  <1>1. concept \subseteq concept' /\ \A c \in Concepts \ concept' : member'[c] = member[c]
    <2>1. CASE \E w \in ConceptRuns : InsertMembers(w)
      <3>1. PICK w \in ConceptRuns : InsertMembers(w)
        BY <2>1
      <3>2. concept' = concept \cup {conceptRun[w].cur}
            /\ member' = [member EXCEPT ![conceptRun[w].cur] = Replaced(w)]
        BY <3>1 DEF InsertMembers
      <3>3. QED
        BY <3>2 DEF PipelineIInv, ConceptInv, ConceptTypeOK
    <2>2. CASE ~ \E w \in ConceptRuns : InsertMembers(w)
      <3>1. UNCHANGED conceptTables
        BY <2>2 DEF ConceptNext, OfferConcept, StartConceptSync, UpsertConcept, DeleteMembers,
                    TransactionFails, FetchConstituents, FetchConstituentsFails
      <3>2. QED
        BY <3>1 DEF conceptTables
    <2>3. QED
      BY <2>1, <2>2
  <1>2. NoMembersYet'
    BY <1>1 DEF FollowInv, NoMembersYet
  <1>3. /\ UNCHANGED <<stockNode, inConcept, graphRun>> /\ outdated \subseteq outdated'
        /\ \A c \in Concepts \ outdated' : member'[c] = member[c]
        /\ \A g \in GraphRuns : /\ changed[g] \subseteq changed'[g]
                                /\ \A c \in Concepts \ changed'[g] : member'[c] = member[c]
    BY DEF CommitNoted
  <1>4. InStep'
    BY <1>3 DEF FollowInv, InStep
  <1>5. ASSUME NEW g \in GraphRuns PROVE ReadIsFresh(graphRun[g], changed[g])'
    <2>1. ReadIsFresh(graphRun[g], changed[g]) /\ graphRun'[g] = graphRun[g]
      BY <1>3 DEF FollowInv
    <2>2. QED
      BY <1>3, <2>1 DEF ReadIsFresh
  <1>6. QED
    BY <1>2, <1>4, <1>5 DEF FollowInv

LEMMA ReadsFollow ==
  ASSUME PipelineIInv, FollowInv, NEW g \in GraphRuns, SelectConcepts(g) \/ SelectMembers(g)
  PROVE  FollowInv'
  <1>1. /\ graphRun \in [GraphRuns -> GraphRecord] /\ graphRun[g] \in GraphRecord
        /\ graphRun[g].pc = "concepts" /\ changed \in [GraphRuns -> SUBSET Concepts]
    BY DEF PipelineIInv, GraphInv, GraphStored, SelectConcepts, SelectMembers
  <1>2. UNCHANGED <<concept, member, inConcept, stockNode, outdated>>
    BY DEF SelectConcepts, SelectMembers, conceptVars
  <1>3. InStep'
    BY <1>2 DEF FollowInv, InStep
  <1>4. \A h \in GraphRuns \ {g} : changed'[h] = changed[h]
    BY <1>1 DEF SelectConcepts, SelectMembers
  <1>5. CASE SelectConcepts(g)
    <2> DEFINE selected == [graphRun[g] EXCEPT !.seen = concept, !.batch = <<"members">>]
               r == IF concept = {} THEN IdleGraphRun ELSE selected
    <2>1. graphRun' = [graphRun EXCEPT ![g] = r] /\ changed'[g] = {}
      BY <1>1, <1>5 DEF SelectConcepts, EndGraphSync, GraphRecord
    <2>2. selected.pc = "concepts" /\ selected.seen = concept
      BY <1>1 DEF GraphRecord
    <2>3. ReadIsFresh(selected, {})
      BY <2>2 DEF ReadIsFresh, FollowInv, NoMembersYet
    <2>4. ReadIsFresh(IdleGraphRun, {})
      BY IdleGraphFacts, NothingRead
    <2>5. ReadIsFresh(r, changed'[g])
      BY <2>1, <2>3, <2>4
    <2> HIDE DEF r
    <2>6. QED
      BY <1>2, <1>3, <1>4, <2>1, <2>5, OneReads
  <1>6. CASE SelectMembers(g)
    <2> DEFINE r == [graphRun[g] EXCEPT !.pc = "rebuild", !.batch = member]
    <2>1. graphRun' = [graphRun EXCEPT ![g] = r] /\ changed'[g] = changed[g] \ graphRun[g].seen
      BY <1>1, <1>6 DEF SelectMembers, GraphRecord
    <2>2. r.pc = "rebuild" /\ r.seen = graphRun[g].seen /\ r.batch = member
      BY <1>1 DEF GraphRecord
    <2>3. \A c \in Concepts \ (graphRun[g].seen \cup changed[g]) : member[c] = {}
      BY <1>1, <1>6 DEF SelectMembers, FollowInv, ReadIsFresh
    <2>4. ReadIsFresh(r, changed'[g])
      BY <2>1, <2>2, <2>3 DEF ReadIsFresh
    <2> HIDE DEF r
    <2>5. QED
      BY <1>2, <1>3, <1>4, <2>1, <2>4, OneReads
  <1>7. QED
    BY <1>5, <1>6

LEMMA StocksFollow ==
  ASSUME PipelineIInv, FollowInv, NEW g \in GraphRuns,
         SyncGraph(g) \/ FetchStocks(g) \/ MergeStocks(g)
  PROVE  FollowInv'
  <1>1. UNCHANGED <<concept, member, inConcept, changed>>
    BY DEF SyncGraph, SyncStocksFull, SyncStocksIncremental, SyncConcepts, SyncAll, StartGraphSync,
           FetchStocks, MergeStocks, conceptVars, graphDb
  <1>2. graphRun \in [GraphRuns -> GraphRecord] /\ graphRun[g] \in GraphRecord
    BY DEF PipelineIInv, GraphInv
  <1>3. \E r : graphRun' = [graphRun EXCEPT ![g] = r] /\ ReadIsFresh(r, changed'[g])
    <2>1. ReadIsFresh(AfterStocks(graphRun[g]), changed'[g])
      BY NothingRead DEF AfterStocks, IdleGraphRun
    <2>2. CASE EndStocks(g)
      BY <1>2, <2>1, <2>2 DEF EndStocks
    <2>3. CASE SyncGraph(g)
      <3>1. PICK pc \in {"stocks", "concepts"}, mode \in {"full", "incremental"}, all \in BOOLEAN :
              StartGraphSync(g, pc, mode, all)
        BY <2>3 DEF SyncGraph, SyncStocksFull, SyncStocksIncremental, SyncConcepts, SyncAll
      <3> DEFINE r == [IdleGraphRun EXCEPT !.pc = pc, !.mode = mode, !.all = all]
      <3>2. graphRun' = [graphRun EXCEPT ![g] = r]
        BY <3>1 DEF StartGraphSync
      <3>3. r.pc = pc /\ r.batch = <<>>
        BY DEF IdleGraphRun
      <3> HIDE DEF r
      <3>4. QED
        BY <3>2, <3>3, NothingRead
    <2>4. CASE FetchStocks(g) /\ ~EndStocks(g)
      <3>1. PICK codes : graphRun' = [graphRun EXCEPT ![g].pc = "merge", ![g].codes = codes,
                                                      ![g].batch = industry]
        BY <2>4 DEF FetchStocks
      <3> DEFINE r == [graphRun[g] EXCEPT !.pc = "merge", !.codes = codes, !.batch = industry]
      <3>2. graphRun' = [graphRun EXCEPT ![g] = r] /\ r.pc = "merge"
        BY <1>2, <3>1 DEF GraphRecord
      <3> HIDE DEF r
      <3>3. QED
        BY <3>2, NothingRead
    <2>5. QED
      BY <2>2, <2>3, <2>4 DEF MergeStocks
  <1>4. InStep'
    <2>1. CASE MergeStocks(g)
      <3>1. PICK Done : /\ stockNode' = stockNode \cup Done
                        /\ outdated' = outdated \cup {c \in Concepts :
                                                         member[c] \cap (Done \ stockNode) # {}}
        BY <2>1 DEF MergeStocks
      <3>2. \A c \in Concepts \ outdated' : member[c] \cap stockNode' = member[c] \cap stockNode
        BY <3>1
      <3>3. QED
        BY <1>1, <3>1, <3>2 DEF FollowInv, InStep
    <2>2. CASE SyncGraph(g) \/ FetchStocks(g)
      <3>1. UNCHANGED <<stockNode, outdated>>
        BY <2>2 DEF SyncGraph, SyncStocksFull, SyncStocksIncremental, SyncConcepts, SyncAll,
                    StartGraphSync, FetchStocks, graphDb
      <3>2. QED
        BY <1>1, <3>1 DEF FollowInv, InStep
    <2>3. QED
      BY <2>1, <2>2
  <1>5. QED
    BY <1>1, <1>3, <1>4, OneReads

LEMMA FollowStep ==
  ASSUME PipelineIInv, FollowInv, [PipelineNext]_pipelineVars
  PROVE  FollowInv'
  <1>1. CASE ConceptNext /\ CommitNoted
    BY <1>1, ConceptsFollow
  <1>2. CASE UNCHANGED <<concept, member, graphRun, changed, inConcept, outdated, stockNode>>
    BY <1>2 DEF FollowInv, NoMembersYet, InStep, ReadIsFresh
  <1>3. ASSUME NEW g \in GraphRuns, SelectConcepts(g) \/ SelectMembers(g) PROVE FollowInv'
    BY <1>3, ReadsFollow
  <1>4. ASSUME NEW g \in GraphRuns, SyncGraph(g) \/ FetchStocks(g) \/ MergeStocks(g)
        PROVE  FollowInv'
    BY <1>4, StocksFollow
  <1>5. ASSUME NEW g \in GraphRuns, RebuildConcepts(g) \/ RebuildFails(g) PROVE FollowInv'
    <2>1. /\ graphRun' = [graphRun EXCEPT ![g] = IdleGraphRun]
          /\ UNCHANGED <<concept, member, changed>>
      BY <1>5 DEF RebuildConcepts, RebuildFails, EndGraphSync, conceptVars, graphDb
    <2>2. ReadIsFresh(IdleGraphRun, changed'[g])
      BY IdleGraphFacts, NothingRead
    <2>3. InStep'
      <3>1. CASE RebuildConcepts(g)
        BY <3>1, RebuiltInStep DEF RebuildConcepts, Written, conceptVars
      <3>2. CASE RebuildFails(g)
        BY <3>2 DEF RebuildFails, graphDb, conceptVars, FollowInv, InStep
      <3>3. QED
        BY <1>5, <3>1, <3>2
    <2>4. QED
      BY <2>1, <2>2, <2>3, OneReads
  <1>6. CASE ClearGraph
    BY <1>6 DEF ClearGraph, ClearAllGraphData, conceptVars, FollowInv, NoMembersYet, InStep,
                ReadIsFresh
  <1>7. CASE GraphCrash
    <2>1. /\ \A g \in GraphRuns : graphRun'[g] = IdleGraphRun
          /\ UNCHANGED <<concept, member>>
      BY <1>7 DEF GraphCrash, conceptTables
    <2>2. \A g \in GraphRuns : ReadIsFresh(graphRun[g], changed[g])'
      BY <2>1, IdleGraphFacts DEF ReadIsFresh
    <2>3. InStep'
      <3>1. CASE UNCHANGED graphDb
        BY <2>1, <3>1 DEF graphDb, FollowInv, InStep
      <3>2. ASSUME NEW g \in GraphRuns, NEW Done, graphRun[g].pc = "rebuild",
                   Done \subseteq graphRun[g].seen, GraphRebuilt(g, Done), UNCHANGED stockNode
            PROVE  InStep'
        BY <2>1, <3>2, RebuiltInStep
      <3>3. QED
        BY <1>7, <3>1, <3>2 DEF GraphCrash
    <2>4. QED
      BY <2>1, <2>2, <2>3 DEF FollowInv, NoMembersYet
  <1>8. ASSUME NEW s \in MemberCodes, ChangeIndustry(s) PROVE FollowInv'
    BY <1>2, <1>8 DEF ChangeIndustry, graphDb, conceptVars
  <1>9. CASE UNCHANGED pipelineVars
    BY <1>2, <1>9 DEF pipelineVars, conceptVars, graphVars
  <1>10. QED
    BY <1>1, <1>3, <1>4, <1>5, <1>6, <1>7, <1>8, <1>9 DEF PipelineNext, GraphNext

\* A query with a limit that the rows keep within gives all of them.
LEMMA AllWithinLimit ==
  ASSUME NEW S, NEW c, IsFiniteSet(S), NEW limit \in Nat, NEW R \in Limited(S \X {c}, limit),
         Cardinality(S) <= limit
  PROVE  R = S \X {c}
  <1> DEFINE F == [t \in S |-> <<t, c>>]
  <1>1. F \in Bijection(S, S \X {c})
    <2>1. F \in [S -> S \X {c}] /\ \A t \in S : F[t] = <<t, c>>
      OBVIOUS
    <2>2. \A t, u \in S : F[t] = F[u] => t = u
      BY <2>1
    <2>3. ASSUME NEW row \in S \X {c} PROVE \E t \in S : F[t] = row
      <3>1. row[1] \in S /\ row = <<row[1], c>>
        OBVIOUS
      <3>2. QED
        BY <2>1, <3>1
    <2> HIDE DEF F
    <2>4. QED
      BY <2>1, <2>2, <2>3 DEF Bijection, Injection, IsInjective, Surjection
  <1>2. IsFiniteSet(S \X {c}) /\ Cardinality(S \X {c}) = Cardinality(S)
    BY <1>1, FS_Bijection DEF ExistsBijection
  <1>3. Cardinality(S) \in Nat
    BY FS_CardinalityType
  <1>4. R \in SUBSET (S \X {c}) /\ Cardinality(R) = Cardinality(S \X {c})
    BY <1>2, <1>3 DEF Limited
  <1>5. QED
    BY <1>2, <1>4, FS_Subset

LEMMA InStepMeansFollowing ==
  ASSUME GraphStored, FollowInv
  PROVE  NeighborsFollowDatabase
  <1> SUFFICES ASSUME NEW c \in Concepts \ outdated, NEW s \in MemberCodes, NEW limit \in {1, 20}
               PROVE  LET shown  == member[c] \cap stockNode
                          others == IF s \in shown THEN shown \ {s} ELSE {}
                      IN  /\ \A A \in GetStockNeighbors(s, "concept", c, limit) :
                               A \subseteq others /\ (Cardinality(others) <= limit => A = others)
                          /\ <<"CONCEPT", c>> \in GetStockGraph(s).nodes <=> s \in shown
    BY DEF NeighborsFollowDatabase
  <1> DEFINE shown  == member[c] \cap stockNode
             others == IF s \in shown THEN shown \ {s} ELSE {}
  <1>1. inConcept[c] = shown
    BY DEF FollowInv, InStep
  <1>2. FindNeighbors(s, "concept", c) = others \X {c}
    BY <1>1 DEF FindNeighbors
  <1>3. IsFiniteSet(others)
    <2>1. others \subseteq MemberCodes
      BY DEF GraphStored
    <2>2. QED
      BY <2>1, GraphAssumption, FS_Subset
  <1>4. ASSUME NEW A \in GetStockNeighbors(s, "concept", c, limit)
        PROVE  A \subseteq others /\ (Cardinality(others) <= limit => A = others)
    <2>1. PICK R \in Limited(others \X {c}, limit) : A = {row[1] : row \in R}
      BY <1>2, <1>4 DEF GetStockNeighbors
    <2> HIDE DEF others
    <2>2. R \subseteq others \X {c}
      BY <2>1 DEF Limited
    <2>3. A \subseteq others
      BY <2>1, <2>2
    <2>4. ASSUME Cardinality(others) <= limit PROVE A = others
      <3>1. R = others \X {c}
        BY <1>3, <2>1, <2>4, AllWithinLimit
      <3>2. \A t \in others : <<t, c>> \in R /\ <<t, c>>[1] = t
        BY <3>1
      <3>3. QED
        BY <2>1, <2>3, <3>2
    <2>5. QED
      BY <2>3, <2>4
  <1>5. <<"CONCEPT", c>> \in GetStockGraph(s).nodes <=> s \in shown
    <2>1. <<"CONCEPT", c>> \in FindStockGraph(s).nodes <=> s \in inConcept[c]
      BY DEF FindStockGraph
    <2>2. QED
      BY <1>1, <2>1 DEF GetStockGraph
  <1>6. QED
    BY <1>4, <1>5

\* The stocks that a query names as sharing a concept are those that share it in
\* the database and have nodes, all of them or as many as the limit lets through,
\* for every concept that no commit, late node, failed record or clearing has
\* outdated: with any number of concept syncs and graph syncs overlapping,
\* failing and crashing.
THEOREM NeighborsAreOfDatabase == PipelineSpec => []NeighborsFollowDatabase
  <1>1. PipelineInit => PipelineIInv /\ FollowInv
    <2>1. PipelineInit => GraphStored /\ FollowInv
      BY DEF PipelineInit, ConceptInit, GraphInit, GraphStored, IdleGraphRun, FollowInv,
             NoMembersYet, InStep, ReadIsFresh
    <2>2. QED
      BY <2>1, PipelineInvInit DEF PipelineIInv
  <1>2. PipelineIInv /\ FollowInv /\ [PipelineNext]_pipelineVars => PipelineIInv' /\ FollowInv'
    <2>1. PipelineIInv /\ [PipelineNext]_pipelineVars => PipelineIInv'
      BY PipelineInvStep, GraphStoredStep DEF PipelineIInv
    <2>2. QED
      BY <2>1, FollowStep
  <1>3. PipelineIInv /\ FollowInv => NeighborsFollowDatabase
    BY InStepMeansFollowing DEF PipelineIInv
  <1>4. QED
    BY <1>1, <1>2, <1>3, PTL DEF PipelineSpec

-----------------------------------------------------------------------------
(* The market data *)

USE DEF Yesterday, Today, Days, Reasons, Sectors, SectorTypes

\* The table that a command writes, and the rows it holds.
StepTable(s) ==
  CASE s = "limit_up" -> limitUps
    [] s = "broken"   -> brokenBoards
    [] s = "previous" -> previousUps
    [] s = "dragon"   -> dragonTigers
    [] s = "flow"     -> sectorFlows

RowType(s) ==
  CASE s = "dragon" -> DragonRow
    [] s = "flow"   -> FlowRow
    [] OTHER        -> StockRow

StepTables == [s \in Steps |-> StepTable(s)]

LEMMA StepsAre == Steps = {"limit_up", "broken", "previous", "dragon", "flow"}
  <1>1. DOMAIN AllSteps = 1..5
    BY DEF AllSteps
  <1>2. Steps = {AllSteps[1], AllSteps[2], AllSteps[3], AllSteps[4], AllSteps[5]}
    BY <1>1 DEF Steps
  <1>3. QED
    BY <1>2 DEF AllSteps

LEMMA AllStepsSeq == AllSteps \in Seq(Steps) /\ AllSteps # <<>>
  BY StepsAre DEF AllSteps

-----------------------------------------------------------------------------
(* Rows, tables and what the provider answers. *)

\* Rows of a table that have the same key are the same.
LEMMA KeyIsRow ==
  /\ \A k, r \in StockRow : SameStock(k, r) <=> k = r
  /\ \A k, r \in DragonRow : SameListing(k, r) <=> k = r
  /\ \A k, r \in FlowRow : SameSector(k, r) <=> k = r
  <1>1. \A k, r \in StockRow : SameStock(k, r) <=> k = r
    BY DEF StockRow, SameStock
  <1>2. \A k, r \in DragonRow : SameListing(k, r) <=> k = r
    BY DEF DragonRow, SameListing, SameStock
  <1>3. \A k, r \in FlowRow : SameSector(k, r) <=> k = r
    BY DEF FlowRow, SameSector
  <1>4. QED
    BY <1>1, <1>2, <1>3

LEMMA StockRowsTyped ==
  ASSUME NEW raws \in SUBSET RawCodes, NEW day \in Days
  PROVE  \A row \in StockRows(raws, day) : row \in StockRow /\ row.day = day
  <1>1. SUFFICES ASSUME NEW row \in StockRows(raws, day)
                 PROVE  row \in StockRow /\ row.day = day
    OBVIOUS
  <1>2. PICK raw \in raws : row \in {[day |-> day, code |-> c] : c \in ThirdCode(raw)}
    BY <1>1 DEF StockRows
  <1>3. PICK c \in ThirdCode(raw) : row = [day |-> day, code |-> c]
    BY <1>2
  <1>4. c \in UNION {ThirdCode(x) : x \in RawCodes}
    OBVIOUS
  <1>5. QED
    BY <1>3, <1>4 DEF StockRow

\* Whatever the provider answers a command is of its table.
LEMMA AnswerTyped ==
  ASSUME NEW s \in Steps, NEW day \in Days, NEW answers \in BOOLEAN
  PROVE  \A row \in Answered(s, day, answers) : row \in RowType(s)
  <1>1. Standing("limit_up") \subseteq RawCodes /\ Standing("broken") \subseteq RawCodes
    BY DEF Standing
  <1>2. CASE s = "limit_up"
    BY <1>1, <1>2, StockRowsTyped DEF Answered, FetchLimitUpPool, RowType
  <1>3. CASE s = "broken"
    BY <1>1, <1>3, StockRowsTyped DEF Answered, FetchBrokenBoardPool, RowType
  <1>4. CASE s = "previous"
    BY <1>4, StockRowsTyped DEF Answered, FetchPreviousLimitUp, RowType
  <1>5. CASE s = "dragon"
    <2>1. SUFFICES ASSUME NEW row \in Answered(s, day, answers)
                   PROVE  row \in DragonRow
      BY <1>5 DEF RowType
    <2>2. PICK r \in StockRows(RawCodes, day), reason \in Reasons :
            row = [day |-> day, code |-> r.code, reason |-> reason]
      BY <1>5, <2>1 DEF Answered, FetchDragonTigerDetail
    <2>3. r.code \in UNION {ThirdCode(x) : x \in RawCodes}
      BY StockRowsTyped DEF StockRow
    <2>4. QED
      BY <2>2, <2>3 DEF DragonRow
  <1>6. CASE s = "flow"
    BY <1>6 DEF Answered, FetchSectorCapitalFlow, FlowRow, RowType
  <1>7. QED
    BY <1>2, <1>3, <1>4, <1>5, <1>6, StepsAre

-----------------------------------------------------------------------------
(* The invariant: of every step of a request, whether it was reached or not,  *)
(* either its failure is noted, or its rows are at hand and about to be       *)
(* saved, or what the provider had for it is in its table and counted.  What  *)
(* is in a table stays there under its key, whoever saves next.              *)

Fits(s, rows) == rows \subseteq RowType(s)

IsRun(run) ==
  /\ run \in [pc : {"idle", "fetch", "save", "done"}, todo : Seq(Steps), day : Days,
              batch : {run.batch}, aborted : {run.aborted}, counts : {run.counts},
              errors : SUBSET Steps, owed : {run.owed}]
  /\ run.counts \in [Steps -> {run.counts[s] : s \in Steps}]
  /\ run.owed \in [Steps -> {run.owed[s] : s \in Steps}]
  /\ run.pc \in {"fetch", "save"} => run.todo # <<>>
  /\ run.pc = "save" => run.batch = run.owed[Head(run.todo)]
  /\ \A s \in Steps : Fits(s, run.owed[s])

Settled(run, s, tables) ==
  run.counts[s] = Cardinality(run.owed[s]) /\ run.owed[s] \subseteq tables[s]

RunHolds(run, tables) ==
  \A s \in Steps :
    s \in run.errors \/ (run.pc = "save" /\ s = Head(run.todo)) \/ Settled(run, s, tables)

MarketInv ==
  /\ \A s \in Steps : Fits(s, StepTables[s])
  /\ DOMAIN marketRun = MarketRuns
  /\ marketRun \in [MarketRuns -> {marketRun[r] : r \in MarketRuns}]
  /\ \A r \in MarketRuns : IsRun(marketRun[r]) /\ RunHolds(marketRun[r], StepTables)

LEMMA HeadIsStep ==
  ASSUME NEW run, IsRun(run), run.todo # <<>>
  PROVE  Head(run.todo) \in Steps /\ Tail(run.todo) \in Seq(Steps)
         /\ (Len(run.todo) # 1 => Tail(run.todo) # <<>>)
  <1>1. run.todo \in Seq(Steps)
    BY DEF IsRun
  <1>2. Len(run.todo) \in Nat /\ Head(run.todo) \in Steps /\ Tail(run.todo) \in Seq(Steps)
        /\ Len(Tail(run.todo)) = Len(run.todo) - 1
    BY <1>1, HeadTailProperties, LenProperties
  <1>3. ASSUME Tail(run.todo) = <<>> PROVE Len(run.todo) = 1
    <2>1. Len(<<>>) = 0
      OBVIOUS
    <2>2. Len(Tail(run.todo)) = 0
      BY <1>3, <2>1
    <2>3. QED
      BY <1>2, <2>2
  <1>4. QED
    BY <1>2, <1>3

\* A step of a request is over: noted, or settled with this count.
LEMMA AfterStepHolds ==
  ASSUME NEW run, NEW tables, IsRun(run), run.todo # <<>>,
         \A s \in Steps : s = Head(run.todo) \/ s \in run.errors \/ Settled(run, s, tables),
         NEW errors \in SUBSET Steps, NEW n,
         \/ Head(run.todo) \in errors
         \/ n = Cardinality(run.owed[Head(run.todo)])
            /\ run.owed[Head(run.todo)] \subseteq tables[Head(run.todo)]
  PROVE  /\ IsRun(AfterStep(run, errors, n)) /\ RunHolds(AfterStep(run, errors, n), tables)
         /\ AfterStep(run, errors, n).pc # "save"
  <1> DEFINE next == AfterStep(run, errors, n)
             h == Head(run.todo)
  <1>1. h \in Steps /\ Tail(run.todo) \in Seq(Steps) /\ (Len(run.todo) # 1 => Tail(run.todo) # <<>>)
    BY HeadIsStep
  <1>2. /\ next.pc = IF Len(run.todo) = 1 THEN "done" ELSE "fetch"
        /\ next.todo = Tail(run.todo) /\ next.day = run.day /\ next.batch = {}
        /\ next.aborted = run.aborted /\ next.counts = [run.counts EXCEPT ![h] = n]
        /\ next.errors = run.errors \cup errors /\ next.owed = run.owed
    BY DEF IsRun, AfterStep
  <1>3. next \in [pc : {"fetch", "done"}, todo : Seq(Steps), day : Days, batch : {next.batch},
                  aborted : {next.aborted}, counts : {next.counts}, errors : SUBSET Steps,
                  owed : {next.owed}]
    BY <1>1, <1>2 DEF IsRun, AfterStep
  <1>4. /\ next.counts[h] = n /\ \A s \in Steps : s # h => next.counts[s] = run.counts[s]
        /\ next.counts \in [Steps -> {next.counts[s] : s \in Steps}]
    BY <1>1, <1>2 DEF IsRun
  <1> HIDE DEF next, h
  <1>5. IsRun(next) /\ next.pc # "save"
    <2>1. /\ next.owed \in [Steps -> {next.owed[s] : s \in Steps}]
          /\ next.pc # "save" /\ (next.pc = "fetch" => next.todo # <<>>)
          /\ \A s \in Steps : Fits(s, next.owed[s])
      BY <1>1, <1>2 DEF IsRun
    <2>2. QED
      BY <1>3, <1>4, <2>1 DEF IsRun
  <1>6. RunHolds(next, tables)
    <2>1. ASSUME NEW s \in Steps, s # h PROVE s \in next.errors \/ Settled(next, s, tables)
      BY <1>1, <1>2, <1>4, <2>1 DEF Settled, h
    <2>2. h \in next.errors \/ Settled(next, h, tables)
      BY <1>1, <1>2, <1>4 DEF Settled, h
    <2>3. QED
      BY <2>1, <2>2 DEF RunHolds
  <1>7. QED
    BY <1>5, <1>6 DEF next

\* What was owed stays covered by tables that keep what they cover.
LEMMA RunHoldsOn ==
  ASSUME NEW run, NEW before, NEW after, NEW s \in Steps, Settled(run, s, before),
         before[s] \subseteq after[s]
  PROVE  Settled(run, s, after)
  BY DEF Settled

\* A request that starts, or has not, owes nothing.
Fresh(pc, todo, day) ==
  [pc : {pc}, todo : {todo}, day : {day}, batch : {{}}, aborted : {FALSE},
   counts : {[s \in Steps |-> 0]}, errors : {{}}, owed : {[s \in Steps |-> {}]}]

LEMMA RequestIsFresh ==
  /\ NoRequest \in Fresh("idle", <<>>, Today)
  /\ \A todo, day :
       [NoRequest EXCEPT !.pc = "fetch", !.todo = todo, !.day = day] \in Fresh("fetch", todo, day)
  BY DEF Fresh, NoRequest

LEMMA FreshHolds ==
  ASSUME NEW pc \in {"idle", "fetch"}, NEW todo \in Seq(Steps), pc = "fetch" => todo # <<>>,
         NEW day \in Days, NEW tables, NEW run \in Fresh(pc, todo, day)
  PROVE  IsRun(run) /\ RunHolds(run, tables)
  <1>1. /\ run.counts = [s \in Steps |-> 0] /\ run.owed = [s \in Steps |-> {}]
        /\ run.errors = {} /\ run.pc = pc /\ run.todo = todo
    BY DEF Fresh
  <1>2. run \in [pc : {"idle", "fetch", "save", "done"}, todo : Seq(Steps), day : Days,
                 batch : {run.batch}, aborted : {run.aborted}, counts : {run.counts},
                 errors : SUBSET Steps, owed : {run.owed}]
    BY DEF Fresh
  <1>3. \A s \in Steps : run.counts[s] = 0 /\ run.owed[s] = {} /\ Cardinality({}) = 0
    BY <1>1, FS_EmptySet
  <1>4. /\ run.counts \in [Steps -> {run.counts[s] : s \in Steps}]
        /\ run.owed \in [Steps -> {run.owed[s] : s \in Steps}]
    BY <1>1
  <1>5. IsRun(run)
    BY <1>1, <1>2, <1>3, <1>4 DEF IsRun, Fits
  <1>6. RunHolds(run, tables)
    BY <1>3 DEF RunHolds, Settled
  <1>7. QED
    BY <1>5, <1>6

LEMMA MarketInvInit == MarketInit => MarketInv
  <1> SUFFICES ASSUME MarketInit PROVE MarketInv
    OBVIOUS
  <1>1. \A s \in Steps : Fits(s, StepTables[s])
    <2>1. \A s \in Steps : StepTables[s] = {}
      BY StepsAre DEF StepTables, StepTable, MarketInit
    <2>2. QED
      BY <2>1 DEF Fits
  <1>2. IsRun(NoRequest) /\ RunHolds(NoRequest, StepTables)
    <2>1. <<>> \in Seq(Steps)
      OBVIOUS
    <2>2. QED
      BY <2>1, RequestIsFresh, FreshHolds
  <1>3. QED
    BY <1>1, <1>2 DEF MarketInv, MarketInit

\* A step of one request: the other requests keep what the tables keep.
LEMMA RunStepHolds ==
  ASSUME MarketInv, NEW r \in MarketRuns, NEW run, marketRun' = [marketRun EXCEPT ![r] = run],
         IsRun(run), RunHolds(run, StepTables'),
         \A s \in Steps : Fits(s, StepTables'[s]),
         \A s \in Steps : StepTables[s] \subseteq StepTables'[s]
  PROVE  MarketInv'
  <1>1. /\ marketRun'[r] = run /\ DOMAIN marketRun' = MarketRuns
        /\ \A q \in MarketRuns : q # r => marketRun'[q] = marketRun[q]
        /\ marketRun' \in [MarketRuns -> {marketRun'[q] : q \in MarketRuns}]
    BY DEF MarketInv
  <1>2. ASSUME NEW q \in MarketRuns, q # r
        PROVE  IsRun(marketRun[q]) /\ RunHolds(marketRun[q], StepTables')
    <2>1. IsRun(marketRun[q]) /\ RunHolds(marketRun[q], StepTables)
      BY DEF MarketInv
    <2>2. ASSUME NEW s \in Steps, Settled(marketRun[q], s, StepTables)
          PROVE  Settled(marketRun[q], s, StepTables')
      BY <2>2, RunHoldsOn
    <2>3. QED
      BY <2>1, <2>2 DEF RunHolds
  <1>3. \A q \in MarketRuns : IsRun(marketRun'[q]) /\ RunHolds(marketRun'[q], StepTables')
    BY <1>1, <1>2
  <1>4. QED
    BY <1>1, <1>3 DEF MarketInv

LEMMA SameTables ==
  ASSUME UNCHANGED marketTables
  PROVE  StepTables' = StepTables
  BY DEF marketTables, StepTables, StepTable

\* What a request does when it has the answer, or not.
Asked(r, rows) == [marketRun[r] EXCEPT !.owed[Current(r)] = rows]

LEMMA AskedHolds ==
  ASSUME MarketInv, NEW r \in MarketRuns, marketRun[r].pc = "fetch",
         NEW rows, Fits(Current(r), rows)
  PROVE  /\ IsRun(Asked(r, rows)) /\ Asked(r, rows).todo = marketRun[r].todo
         /\ Asked(r, rows).owed[Current(r)] = rows /\ Asked(r, rows).pc = "fetch"
         /\ \A s \in Steps : \/ s = Current(r) \/ s \in Asked(r, rows).errors
                              \/ Settled(Asked(r, rows), s, StepTables)
  <1> DEFINE run == marketRun[r]
             h == Head(run.todo)
             asked == Asked(r, rows)
  <1>1. IsRun(run) /\ RunHolds(run, StepTables) /\ run.todo # <<>>
    BY DEF MarketInv, IsRun
  <1>2. h \in Steps /\ Current(r) = h
    BY <1>1, HeadIsStep DEF Current
  <1>3. /\ asked.pc = run.pc /\ asked.todo = run.todo /\ asked.day = run.day
        /\ asked.counts = run.counts /\ asked.errors = run.errors
        /\ asked.owed = [run.owed EXCEPT ![h] = rows] /\ asked.batch = run.batch
        /\ asked.aborted = run.aborted
        /\ asked \in [pc : {"idle", "fetch", "save", "done"}, todo : Seq(Steps), day : Days,
                      batch : {run.batch}, aborted : {run.aborted}, counts : {run.counts},
                      errors : SUBSET Steps, owed : {[run.owed EXCEPT ![h] = rows]}]
    BY <1>1, <1>2 DEF IsRun, Asked
  <1> HIDE DEF run, h, asked
  <1>4. /\ asked.owed[h] = rows /\ \A s \in Steps : s # h => asked.owed[s] = run.owed[s]
        /\ asked.owed \in [Steps -> {asked.owed[s] : s \in Steps}]
    BY <1>1, <1>2, <1>3 DEF IsRun
  <1>5. \A s \in Steps : Fits(s, asked.owed[s])
    BY <1>1, <1>2, <1>4 DEF IsRun
  <1>6. IsRun(asked)
    <2>1. run.pc = "fetch" /\ run.counts \in [Steps -> {run.counts[s] : s \in Steps}]
      BY <1>1 DEF IsRun, run
    <2>2. asked \in [pc : {"idle", "fetch", "save", "done"}, todo : Seq(Steps), day : Days,
                     batch : {asked.batch}, aborted : {asked.aborted}, counts : {asked.counts},
                     errors : SUBSET Steps, owed : {asked.owed}]
      BY <1>3
    <2>3. asked.counts \in [Steps -> {asked.counts[s] : s \in Steps}]
      BY <1>3, <2>1
    <2>4. QED
      BY <1>1, <1>3, <1>4, <1>5, <2>1, <2>2, <2>3 DEF IsRun
  <1>7. \A s \in Steps : s = h \/ s \in asked.errors \/ Settled(asked, s, StepTables)
    BY <1>1, <1>3, <1>4 DEF RunHolds, Settled, run
  <1>8. QED
    BY <1>1, <1>2, <1>3, <1>4, <1>6, <1>7 DEF run, asked

LEMMA TablesStay ==
  ASSUME MarketInv, UNCHANGED marketTables
  PROVE  /\ \A s \in Steps : Fits(s, StepTables'[s])
         /\ \A s \in Steps : StepTables[s] \subseteq StepTables'[s]
         /\ StepTables' = StepTables
  BY SameTables DEF MarketInv

LEMMA FetchKeeps ==
  ASSUME MarketInv, NEW r \in MarketRuns, NEW answers \in BOOLEAN,
         FetchStep(r, answers) \/ FetchStepFails(r)
  PROVE  MarketInv'
  <1> DEFINE run == marketRun[r]
             h == Current(r)
  <1>1. run.pc = "fetch" /\ UNCHANGED marketTables /\ IsRun(run) /\ run.todo # <<>>
    BY DEF FetchStep, FetchStepFails, MarketInv, IsRun
  <1>2. h \in Steps /\ run.day \in Days /\ h = Head(run.todo)
    BY <1>1, HeadIsStep DEF IsRun, Current
  <1>3. CASE FetchStep(r, answers)
    <2> DEFINE rows == Answered(h, run.day, answers)
               asked == Asked(r, rows)
               next == IF rows = {} THEN AfterStep(asked, {}, 0)
                       ELSE [asked EXCEPT !.pc = "save", !.batch = rows]
    <2>1. marketRun' = [marketRun EXCEPT ![r] = next]
      BY <1>3 DEF FetchStep, Asked
    <2>2. Fits(h, rows)
      BY <1>2, AnswerTyped DEF Fits
    <2>3. /\ IsRun(asked) /\ asked.todo = run.todo
          /\ asked.owed[h] = rows /\ asked.pc = "fetch"
          /\ \A s \in Steps : s = h \/ s \in asked.errors \/ Settled(asked, s, StepTables)
      BY <1>1, <2>2, AskedHolds
    <2> HIDE DEF asked, rows, h
    <2>4. CASE rows = {}
      <3>1. 0 = Cardinality(rows) /\ rows \subseteq StepTables[h]
        BY <2>4, FS_EmptySet
      <3>2. asked.todo # <<>> /\ Head(asked.todo) = h /\ {} \in SUBSET Steps
        BY <1>1, <1>2, <2>3
      <3>3. IsRun(AfterStep(asked, {}, 0)) /\ RunHolds(AfterStep(asked, {}, 0), StepTables)
        BY <2>3, <3>1, <3>2, AfterStepHolds
      <3>4. IsRun(next) /\ RunHolds(next, StepTables)
        BY <2>4, <3>3
      <3> HIDE DEF next
      <3>5. QED
        BY <1>1, <2>1, <3>4, RunStepHolds, TablesStay
    <2>5. CASE rows # {}
      <3> DEFINE saving == [asked EXCEPT !.pc = "save", !.batch = rows]
      <3>1. /\ saving.pc = "save" /\ saving.batch = rows /\ saving.todo = asked.todo
            /\ saving.owed = asked.owed /\ saving.counts = asked.counts
            /\ saving.errors = asked.errors
            /\ saving \in [pc : {"idle", "fetch", "save", "done"}, todo : Seq(Steps),
                          day : Days, batch : {rows}, aborted : {asked.aborted},
                          counts : {asked.counts}, errors : SUBSET Steps, owed : {asked.owed}]
        BY <2>3 DEF IsRun
      <3>2. saving.aborted = asked.aborted
        BY <3>1
      <3> HIDE DEF saving
      <3>3. IsRun(saving)
        BY <1>2, <2>3, <3>1, <3>2 DEF IsRun
      <3>4. RunHolds(saving, StepTables)
        BY <1>2, <2>3, <3>1 DEF RunHolds, Settled
      <3>5. next = saving
        BY <2>5 DEF saving
      <3> HIDE DEF next
      <3>6. QED
        BY <1>1, <2>1, <3>3, <3>4, <3>5, RunStepHolds, TablesStay
    <2>6. QED
      BY <2>4, <2>5
  <1>4. CASE FetchStepFails(r)
    <2> DEFINE rows == Answered(h, run.day, TRUE)
               asked == Asked(r, rows)
               next == AfterStep(asked, {h}, 0)
    <2>1. marketRun' = [marketRun EXCEPT ![r] = next]
      BY <1>4 DEF FetchStepFails, Asked
    <2>2. Fits(h, rows)
      BY <1>2, AnswerTyped DEF Fits
    <2>3. /\ IsRun(asked) /\ asked.todo = run.todo
          /\ \A s \in Steps : s = h \/ s \in asked.errors \/ Settled(asked, s, StepTables)
      BY <1>1, <2>2, AskedHolds
    <2> HIDE DEF asked, rows, h
    <2>4. asked.todo # <<>> /\ Head(asked.todo) = h /\ {h} \in SUBSET Steps /\ h \in {h}
      BY <1>1, <1>2, <2>3
    <2>5. IsRun(next) /\ RunHolds(next, StepTables)
      BY <2>3, <2>4, AfterStepHolds
    <2> HIDE DEF next
    <2>6. QED
      BY <1>1, <2>1, <2>5, RunStepHolds, TablesStay
  <1>5. QED
    BY <1>3, <1>4

LEMMA RequestKeeps ==
  ASSUME MarketInv, NEW r \in MarketRuns, NEW steps \in Seq(Steps), steps # <<>>,
         NEW day \in Days, Requested(r, steps, day)
  PROVE  MarketInv'
  <1> DEFINE run == [NoRequest EXCEPT !.pc = "fetch", !.todo = steps, !.day = day]
  <1>1. marketRun' = [marketRun EXCEPT ![r] = run] /\ UNCHANGED marketTables
    BY DEF Requested
  <1>2. run \in Fresh("fetch", steps, day)
    BY RequestIsFresh
  <1> HIDE DEF run
  <1>3. IsRun(run) /\ RunHolds(run, StepTables)
    BY <1>2, FreshHolds
  <1>4. QED
    BY <1>1, <1>3, RunStepHolds, TablesStay

LEMMA SaveStepFailsKeeps ==
  ASSUME MarketInv, NEW r \in MarketRuns, SaveStepFails(r)
  PROVE  MarketInv'
  <1> DEFINE run == marketRun[r]
             h == Current(r)
             over == AfterStep(run, {h}, 0)
             next == [over EXCEPT !.aborted = TRUE]
  <1>1. marketRun' = [marketRun EXCEPT ![r] = next] /\ UNCHANGED marketTables /\ run.pc = "save"
    BY DEF SaveStepFails, Noted
  <1>2. IsRun(run) /\ RunHolds(run, StepTables) /\ run.todo # <<>> /\ h = Head(run.todo)
    BY <1>1 DEF MarketInv, IsRun, Current
  <1>3. /\ \A s \in Steps : s = Head(run.todo) \/ s \in run.errors \/ Settled(run, s, StepTables)
        /\ {h} \in SUBSET Steps /\ Head(run.todo) \in {h}
    BY <1>2, HeadIsStep DEF RunHolds
  <1>4. IsRun(over) /\ RunHolds(over, StepTables) /\ over.pc # "save"
    BY <1>2, <1>3, AfterStepHolds
  <1> HIDE DEF over, h, run
  <1>5. /\ next.pc = over.pc /\ next.todo = over.todo /\ next.counts = over.counts
        /\ next.errors = over.errors /\ next.owed = over.owed
        /\ next \in [pc : {"idle", "fetch", "save", "done"}, todo : Seq(Steps), day : Days,
                     batch : {over.batch}, aborted : {TRUE}, counts : {over.counts},
                     errors : SUBSET Steps, owed : {over.owed}]
    BY <1>4 DEF IsRun
  <1>6. next.batch = over.batch /\ next.aborted = TRUE
    BY <1>5
  <1> HIDE DEF next
  <1>7. IsRun(next) /\ RunHolds(next, StepTables)
    BY <1>4, <1>5, <1>6 DEF IsRun, RunHolds, Settled
  <1>8. QED
    BY <1>1, <1>7, RunStepHolds, TablesStay DEF next

\* One statement: the table of the step has its rows, and loses none of a key.
LEMMA SaveUpserts ==
  ASSUME MarketInv, NEW r \in MarketRuns, SaveStep(r)
  PROVE  LET h == Current(r)
             rows == marketRun[r].batch
         IN  /\ h \in Steps /\ Fits(h, rows) /\ rows = marketRun[r].owed[h]
             /\ \A s \in Steps \ {h} : StepTables'[s] = StepTables[s]
             /\ StepTables'[h] \subseteq StepTables[h] \cup rows
             /\ rows \subseteq StepTables'[h]
             /\ StepTables[h] \subseteq StepTables'[h]
  <1> DEFINE h == Current(r)
             rows == marketRun[r].batch
  <1>1. IsRun(marketRun[r]) /\ marketRun[r].pc = "save" /\ marketRun[r].todo # <<>>
    BY DEF SaveStep, MarketInv, IsRun
  <1>2. h \in Steps /\ Fits(h, rows) /\ rows = marketRun[r].owed[h]
    BY <1>1, HeadIsStep DEF IsRun, Current
  <1>3. rows \in SUBSET RowType(h) /\ StepTables[h] \in SUBSET RowType(h)
    BY <1>2 DEF MarketInv, Fits
  <1>4. \/ h = "limit_up" /\ SaveLimitUps(rows)
        \/ h = "broken" /\ SaveBrokenBoards(rows)
        \/ h = "previous" /\ SavePreviousUps(rows)
        \/ h = "dragon" /\ SaveDragonTigers(rows)
        \/ h = "flow" /\ SaveSectorFlows(rows)
    BY DEF SaveStep
  <1> HIDE DEF h, rows
  <1>6. /\ \A s \in Steps \ {h} : StepTables'[s] = StepTables[s]
        /\ StepTables'[h] =
             {old \in StepTables[h] : \A new \in rows : old # new} \cup rows
    <2>1. CASE h = "limit_up" /\ SaveLimitUps(rows)
      BY <2>1, <1>3, StepsAre, KeyIsRow
      DEF SaveLimitUps, StepTables, StepTable, RowType, Upserted
    <2>2. CASE h = "broken" /\ SaveBrokenBoards(rows)
      BY <2>2, <1>3, StepsAre, KeyIsRow
      DEF SaveBrokenBoards, StepTables, StepTable, RowType, Upserted
    <2>3. CASE h = "previous" /\ SavePreviousUps(rows)
      BY <2>3, <1>3, StepsAre, KeyIsRow
      DEF SavePreviousUps, StepTables, StepTable, RowType, Upserted
    <2>4. CASE h = "dragon" /\ SaveDragonTigers(rows)
      BY <2>4, <1>3, StepsAre, KeyIsRow
      DEF SaveDragonTigers, StepTables, StepTable, RowType, Upserted
    <2>5. CASE h = "flow" /\ SaveSectorFlows(rows)
      BY <2>5, <1>3, StepsAre, KeyIsRow
      DEF SaveSectorFlows, StepTables, StepTable, RowType, Upserted
    <2>6. QED
      BY <1>4, <2>1, <2>2, <2>3, <2>4, <2>5
  <1>7. /\ StepTables'[h] \subseteq StepTables[h] \cup rows /\ rows \subseteq StepTables'[h]
        /\ StepTables[h] \subseteq StepTables'[h]
    BY <1>6
  <1>8. QED
    BY <1>2, <1>6, <1>7 DEF h, rows

LEMMA SaveStepKeeps ==
  ASSUME MarketInv, NEW r \in MarketRuns, SaveStep(r)
  PROVE  MarketInv'
  <1> DEFINE run == marketRun[r]
             h == Current(r)
             next == AfterStep(run, {}, Cardinality(run.batch))
  <1>1. marketRun' = [marketRun EXCEPT ![r] = next] /\ run.pc = "save"
    BY DEF SaveStep
  <1>2. IsRun(run) /\ RunHolds(run, StepTables) /\ run.todo # <<>> /\ h = Head(run.todo)
    BY <1>1 DEF MarketInv, IsRun, Current
  <1>3. /\ h \in Steps /\ Fits(h, run.batch) /\ run.batch = run.owed[h]
        /\ \A s \in Steps \ {h} : StepTables'[s] = StepTables[s]
        /\ StepTables'[h] \subseteq StepTables[h] \cup run.batch
        /\ run.batch \subseteq StepTables'[h]
        /\ StepTables[h] \subseteq StepTables'[h]
    BY SaveUpserts
  <1> HIDE DEF h, run
  <1>4. \A s \in Steps : StepTables[s] \subseteq StepTables'[s]
    BY <1>3
  <1>5. \A s \in Steps : Fits(s, StepTables'[s])
    BY <1>3 DEF MarketInv, Fits
  <1>6. \A s \in Steps : s = Head(run.todo) \/ s \in run.errors \/ Settled(run, s, StepTables')
    <2>1. ASSUME NEW s \in Steps, Settled(run, s, StepTables)
          PROVE  Settled(run, s, StepTables')
      BY <1>4, <2>1, RunHoldsOn
    <2>2. QED
      BY <1>1, <1>2, <2>1 DEF RunHolds
  <1>7. run.owed[h] \subseteq StepTables'[h]
    BY <1>3
  <1>8. IsRun(next) /\ RunHolds(next, StepTables')
    <2>1. {} \in SUBSET Steps /\ Cardinality(run.batch) = Cardinality(run.owed[h])
      BY <1>3
    <2>2. QED
      BY <1>2, <1>6, <1>7, <2>1, AfterStepHolds
  <1> HIDE DEF next
  <1>9. QED
    BY <1>1, <1>4, <1>5, <1>8, RunStepHolds DEF run

LEMMA MarketInvNext == MarketInv /\ [MarketNext]_marketVars => MarketInv'
  <1> SUFFICES ASSUME MarketInv, [MarketNext]_marketVars PROVE MarketInv'
    OBVIOUS
  <1>1. ASSUME NEW raw \in RawCodes, MoveBoard(raw) PROVE MarketInv'
    BY <1>1, TablesStay DEF MoveBoard, MarketInv
  <1>2. ASSUME NEW r \in MarketRuns, NEW day \in Days, SyncMarketData(r, day) PROVE MarketInv'
    BY <1>2, AllStepsSeq, RequestKeeps DEF SyncMarketData
  <1>3. ASSUME NEW r \in MarketRuns, NEW day \in Days, NEW step \in Steps, SyncOneStep(r, day, step)
        PROVE  MarketInv'
    <2>1. <<step>> \in Seq(Steps) /\ <<step>> # <<>>
      OBVIOUS
    <2>2. QED
      BY <1>3, <2>1, RequestKeeps DEF SyncOneStep
  <1>4. ASSUME NEW r \in MarketRuns, NEW answers \in BOOLEAN,
               FetchStep(r, answers) \/ FetchStepFails(r)
        PROVE  MarketInv'
    BY <1>4, FetchKeeps
  <1>5. ASSUME NEW r \in MarketRuns, SaveStep(r) PROVE MarketInv'
    BY <1>5, SaveStepKeeps
  <1>6. ASSUME NEW r \in MarketRuns, SaveStepFails(r) PROVE MarketInv'
    BY <1>6, SaveStepFailsKeeps
  <1>7. ASSUME UNCHANGED marketVars PROVE MarketInv'
    BY <1>7, TablesStay DEF marketVars, MarketInv
  <1>8. QED
    BY <1>1, <1>2, <1>3, <1>4, <1>5, <1>6, <1>7 DEF MarketNext

-----------------------------------------------------------------------------
(* The theorems. *)

\* The rows that a query by date finds are the ones of the table with the date.
LEMMA RowsOnAre ==
  ASSUME MarketInv, NEW s \in Steps, NEW day \in Days
  PROVE  RowsOn(s, day) = {row \in StepTables[s] : row.day = day}
  <1>1. StepTables[s] = StepTable(s)
    BY DEF StepTables
  <1>2. CASE s = "flow"
    <2>1. \A row \in sectorFlows : row.type \in SectorTypes
      BY <1>1, <1>2 DEF MarketInv, Fits, StepTable, RowType, FlowRow
    <2>2. QED
      BY <1>1, <1>2, <2>1 DEF RowsOn, SectorFlowsOn, StepTable
  <1>3. CASE s # "flow"
    BY <1>1, <1>3, StepsAre DEF RowsOn, LimitUpsOn, BrokenBoardsOn, PreviousUpsOn,
       DragonTigersOn, StepTable
  <1>4. QED
    BY <1>2, <1>3

LEMMA InvImpliesStored == MarketInv => UnreportedIsStored
  <1> SUFFICES ASSUME MarketInv, NEW r \in MarketRuns, marketRun[r].pc = "done",
                      NEW s \in Steps \ marketRun[r].errors
               PROVE  /\ marketRun[r].counts[s] = Cardinality(marketRun[r].owed[s])
                      /\ \A row \in marketRun[r].owed[s] : row \in RowsOn(s, row.day)
    BY DEF UnreportedIsStored
  <1> DEFINE run == marketRun[r]
  <1>1. IsRun(run) /\ Settled(run, s, StepTables)
    BY DEF MarketInv, RunHolds
  <1>2. ASSUME NEW row \in run.owed[s] PROVE row \in RowsOn(s, row.day)
    <2>1. row \in RowType(s)
      BY <1>1 DEF IsRun, Fits
    <2>2. row.day \in Days
      BY <2>1, StepsAre DEF RowType, StockRow, DragonRow, FlowRow
    <2>3. row \in StepTables[s]
      BY <1>1 DEF Settled
    <2>4. QED
      BY <2>2, <2>3, RowsOnAre
  <1>3. QED
    BY <1>1, <1>2 DEF Settled

LEMMA AlwaysMarketInv == MarketSpec => []MarketInv
  BY MarketInvInit, MarketInvNext, PTL DEF MarketSpec

\* What the answer of a request does not report as failed is stored and counted:
\* also when a statement of an earlier step has aborted the session, and when
\* another request has written the same rows since.
THEOREM WhatIsNotReportedIsStored == MarketSpec => []UnreportedIsStored
  BY AlwaysMarketInv, InvImpliesStored, PTL

-----------------------------------------------------------------------------
(* The types of the market data.  A count is a number because what a provider  *)
(* answers is finite: few leading digits are those of an exchange.            *)

LEMMA FewAreFinite ==
  ASSUME NEW a, NEW b, NEW c, NEW d, NEW e, NEW f, NEW g
  PROVE  IsFiniteSet({a, b, c, d, e, f, g})
  <1>1. IsFiniteSet({})
    BY FS_EmptySet
  <1>2. IsFiniteSet({} \cup {a})
    BY <1>1, FS_AddElement
  <1>3. IsFiniteSet(({} \cup {a}) \cup {b})
    BY <1>2, FS_AddElement
  <1>4. IsFiniteSet((({} \cup {a}) \cup {b}) \cup {c})
    BY <1>3, FS_AddElement
  <1>5. IsFiniteSet(((({} \cup {a}) \cup {b}) \cup {c}) \cup {d})
    BY <1>4, FS_AddElement
  <1>6. IsFiniteSet((((({} \cup {a}) \cup {b}) \cup {c}) \cup {d}) \cup {e})
    BY <1>5, FS_AddElement
  <1>7. IsFiniteSet(((((({} \cup {a}) \cup {b}) \cup {c}) \cup {d}) \cup {e}) \cup {f})
    BY <1>6, FS_AddElement
  <1>8. IsFiniteSet((((((({} \cup {a}) \cup {b}) \cup {c}) \cup {d}) \cup {e}) \cup {f}) \cup {g})
    BY <1>7, FS_AddElement
  <1>9. {a, b, c, d, e, f, g} =
          ((((((({} \cup {a}) \cup {b}) \cup {c}) \cup {d}) \cup {e}) \cup {f}) \cup {g})
    OBVIOUS
  <1>10. QED
    BY <1>8, <1>9

LEMMA StockRowsFinite ==
  ASSUME NEW raws, NEW day
  PROVE  IsFiniteSet(StockRows(raws, day))
  <1> DEFINE At(raw, exchange) == [day |-> day, code |-> <<raw, exchange>>]
             all == {At("68", "SH"), At("60", "SH"), At("00", "SZ"), At("30", "SZ"),
                     At("43", "BJ"), At("83", "BJ"), At("92", "BJ")}
  <1>1. \A raw : \A c \in ThirdCode(raw) : [day |-> day, code |-> c] \in all
    BY DEF ThirdCode
  <1>2. StockRows(raws, day) \subseteq all
    BY <1>1 DEF StockRows
  <1>3. IsFiniteSet(all)
    BY FewAreFinite
  <1> HIDE DEF all
  <1>4. QED
    BY <1>2, <1>3, FS_Subset

LEMMA AnswerFinite ==
  ASSUME NEW s \in Steps, NEW day, NEW answers
  PROVE  IsFiniteSet(Answered(s, day, answers))
  <1>1. CASE s = "limit_up"
    BY <1>1, StockRowsFinite DEF Answered, FetchLimitUpPool
  <1>2. CASE s = "broken"
    BY <1>2, StockRowsFinite DEF Answered, FetchBrokenBoardPool
  <1>3. CASE s = "previous"
    BY <1>3, StockRowsFinite DEF Answered, FetchPreviousLimitUp
  <1>4. CASE s = "dragon"
    <2> DEFINE Row(c, reason) == [day |-> day, code |-> c, reason |-> reason]
               For(reason) == {Row(<<"68", "SH">>, reason), Row(<<"60", "SH">>, reason),
                               Row(<<"00", "SZ">>, reason), Row(<<"30", "SZ">>, reason),
                               Row(<<"43", "BJ">>, reason), Row(<<"83", "BJ">>, reason),
                               Row(<<"92", "BJ">>, reason)}
               all == For("rise") \cup For("turnover")
    <2>1. ASSUME NEW r \in StockRows(RawCodes, day), NEW reason \in Reasons
          PROVE  Row(r.code, reason) \in all
      <3>1. PICK raw \in RawCodes :
              \E c \in ThirdCode(raw) : r = [day |-> day, code |-> c]
        BY DEF StockRows
      <3>4. PICK c \in ThirdCode(raw) : r = [day |-> day, code |-> c]
        BY <3>1
      <3>2. r.code = c
        BY <3>4
      <3>3. QED
        BY <3>2 DEF ThirdCode
    <2>2. Answered(s, day, answers) \subseteq all
      <3> SUFFICES ASSUME NEW row \in Answered(s, day, answers) PROVE row \in all
        OBVIOUS
      <3>1. PICK r \in StockRows(RawCodes, day), reason \in Reasons : row = Row(r.code, reason)
        BY <1>4 DEF Answered, FetchDragonTigerDetail
      <3> HIDE DEF all, Row
      <3>2. QED
        BY <2>1, <3>1
    <2>3. IsFiniteSet(For("rise")) /\ IsFiniteSet(For("turnover"))
      BY FewAreFinite
    <2> HIDE DEF For
    <2>4. IsFiniteSet(all)
      BY <2>3, FS_Union
    <2> HIDE DEF all
    <2>5. QED
      BY <2>2, <2>4, FS_Subset
  <1>5. CASE s = "flow"
    <2>1. Answered(s, day, answers) =
            {[day |-> day, sector |-> "sector", type |-> "concept"]}
      BY <1>5 DEF Answered, FetchSectorCapitalFlow
    <2>2. QED
      BY <2>1, FS_Singleton
  <1>6. QED
    BY <1>1, <1>2, <1>3, <1>4, <1>5, StepsAre

RunTyped(run) ==
  /\ run.batch \subseteq AnyRow /\ run.aborted \in BOOLEAN
  /\ run.counts \in [Steps -> Nat]
  /\ \A s \in Steps : IsFiniteSet(run.owed[s])

MarketTyped ==
  /\ board \in [RawCodes -> {"limit_up", "broken"}] /\ calendarText \in BOOLEAN
  /\ \A r \in MarketRuns : RunTyped(marketRun[r])

LEMMA AfterStepTyped ==
  ASSUME NEW run, IsRun(run), run.todo # <<>>, RunTyped(run), NEW errors, NEW n \in Nat
  PROVE  RunTyped(AfterStep(run, errors, n))
  <1> DEFINE next == AfterStep(run, errors, n)
  <1>1. /\ next.batch = {} /\ next.aborted = run.aborted /\ next.owed = run.owed
        /\ next.counts = [run.counts EXCEPT ![Head(run.todo)] = n]
    BY DEF IsRun, AfterStep
  <1>2. QED
    BY <1>1 DEF RunTyped

LEMMA AskedTyped ==
  ASSUME MarketInv, MarketTyped, NEW r \in MarketRuns, marketRun[r].pc = "fetch",
         NEW rows, Fits(Current(r), rows), IsFiniteSet(rows)
  PROVE  /\ IsRun(Asked(r, rows)) /\ Asked(r, rows).todo # <<>> /\ RunTyped(Asked(r, rows))
         /\ rows \subseteq AnyRow
  <1> DEFINE run == marketRun[r]
             asked == Asked(r, rows)
  <1>1. IsRun(run) /\ run.todo # <<>> /\ RunTyped(run)
    BY DEF MarketInv, MarketTyped, IsRun
  <1>2. IsRun(asked) /\ asked.todo = run.todo
    BY AskedHolds
  <1>3. /\ asked.batch = run.batch /\ asked.aborted = run.aborted /\ asked.counts = run.counts
        /\ asked.owed = [run.owed EXCEPT ![Current(r)] = rows]
    BY <1>1 DEF IsRun, Asked
  <1>4. run.owed \in [Steps -> {run.owed[s] : s \in Steps}]
    BY <1>1 DEF IsRun
  <1> HIDE DEF run, asked
  <1>5. RunTyped(asked)
    BY <1>1, <1>3, <1>4 DEF RunTyped
  <1>6. rows \subseteq AnyRow
    BY DEF Fits, RowType, AnyRow
  <1>7. QED
    BY <1>1, <1>2, <1>5, <1>6 DEF asked

\* One request moves.
LEMMA OneRequestTyped ==
  ASSUME MarketInv, MarketTyped, UNCHANGED <<board, calendarText>>, NEW r \in MarketRuns,
         NEW run, RunTyped(run), marketRun' = [marketRun EXCEPT ![r] = run]
  PROVE  MarketTyped'
  <1>1. /\ marketRun'[r] = run
        /\ \A q \in MarketRuns : q # r => marketRun'[q] = marketRun[q]
    BY DEF MarketInv
  <1>2. ASSUME NEW q \in MarketRuns PROVE RunTyped(marketRun'[q])
    BY <1>1 DEF MarketTyped
  <1>3. QED
    BY <1>2 DEF MarketTyped, RunTyped

LEMMA FetchTyped ==
  ASSUME MarketInv, MarketTyped, NEW r \in MarketRuns, NEW answers \in BOOLEAN,
         FetchStep(r, answers) \/ FetchStepFails(r)
  PROVE  MarketTyped'
  <1>1. /\ marketRun[r].pc = "fetch" /\ IsRun(marketRun[r]) /\ marketRun[r].todo # <<>>
        /\ UNCHANGED <<board, calendarText>>
    BY DEF FetchStep, FetchStepFails, MarketInv, IsRun, marketProvider
  <1>2. Current(r) \in Steps /\ marketRun[r].day \in Days
    BY <1>1, HeadIsStep DEF IsRun, Current
  <1>3. PICK answered \in BOOLEAN :
          LET rows == Answered(Current(r), marketRun[r].day, answered)
              asked == Asked(r, rows)
          IN  \/ marketRun' = [marketRun EXCEPT ![r] = AfterStep(asked, {}, 0)]
              \/ marketRun' = [marketRun EXCEPT ![r] = [asked EXCEPT !.pc = "save", !.batch = rows]]
              \/ marketRun' = [marketRun EXCEPT ![r] = AfterStep(asked, {Current(r)}, 0)]
    <2>1. CASE FetchStep(r, answers)
      BY <2>1 DEF FetchStep, Asked
    <2>2. CASE FetchStepFails(r)
      BY <2>2 DEF FetchStepFails, Asked
    <2>3. QED
      BY <2>1, <2>2
  <1> DEFINE rows == Answered(Current(r), marketRun[r].day, answered)
             asked == Asked(r, rows)
             saving == [asked EXCEPT !.pc = "save", !.batch = rows]
  <1>4. Fits(Current(r), rows) /\ IsFiniteSet(rows)
    BY <1>2, AnswerTyped, AnswerFinite DEF Fits
  <1> HIDE DEF rows
  <1>5. IsRun(asked) /\ asked.todo # <<>> /\ RunTyped(asked) /\ rows \subseteq AnyRow
    BY <1>1, <1>4, AskedTyped
  <1> HIDE DEF asked
  <1>6. RunTyped(AfterStep(asked, {}, 0)) /\ RunTyped(AfterStep(asked, {Current(r)}, 0))
    BY <1>5, AfterStepTyped
  <1>7. RunTyped(saving)
    <2>1. /\ saving.batch = rows /\ saving.aborted = asked.aborted
          /\ saving.counts = asked.counts /\ saving.owed = asked.owed
      BY <1>5 DEF IsRun
    <2> HIDE DEF saving
    <2>2. QED
      BY <1>5, <2>1 DEF RunTyped
  <1> HIDE DEF saving
  <1>8. QED
    BY <1>1, <1>3, <1>6, <1>7, OneRequestTyped DEF rows, asked, saving

LEMMA SaveTyped ==
  ASSUME MarketInv, MarketTyped, NEW r \in MarketRuns, SaveStep(r) \/ SaveStepFails(r)
  PROVE  MarketTyped'
  <1> DEFINE run == marketRun[r]
  <1>1. /\ run.pc = "save" /\ IsRun(run) /\ run.todo # <<>> /\ RunTyped(run)
        /\ UNCHANGED <<board, calendarText>>
    BY DEF SaveStep, SaveStepFails, MarketInv, MarketTyped, IsRun, marketProvider
  <1>2. CASE SaveStep(r)
    <2>1. marketRun' = [marketRun EXCEPT ![r] = AfterStep(run, {}, Cardinality(run.batch))]
      BY <1>2 DEF SaveStep
    <2>2. IsFiniteSet(run.batch)
      BY <1>1, HeadIsStep DEF IsRun, RunTyped
    <2>3. RunTyped(AfterStep(run, {}, Cardinality(run.batch)))
      BY <1>1, <2>2, FS_CardinalityType, AfterStepTyped
    <2> HIDE DEF run
    <2>4. QED
      BY <1>1, <2>1, <2>3, OneRequestTyped
  <1>3. CASE SaveStepFails(r)
    <2> DEFINE over == AfterStep(run, Noted(r), 0)
               next == [over EXCEPT !.aborted = TRUE]
    <2>1. marketRun' = [marketRun EXCEPT ![r] = next]
      BY <1>3 DEF SaveStepFails
    <2>2. RunTyped(over)
      BY <1>1, AfterStepTyped
    <2>3. next.batch = over.batch /\ next.counts = over.counts /\ next.owed = over.owed
          /\ next.aborted = TRUE
      BY <1>1 DEF IsRun, AfterStep
    <2> HIDE DEF over, next
    <2>4. RunTyped(next)
      BY <2>2, <2>3 DEF RunTyped
    <2>5. QED
      BY <1>1, <2>1, <2>4, OneRequestTyped
  <1>4. QED
    BY <1>2, <1>3

LEMMA RequestTyped ==
  ASSUME NEW steps, NEW day
  PROVE  /\ RunTyped(NoRequest)
         /\ RunTyped([NoRequest EXCEPT !.pc = "fetch", !.todo = steps, !.day = day])
  <1>1. IsFiniteSet({})
    BY FS_EmptySet
  <1>2. QED
    BY <1>1 DEF RunTyped, NoRequest

LEMMA MarketTypedStep ==
  ASSUME MarketInv, MarketTyped, [MarketNext]_marketVars
  PROVE  MarketTyped'
  <1>1. ASSUME NEW raw \in RawCodes, MoveBoard(raw) PROVE MarketTyped'
    <2>1. board' \in [RawCodes -> {"limit_up", "broken"}]
      BY <1>1 DEF MoveBoard, MarketTyped
    <2>2. QED
      BY <1>1, <2>1 DEF MoveBoard, MarketTyped
  <1>2. ASSUME NEW r \in MarketRuns, NEW day, NEW steps, Requested(r, steps, day) PROVE MarketTyped'
    BY <1>2, RequestTyped, OneRequestTyped DEF Requested, marketProvider
  <1>3. ASSUME NEW r \in MarketRuns, NEW answers \in BOOLEAN,
               FetchStep(r, answers) \/ FetchStepFails(r)
        PROVE  MarketTyped'
    BY <1>3, FetchTyped
  <1>4. ASSUME NEW r \in MarketRuns, SaveStep(r) \/ SaveStepFails(r) PROVE MarketTyped'
    BY <1>4, SaveTyped
  <1>5. CASE UNCHANGED marketVars
    BY <1>5 DEF marketVars, marketProvider, MarketTyped
  <1>6. QED
    BY <1>1, <1>2, <1>3, <1>4, <1>5 DEF MarketNext, SyncMarketData, SyncOneStep

\* The tables hold rows of their own kind, and a request the rows, counts and
\* errors of its steps.
THEOREM MarketTypes == MarketSpec => []MarketTypeOK
  <1>1. MarketInit => MarketTyped
    BY RequestTyped DEF MarketInit, MarketTyped
  <1>2. MarketInv /\ MarketTyped => MarketTypeOK
    <2> SUFFICES ASSUME MarketInv, MarketTyped PROVE MarketTypeOK
      OBVIOUS
    <2>1. \A s \in Steps : StepTable(s) \subseteq RowType(s)
      BY DEF MarketInv, Fits, StepTables
    <2>2. /\ limitUps \subseteq StockRow /\ brokenBoards \subseteq StockRow
          /\ previousUps \subseteq StockRow /\ dragonTigers \subseteq DragonRow
          /\ sectorFlows \subseteq FlowRow
      BY <2>1, StepsAre DEF StepTable, RowType
    <2>3. ASSUME NEW r \in MarketRuns
          PROVE  /\ IsRun(marketRun[r]) /\ RunTyped(marketRun[r])
                 /\ \A s \in Steps : marketRun[r].owed[s] \subseteq AnyRow
      BY DEF MarketInv, MarketTyped, IsRun, Fits, RowType, AnyRow
    <2>4. QED
      BY <2>2, <2>3 DEF MarketTyped, MarketTypeOK, IsRun, RunTyped
  <1>3. MarketInv /\ MarketTyped /\ [MarketNext]_marketVars => MarketInv' /\ MarketTyped'
    BY MarketInvNext, MarketTypedStep
  <1>4. QED
    BY <1>1, <1>2, <1>3, MarketInvInit, PTL DEF MarketSpec
=============================================================================
