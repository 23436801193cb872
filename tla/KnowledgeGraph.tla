--------------------------- MODULE KnowledgeGraph ---------------------------
(***************************************************************************)
(* The knowledge center: GraphService and its commands copy the stock list  *)
(* and the concepts of the database into Neo4j and answer questions about    *)
(* neighbours.  It runs beside the concept sync that writes those tables.    *)
(*                                                                         *)
(* The Neo4j driver is synchronous: what a command does after its reads from *)
(* PostgreSQL happens without giving way to another coroutine, and only the  *)
(* death of the process can fall in between.                                *)
(***************************************************************************)
EXTENDS ConceptSync

CONSTANTS
  Industries,     \* names of the industry dimension; area, market and exchange
                  \*   are written and read in the same way
  NoIndustry,     \* none given
  GraphRuns,      \* graph syncs that may be in progress together
  MaxGraphEvents, \* bound on graph syncs and changes of the stock list
  MaxGraphFaults  \* bound on failing Cypher statements and crashes

ASSUME GraphAssumption ==
  /\ NoIndustry \notin Industries /\ IsFiniteSet(MemberCodes)
  /\ {MaxGraphEvents, MaxGraphFaults} \subseteq Nat

VARIABLES
  industry,     \* stock_info: the industry of each listed stock, by third_code
  stockNode,    \* STOCK nodes
  conceptNode,  \* CONCEPT nodes
  inIndustry,   \* BELONGS_TO_INDUSTRY: the industries of each stock node
  inConcept,    \* BELONGS_TO_CONCEPT: the stocks of each concept
  graphRun,     \* the graph syncs in progress
  changed,      \* history: the concepts committed since a run last read of them
  outdated,     \* history: the concepts that the graph need not show as they are
  graphEvents, graphFaults

graphDb == <<stockNode, conceptNode, inIndustry, inConcept, changed, outdated>>
graphVars == <<industry, stockNode, conceptNode, inIndustry, inConcept, graphRun,
               changed, outdated, graphEvents, graphFaults>>

\* A request for a sync: where it stands, whether the concepts follow the stocks,
\* and what it has read.
IdleGraphRun == [pc |-> "idle", mode |-> "full", all |-> FALSE, codes |-> {},
                 seen |-> {}, batch |-> <<>>]

Blank == "  "

\* Faulty: any name that is given is taken.
GivenName(name) == name

\* _normalize_dimension_name: a name of blanks is none.
Normalized(name) == IF name = Blank THEN NoIndustry ELSE name

GraphTypeOK ==
  /\ industry \in [MemberCodes -> Industries \cup {Blank, NoIndustry}]
  /\ stockNode \subseteq MemberCodes /\ conceptNode \subseteq Concepts
  /\ inIndustry \in [MemberCodes -> SUBSET Industries]
  /\ inConcept \in [Concepts -> SUBSET MemberCodes]
  /\ changed \in [GraphRuns -> SUBSET Concepts] /\ outdated \subseteq Concepts
  /\ \A g \in GraphRuns :
       /\ graphRun[g].pc \in {"idle", "stocks", "merge", "concepts", "rebuild"}
       /\ graphRun[g].mode \in {"full", "incremental"} /\ graphRun[g].all \in BOOLEAN
       /\ graphRun[g].codes \subseteq MemberCodes /\ graphRun[g].seen \subseteq Concepts

GraphInit ==
  /\ industry \in [MemberCodes -> Industries]
  /\ stockNode = {} /\ conceptNode = {}
  /\ inIndustry = [s \in MemberCodes |-> {}]
  /\ inConcept = [c \in Concepts |-> {}]
  /\ graphRun = [g \in GraphRuns |-> IdleGraphRun]
  /\ changed = [g \in GraphRuns |-> {}] /\ outdated = {}
  /\ graphEvents = 0 /\ graphFaults = 0

GraphEvent == graphEvents < MaxGraphEvents /\ graphEvents' = graphEvents + 1
GraphFault == graphFaults < MaxGraphFaults /\ graphFaults' = graphFaults + 1

\* The stock list sync finds a stock in another industry.
ChangeIndustry(s) ==
  /\ GraphEvent
  /\ \E i \in Industries \cup {Blank} : industry' = [industry EXCEPT ![s] = i]
  /\ UNCHANGED <<graphDb, graphRun, graphFaults, conceptVars>>

StartGraphSync(g, pc, mode, all) ==
  /\ graphRun[g].pc = "idle"
  /\ GraphEvent
  /\ graphRun' = [graphRun EXCEPT ![g] = [IdleGraphRun EXCEPT !.pc = pc, !.mode = mode,
                                                              !.all = all]]
  /\ UNCHANGED <<industry, graphDb, graphFaults, conceptVars>>

\* POST /sync/stocks/full, /sync/stocks/incremental, /sync/concepts, /sync/all, and
\* the deprecated /sync, which chooses among them by target and mode.
SyncStocksFull(g) == StartGraphSync(g, "stocks", "full", FALSE)
SyncStocksIncremental(g) == StartGraphSync(g, "stocks", "incremental", FALSE)
SyncConcepts(g) == StartGraphSync(g, "concepts", "full", FALSE)
SyncAll(g) == \E mode \in {"full", "incremental"} : StartGraphSync(g, "stocks", mode, TRUE)
SyncGraph(g) == SyncStocksFull(g) \/ SyncStocksIncremental(g) \/ SyncConcepts(g) \/ SyncAll(g)

\* The request is answered; the one of /sync/all goes on after its stocks.
AfterStocks(r) == IF r.all THEN [IdleGraphRun EXCEPT !.pc = "concepts"] ELSE IdleGraphRun
EndStocks(g) == graphRun' = [graphRun EXCEPT ![g] = AfterStocks(@)]
EndGraphSync(g) == graphRun' = [graphRun EXCEPT ![g] = IdleGraphRun]

-----------------------------------------------------------------------------
(* Stocks: SyncGraphCommand, full or incremental. *)

\* The stocks to copy: a page of all of them, in no order; those asked for, of
\* which some may not be listed; or those of a window of days.
PageOfStocks == SUBSET MemberCodes
StocksByCodes(codes) == codes \cap MemberCodes
IncrementalStocks == {StocksByCodes(codes) : codes \in SUBSET MemberCodes}

\* They are read with the industry they have now.
FetchStocks(g) ==
  /\ graphRun[g].pc = "stocks"
  /\ \E codes \in IF graphRun[g].mode = "full" THEN PageOfStocks ELSE IncrementalStocks :
       IF codes = {} THEN EndStocks(g)
       ELSE graphRun' = [graphRun EXCEPT ![g].pc = "merge", ![g].codes = codes,
                                         ![g].batch = industry]
  /\ UNCHANGED <<industry, graphDb, graphEvents, graphFaults, conceptVars>>

\* Which records of a merge are written.  A statement that fails is repeated
\* record by record; one whose error arrives after the driver has returned from
\* it is counted as done all the same.
Written(All) == IF graphFaults < MaxGraphFaults THEN SUBSET All ELSE {All}

Counted(All, Done) == graphFaults' = graphFaults + (IF Done = All THEN 0 ELSE 1)

\* The relationships of a stock after MERGE, which never takes one away.
MergedIndustry(g, Done) ==
  [s \in MemberCodes |->
     IF s \in Done /\ Normalized(graphRun[g].batch[s]) # NoIndustry
     THEN inIndustry[s] \cup {graphRun[g].batch[s]} ELSE inIndustry[s]]

MergeStocks(g) ==
  /\ graphRun[g].pc = "merge"
  /\ \E Done \in Written(graphRun[g].codes) :
       /\ Counted(graphRun[g].codes, Done)
       /\ stockNode' = stockNode \cup Done
       /\ inIndustry' = MergedIndustry(g, Done)
       /\ outdated' = outdated \cup {c \in Concepts : member[c] \cap (Done \ stockNode) # {}}
  /\ EndStocks(g)
  /\ UNCHANGED <<industry, conceptNode, inConcept, changed, graphEvents, conceptVars>>

-----------------------------------------------------------------------------
(* Concepts: SyncConceptGraphCommand. *)

\* get_all_concepts_with_stocks: the concepts, and by a second statement their
\* constituents; a commit of the concept sync may come between the two.
SelectConcepts(g) ==
  /\ graphRun[g].pc = "concepts" /\ graphRun[g].batch = <<>>
  /\ IF concept = {} THEN EndGraphSync(g)
     ELSE graphRun' = [graphRun EXCEPT ![g].seen = concept, ![g].batch = <<"members">>]
  /\ changed' = [changed EXCEPT ![g] = {}]
  /\ UNCHANGED <<industry, stockNode, conceptNode, inIndustry, inConcept, outdated,
                 graphEvents, graphFaults, conceptVars>>

SelectMembers(g) ==
  /\ graphRun[g].pc = "concepts" /\ graphRun[g].batch # <<>>
  /\ graphRun' = [graphRun EXCEPT ![g].pc = "rebuild", ![g].batch = member]
  /\ changed' = [changed EXCEPT ![g] = @ \ graphRun[g].seen]
  /\ UNCHANGED <<industry, stockNode, conceptNode, inIndustry, inConcept, outdated,
                 graphEvents, graphFaults, conceptVars>>

\* delete_all_concept_relationships
NoRelations == [c \in Concepts |-> {}]

\* Faulty: what is merged is deleted afterwards.
DeletedLast(g, Done) == NoRelations

\* merge_concepts: relationships only to stocks that have a node.
MergedConcepts(g, Done) ==
  [c \in Concepts |-> IF c \in Done
                      THEN NoRelations[c] \cup (graphRun[g].batch[c] \cap stockNode)
                      ELSE NoRelations[c]]

\* Delete all relationships, then write the concepts and theirs.
GraphRebuilt(g, Done) ==
  /\ inConcept' = MergedConcepts(g, Done)
  /\ conceptNode' = conceptNode \cup Done
  /\ outdated' = (graphRun[g].seen \ Done) \cup changed[g]

RebuildConcepts(g) ==
  /\ graphRun[g].pc = "rebuild"
  /\ \E Done \in Written(graphRun[g].seen) :
       Counted(graphRun[g].seen, Done) /\ GraphRebuilt(g, Done)
  /\ EndGraphSync(g)
  /\ UNCHANGED <<industry, stockNode, inIndustry, changed, graphEvents, conceptVars>>

\* The constraints cannot be created, or nothing can be deleted.
RebuildFails(g) ==
  /\ graphRun[g].pc \in {"merge", "rebuild"}
  /\ GraphFault
  /\ EndGraphSync(g)
  /\ UNCHANGED <<industry, graphDb, graphEvents, conceptVars>>

-----------------------------------------------------------------------------

\* clear_all_graph_data: every node, with its relationships.
ClearAllGraphData ==
  /\ stockNode' = {} /\ conceptNode' = {}
  /\ inIndustry' = [s \in MemberCodes |-> {}]
  /\ inConcept' = [c \in Concepts |-> {}]
  /\ outdated' = Concepts

\* DELETE /clear
ClearGraph ==
  /\ stockNode # {} \/ conceptNode # {}
  /\ ClearAllGraphData
  /\ UNCHANGED <<industry, graphRun, changed, graphEvents, graphFaults, conceptVars>>

\* The process dies: every run is gone, perhaps one between the deletion of the
\* relationships and some batch of the merge.
GraphCrash ==
  /\ GraphFault
  /\ \E g \in GraphRuns : graphRun[g].pc # "idle"
  /\ \/ UNCHANGED graphDb
     \/ \E g \in GraphRuns, Done \in SUBSET Concepts :
          /\ graphRun[g].pc = "rebuild" /\ Done \subseteq graphRun[g].seen
          /\ GraphRebuilt(g, Done)
          /\ UNCHANGED <<stockNode, inIndustry, changed>>
  /\ graphRun' = [g \in GraphRuns |-> IdleGraphRun]
  /\ conceptRun' = [w \in ConceptRuns |-> IdleSync]
  /\ UNCHANGED <<industry, graphEvents, conceptProvider, conceptTables,
                 conceptSyncs, conceptFaults>>

GraphNext ==
  \/ \E s \in MemberCodes : ChangeIndustry(s)
  \/ \E g \in GraphRuns :
       \/ SyncGraph(g) \/ FetchStocks(g) \/ MergeStocks(g)
       \/ SelectConcepts(g) \/ SelectMembers(g)
       \/ RebuildConcepts(g) \/ RebuildFails(g)
  \/ ClearGraph \/ GraphCrash

\* A concept sync has committed: what runs have read of the concept is old, and
\* the graph need not show it yet.
CommitNoted ==
  LET New == {c \in Concepts : member'[c] # member[c]} IN
  /\ changed' = [g \in GraphRuns |-> changed[g] \cup New]
  /\ outdated' = outdated \cup New
  /\ UNCHANGED <<industry, stockNode, conceptNode, inIndustry, inConcept, graphRun,
                 graphEvents, graphFaults>>

PipelineInit == ConceptInit /\ GraphInit
PipelineNext == GraphNext \/ (ConceptNext /\ CommitNoted)
pipelineVars == <<conceptVars, graphVars>>
PipelineSpec == PipelineInit /\ [][PipelineNext]_pipelineVars

-----------------------------------------------------------------------------
(* Queries. *)

\* find_neighbors: a row for each stock and each node of the dimension that it
\* shares with s; in the dimension of concepts only the node of that name.
FindNeighbors(s, dimension, name) ==
  CASE dimension = "industry" ->
         {row \in (stockNode \ {s}) \X Industries :
            s \in stockNode /\ row[2] \in inIndustry[s] \cap inIndustry[row[1]]}
    [] dimension = "concept" /\ name \in Concepts /\ s \in inConcept[name] ->
         (inConcept[name] \ {s}) \X {name}
    [] OTHER -> {}

\* LIMIT: so many of the rows, in no order.
Limited(Rows, limit) ==
  {R \in SUBSET Rows : Cardinality(R) = IF Cardinality(Rows) < limit THEN Cardinality(Rows)
                                         ELSE limit}

\* GET /stocks/{third_code}/neighbors: refused for a concept without a name;
\* otherwise the stocks of the rows.
GetStockNeighbors(s, dimension, name, limit) ==
  IF dimension = "concept" /\ name = NoConcept
  THEN {}
  ELSE {{row[1] : row \in R} : R \in Limited(FindNeighbors(s, dimension, name), limit)}

\* find_stock_graph: the stock, the dimension nodes it is connected to and the
\* relationships to them.
FindStockGraph(s) ==
  LET dims == ({"INDUSTRY"} \X inIndustry[s])
                \cup ({"CONCEPT"} \X {c \in Concepts : s \in inConcept[c]})
  IN  [nodes |-> {<<"STOCK", s>>} \cup dims, relationships |-> {s} \X dims]

\* GET /stocks/{third_code}/graph: an answer without data for a stock without a node.
GetStockGraph(s) ==
  IF s \in stockNode THEN FindStockGraph(s) ELSE [nodes |-> {}, relationships |-> {}]

-----------------------------------------------------------------------------

\* From the provider through the database into the graph, with syncs of both
\* kinds overlapping, failing and crashing: the constituents of a concept in the
\* database are one list that the provider offered (or nothing was stored yet),
\* and its relationships in the graph belong to one such list, never to a
\* mixture of two.
ConceptsAreOneVersion ==
  \A c \in Concepts :
    /\ c \in concept => member[c] \in versions[c]
    /\ \E S \in versions[c] : inConcept[c] \subseteq S

\* What the queries tell of a concept is what the database has of it, as far as
\* its stocks have nodes: unless a commit has changed it since the last rebuild
\* read it, a stock of it got its node later, its own record failed or the graph
\* was cleared.  A commit between the two reads of a rebuild, a failing batch, a
\* crash in its midst and a rebuild that overlaps an older one each cost only the
\* concepts they are about.
NeighborsFollowDatabase ==
  \A c \in Concepts \ outdated, s \in MemberCodes, limit \in {1, 20} :
    LET shown  == member[c] \cap stockNode
        others == IF s \in shown THEN shown \ {s} ELSE {}
    IN  /\ \A A \in GetStockNeighbors(s, "concept", c, limit) :
             A \subseteq others /\ (Cardinality(others) <= limit => A = others)
        /\ <<"CONCEPT", c>> \in GetStockGraph(s).nodes <=> s \in shown
=============================================================================
