----------------------------- MODULE ConceptSync -----------------------------
(***************************************************************************)
(* SyncConceptDataCmd and SyncConceptDataIncrementalCmd, which do the same: *)
(* the concept boards of AkShare and their constituents, one board and one   *)
(* transaction at a time, into the tables concept and concept_stock.  The    *)
(* REST routes may start several runs; each has a session of its own.        *)
(* (The scheduled job fails before it does anything: it builds its container *)
(* without the session that the container requires.)                        *)
(***************************************************************************)
EXTENDS Integers, FiniteSets

CONSTANTS
  Concepts,         \* concept codes
  MemberCodes,      \* third_codes of the stocks
  ConceptRuns,      \* sync runs that may be in progress together
  MaxOffers,        \* bound on changes at the provider
  MaxConceptSyncs,  \* bound on the runs
  MaxConceptFaults  \* bound on failing calls and statements

ASSUME ConceptAssumption ==
  {MaxOffers, MaxConceptSyncs, MaxConceptFaults} \subseteq Nat

VARIABLES
  offered,     \* provider: the constituents of each concept
  versions,    \* history: every list of constituents that was offered
  concept,     \* the concept table
  member,      \* the concept_stock table
  conceptRun,  \* the runs in progress
  offers, conceptSyncs, conceptFaults

conceptTables == <<concept, member>>
conceptProvider == <<offered, versions, offers>>
conceptVars == <<offered, versions, concept, member, conceptRun, offers,
                 conceptSyncs, conceptFaults>>

NoConcept == "none"
IdleSync == [pc |-> "idle", todo |-> {}, cur |-> NoConcept, batch |-> {}, gone |-> {},
             aborted |-> FALSE]

ConceptTypeOK ==
  /\ offered \in [Concepts -> SUBSET MemberCodes]
  /\ versions \in [Concepts -> SUBSET SUBSET MemberCodes]
  /\ concept \subseteq Concepts
  /\ member \in [Concepts -> SUBSET MemberCodes]
  /\ conceptRun \in [ConceptRuns ->
       [pc : {"idle", "fetch", "upsert", "delete", "insert"}, todo : SUBSET Concepts,
        cur : Concepts \cup {NoConcept}, batch : SUBSET MemberCodes,
        gone : SUBSET MemberCodes, aborted : BOOLEAN]]

ConceptInit ==
  /\ offered \in [Concepts -> SUBSET MemberCodes]
  /\ versions = [c \in Concepts |-> {offered[c]}]
  /\ concept = {}
  /\ member = [c \in Concepts |-> {}]
  /\ conceptRun = [w \in ConceptRuns |-> IdleSync]
  /\ offers = 0 /\ conceptSyncs = 0 /\ conceptFaults = 0

\* The provider changes the constituents of a concept.
OfferConcept(c) ==
  /\ offers < MaxOffers /\ offers' = offers + 1
  /\ offered' \in {[offered EXCEPT ![c] = S] : S \in SUBSET MemberCodes}
  /\ versions' = [versions EXCEPT ![c] = @ \cup {offered'[c]}]
  /\ UNCHANGED <<conceptTables, conceptRun, conceptSyncs, conceptFaults>>

-----------------------------------------------------------------------------

\* fetch_concept_list: the boards to walk through.
ConceptList == Concepts

\* A run that gets no list raises or reports nothing, and leaves the tables alone.
StartConceptSync(w) ==
  /\ conceptRun[w].pc = "idle"
  /\ conceptSyncs < MaxConceptSyncs /\ conceptSyncs' = conceptSyncs + 1
  /\ conceptRun' = [conceptRun EXCEPT ![w] = [IdleSync EXCEPT !.pc = "fetch", !.todo = ConceptList]]
  /\ UNCHANGED <<conceptProvider, conceptTables, conceptFaults>>

\* On with the next concept: the one in hand succeeded, or failed and is skipped.
NextConcept(w, aborted) ==
  conceptRun' = [conceptRun EXCEPT ![w] =
    IF conceptRun[w].todo = {} THEN IdleSync
    ELSE [IdleSync EXCEPT !.pc = "fetch", !.todo = conceptRun[w].todo, !.aborted = aborted]]

FetchConstituents(w, c) ==
  /\ conceptRun[w].pc = "fetch" /\ c \in conceptRun[w].todo
  /\ conceptRun' = [conceptRun EXCEPT ![w].pc = "upsert", ![w].todo = @ \ {c},
                                      ![w].cur = c, ![w].batch = offered[c]]
  /\ UNCHANGED <<conceptProvider, conceptTables, conceptSyncs, conceptFaults>>

FetchConstituentsFails(w, c) ==
  /\ conceptRun[w].pc = "fetch" /\ c \in conceptRun[w].todo
  /\ conceptFaults < MaxConceptFaults /\ conceptFaults' = conceptFaults + 1
  /\ conceptRun' = [conceptRun EXCEPT ![w] =
       IF @.todo = {c} THEN IdleSync
       ELSE [@ EXCEPT !.todo = conceptRun[w].todo \ {c}]]
  /\ UNCHANGED <<conceptProvider, conceptTables, conceptSyncs>>

\* Faulty: the constituents are replaced without touching the concept's row.
LockedByNone(w) == TRUE

\* The row of the concept, once upserted, is locked until the transaction ends.
RowFree(w) ==
  \A v \in ConceptRuns \ {w} :
    ~(conceptRun[v].cur = conceptRun[w].cur /\ conceptRun[v].pc \in {"delete", "insert"})

\* upsert_concept_with_stocks, a transaction of its own: upsert the concept, ...
UpsertConcept(w) ==
  /\ conceptRun[w].pc = "upsert" /\ ~conceptRun[w].aborted
  /\ RowFree(w)
  /\ conceptRun' = [conceptRun EXCEPT ![w].pc = "delete"]
  /\ UNCHANGED <<conceptProvider, conceptTables, conceptSyncs, conceptFaults>>

\* ... delete the constituents that are there, ...
DeleteMembers(w) ==
  /\ conceptRun[w].pc = "delete"
  /\ conceptRun' = [conceptRun EXCEPT ![w].pc = "insert",
                                      ![w].gone = member[conceptRun[w].cur]]
  /\ UNCHANGED <<conceptProvider, conceptTables, conceptSyncs, conceptFaults>>

\* The constituents after the transaction.
Replaced(w) == (member[conceptRun[w].cur] \ conceptRun[w].gone) \cup conceptRun[w].batch

\* ... insert the new ones, and commit.
InsertMembers(w) ==
  /\ conceptRun[w].pc = "insert"
  /\ concept' = concept \cup {conceptRun[w].cur}
  /\ member' = [member EXCEPT ![conceptRun[w].cur] = Replaced(w)]
  /\ NextConcept(w, FALSE)
  /\ UNCHANGED <<conceptProvider, conceptSyncs, conceptFaults>>

\* A statement raises (a stock listed twice among the constituents violates the
\* unique constraint): the concept counts as failed, and with nobody rolling
\* back every later transaction of the run fails in the same way.
TransactionFails(w) ==
  /\ conceptRun[w].pc \in {"upsert", "delete", "insert"}
  /\ \/ conceptRun[w].aborted /\ UNCHANGED conceptFaults
     \/ ~conceptRun[w].aborted
        /\ conceptFaults < MaxConceptFaults /\ conceptFaults' = conceptFaults + 1
  /\ NextConcept(w, TRUE)
  /\ UNCHANGED <<conceptProvider, conceptTables, conceptSyncs>>

ConceptNext ==
  \/ \E c \in Concepts : OfferConcept(c)
  \/ \E w \in ConceptRuns :
       \/ StartConceptSync(w) \/ UpsertConcept(w) \/ DeleteMembers(w) \/ InsertMembers(w)
       \/ TransactionFails(w)
       \/ \E c \in Concepts : FetchConstituents(w, c) \/ FetchConstituentsFails(w, c)

ConceptSpec == ConceptInit /\ [][ConceptNext]_conceptVars
=============================================================================
