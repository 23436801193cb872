------------------------------ MODULE WebSearch ------------------------------
(***************************************************************************)
(* The web searches of the macro and the catalyst expert: one search for each *)
(* dimension, one after the other, each through WebSearchService (which logs  *)
(* it) and CachingWebSearchProvider to Bocha.  The experts of a request have  *)
(* a session of their own for cache and log.  Time counts in units of four    *)
(* hours; an answer is the time at which Bocha gave it.                       *)
(***************************************************************************)
EXTENDS Integers, Sequences, FiniteSets

CONSTANTS
  Experts,         \* experts that search
  Dimensions,      \* the dimensions: a sequence of [query, freshness]
  DbOffsets,       \* the zones, as hours east of UTC, the database may have
  MaxWebTime,      \* bound on the clock
  MaxSearches,     \* bound on the expert runs
  MaxSearchFaults  \* bound on failing calls and statements

ASSUME WebAssumption ==
  /\ {MaxWebTime, MaxSearches, MaxSearchFaults} \subseteq Nat
  /\ DbOffsets \subseteq Nat
  /\ Len(Dimensions) \in Nat \ {0} /\ DOMAIN Dimensions = 1..Len(Dimensions)

VARIABLES
  webTime,    \* UTC
  dbOffset,   \* the zone of the database's now()
  webCache,   \* web_search_cache: key |-> entry
  expert,     \* the experts
  searches, searchFaults

webVars == <<webTime, dbOffset, webCache, expert, searches, searchFaults>>

NoAnswer == -1

\* compute_ttl_seconds: 4, 12, 24, 48 hours, and 24 for noLimit, None and others.
Ttl(freshness) ==
  CASE freshness = "oneDay" -> 1
    [] freshness = "oneWeek" -> 3
    [] freshness = "oneYear" -> 12
    [] OTHER -> 6

\* compute_cache_key: the hash of query, freshness, summary and count.
CacheKey(dimension) == <<dimension.query, dimension.freshness>>
Keys == {CacheKey(Dimensions[i]) : i \in DOMAIN Dimensions}

\* A row of web_search_cache; no row is one that has expired before time begins.
WebSearchCacheEntry == [answer : 0..MaxWebTime, created : 0..MaxWebTime, expires : Nat]
NoEntry == [answer |-> 0, created |-> 0, expires |-> 0]

IdleExpert == [pc |-> "idle", dim |-> 1, answer |-> NoAnswer, results |-> <<>>,
               given |-> <<>>, session |-> "fine"]

WebTypeOK ==
  /\ webTime \in 0..MaxWebTime /\ dbOffset \in DbOffsets
  /\ webCache \in [Keys -> WebSearchCacheEntry]
  /\ \A e \in Experts :
       /\ expert[e].pc \in {"idle", "lookup", "bocha", "put", "log", "answered", "refused"}
       /\ expert[e].dim \in 1..(Len(Dimensions) + 1)
       /\ expert[e].answer \in {NoAnswer} \cup 0..MaxWebTime
       /\ \A i \in DOMAIN expert[e].results :
            expert[e].results[i] \in [answer : {NoAnswer} \cup 0..MaxWebTime, at : 0..MaxWebTime]
       /\ Len(expert[e].given) = Len(expert[e].results) \/ expert[e].pc \in {"put", "log"}
       /\ expert[e].session \in {"fine", "unusable"}

WebInit ==
  /\ webTime = 0 /\ dbOffset \in DbOffsets
  /\ webCache = [k \in Keys |-> NoEntry]
  /\ expert = [e \in Experts |-> IdleExpert]
  /\ searches = 0 /\ searchFaults = 0

WebFault == searchFaults < MaxSearchFaults /\ searchFaults' = searchFaults + 1

\* A statement of the expert fails: by itself, or because an earlier one has
\* failed and nobody has rolled the session back.
StatementFails(e) ==
  IF expert[e].session = "unusable" THEN UNCHANGED searchFaults ELSE WebFault

Passing == /\ webTime < MaxWebTime /\ webTime' = webTime + 1
           /\ UNCHANGED <<dbOffset, webCache, expert, searches, searchFaults>>

\* search_macro_context, search_catalyst_context
StartSearch(e) ==
  /\ expert[e].pc \in {"idle", "answered", "refused"}
  /\ searches < MaxSearches /\ searches' = searches + 1
  /\ expert' = [expert EXCEPT ![e] = [IdleExpert EXCEPT !.pc = "lookup"]]
  /\ UNCHANGED <<webTime, dbOffset, webCache, searchFaults>>

Dimension(e) == Dimensions[expert[e].dim]
Entry(e) == webCache[CacheKey(Dimension(e))]

\* get: the row whose expires_at, which is in UTC, is after the now() of the database.
Unexpired(entry) == entry.expires > webTime + dbOffset

\* The cache has an answer, or Bocha is asked.
LookUpCache(e) ==
  /\ expert[e].pc = "lookup" /\ expert[e].session = "fine"
  /\ expert' = [expert EXCEPT
       ![e].pc = IF Unexpired(Entry(e)) THEN "log" ELSE "bocha",
       ![e].answer = IF Unexpired(Entry(e)) THEN Entry(e).answer ELSE NoAnswer,
       ![e].given = IF Unexpired(Entry(e)) THEN Append(@, NoAnswer) ELSE @]
  /\ UNCHANGED <<webTime, dbOffset, webCache, searches, searchFaults>>

\* The lookup raises (it is outside of the try of the cache): the search fails.
LookUpFails(e) ==
  /\ expert[e].pc = "lookup" /\ StatementFails(e)
  /\ expert' = [expert EXCEPT ![e].pc = "log", ![e].answer = NoAnswer,
                              ![e].given = Append(@, NoAnswer), ![e].session = "unusable"]
  /\ UNCHANGED <<webTime, dbOffset, webCache, searches>>

\* Bocha answers, ...
BochaAnswers(e) ==
  /\ expert[e].pc = "bocha"
  /\ expert' = [expert EXCEPT ![e].pc = "put", ![e].answer = webTime,
                              ![e].given = Append(@, webTime)]
  /\ UNCHANGED <<webTime, dbOffset, webCache, searches, searchFaults>>

\* ... or not: no key, a timeout, a status of 400 and above, an answer that cannot
\* be mapped.  Nothing is cached.
BochaFails(e) ==
  /\ expert[e].pc = "bocha" /\ WebFault
  /\ expert' = [expert EXCEPT ![e].pc = "log", ![e].answer = NoAnswer,
                              ![e].given = Append(@, NoAnswer)]
  /\ UNCHANGED <<webTime, dbOffset, webCache, searches>>

\* put: INSERT ... ON CONFLICT (cache_key) DO UPDATE of answer, creation, expiry.
PutEntry(old, answer, now, freshness) ==
  [answer |-> answer, created |-> now, expires |-> now + Ttl(freshness)]

\* The entry that is written was made when Bocha answered; the statement itself
\* takes no time that the cache could tell.
PutInCache(e) ==
  /\ expert[e].pc = "put" /\ expert[e].session = "fine"
  /\ webCache' = [webCache EXCEPT ![CacheKey(Dimension(e))] =
                    PutEntry(@, expert[e].answer, expert[e].answer, Dimension(e).freshness)]
  /\ expert' = [expert EXCEPT ![e].pc = "log"]
  /\ UNCHANGED <<webTime, dbOffset, searches, searchFaults>>

\* Faulty: a failing write fails the search.
LostAnswer(answer) == NoAnswer

\* The answer of a search whose cache write failed: the one of Bocha.
UnblockedAnswer(answer) == answer

PutFails(e) ==
  /\ expert[e].pc = "put" /\ StatementFails(e)
  /\ expert' = [expert EXCEPT ![e].pc = "log", ![e].session = "unusable",
                              ![e].answer = UnblockedAnswer(@)]
  /\ UNCHANGED <<webTime, dbOffset, webCache, searches>>

\* The expert with the result of a dimension; it refuses (400) when all are empty.
WithResult(x) ==
  LET results == Append(x.results, [answer |-> x.answer, at |-> webTime]) IN
  [x EXCEPT !.results = results, !.dim = @ + 1, !.answer = NoAnswer,
            !.pc = IF x.dim < Len(Dimensions) THEN "lookup"
                   ELSE IF \A i \in DOMAIN results : results[i].answer = NoAnswer
                   THEN "refused" ELSE "answered"]

\* _write_call_log: its failure is swallowed.
WriteSearchLog(e) ==
  /\ expert[e].pc = "log"
  /\ \/ /\ expert[e].session = "fine"
        /\ expert' = [expert EXCEPT ![e] = WithResult(expert[e])]
        /\ UNCHANGED searchFaults
     \/ /\ StatementFails(e)
        /\ expert' = [expert EXCEPT ![e] = [WithResult(expert[e]) EXCEPT !.session = "unusable"]]
  /\ UNCHANGED <<webTime, dbOffset, webCache, searches>>

WebNext ==
  \/ Passing
  \/ \E e \in Experts :
       \/ StartSearch(e) \/ LookUpCache(e) \/ LookUpFails(e)
       \/ BochaAnswers(e) \/ BochaFails(e) \/ PutInCache(e) \/ PutFails(e)
       \/ WriteSearchLog(e)

WebSpec == WebInit /\ [][WebNext]_webVars

\* A dimension for which Bocha was asked and answered has that answer, whatever
\* happens to the cache and to the log.
AskedIsAnswered ==
  \A e \in Experts : \A i \in DOMAIN expert[e].results :
    expert[e].given[i] # NoAnswer => expert[e].results[i].answer = expert[e].given[i]

\* What the cache would serve now is younger than the TTL of its freshness, also
\* when two experts have answered the same query in either order.  This needs a
\* database in UTC or east of it; east of it the cache forgets too early.
ServedFresh ==
  \A i \in DOMAIN Dimensions :
    LET entry == webCache[CacheKey(Dimensions[i])] IN
    Unexpired(entry) => webTime - entry.answer < Ttl(Dimensions[i].freshness)

\* The search service keeps both promises.
SearchAnswersHold == AskedIsAnswered /\ ServedFresh
=============================================================================
