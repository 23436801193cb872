----------------------------- MODULE LLMPlatform -----------------------------
(***************************************************************************)
(* The LLM platform: the table llm_configs and the requests that change it   *)
(* (ConfigService), the LLMRegistry, a singleton that is rebuilt from the     *)
(* table, and the calls that LLMRouter sends through the registered models   *)
(* until one of them answers (LLMService.generate), with their call log.     *)
(* One action stands for what runs between two awaits.                       *)
(***************************************************************************)
EXTENDS Integers, FiniteSets, Sequences, Functions

CONSTANTS
  Aliases,        \* aliases of configurations
  Tags,           \* tags of configurations
  CreatedRows,    \* the configurations that requests create
  Patches,        \* the updates of PATCH requests: field |-> value, some fields only
  ConfigClients,  \* requests to the configuration routes in progress together
  ChatClients,    \* LLM calls in progress together
  NoAlias,        \* stands for None
  MaxConfigOps,   \* bound on configuration requests
  MaxChats,       \* bound on LLM calls
  MaxLlmFaults    \* bound on failing statements and model calls

\* What a column of llm_configs may hold.
ConfigColumn == [priority |-> Int, tags |-> SUBSET Tags, is_active |-> BOOLEAN,
                 provider_type |-> {"openai", "other"}]

LLMConfig == [priority : Int, tags : SUBSET Tags, is_active : BOOLEAN,
              provider_type : {"openai", "other"}]

\* The DTOs of the requests take values of the columns' types only; a null in a
\* PATCH is a field that is not in it (update_config skips both).
ASSUME LLMAssumption ==
  /\ {MaxConfigOps, MaxChats, MaxLlmFaults} \subseteq Nat
  /\ NoAlias \notin Aliases /\ IsFiniteSet(Aliases)
  /\ CreatedRows \subseteq LLMConfig
  /\ \A patch \in Patches : \A f \in DOMAIN patch :
       f \in DOMAIN ConfigColumn /\ patch[f] \in ConfigColumn[f]

VARIABLES
  configs,     \* the table llm_configs: alias |-> row
  registry,    \* LLMRegistry._configs (and _providers, which has the same keys)
  repoOf,      \* LLMRegistry._repo: the client whose repository, and session, it has
  configReq,   \* the configuration requests
  chat,        \* the LLM calls
  callLogs,    \* the table of call logs: what was logged for each call
  logSession,  \* the session that the call logs are written with
  loaded,      \* history: the registry was loaded at least once
  views,       \* history: every state that the active rows of the table had
  serial,      \* history: the table, had each request been alone
  raced,       \* history: the aliases of rows that changed under a request
  configOps, chats, llmFaults

configTables == <<configs, views, serial, raced>>
chatVars == <<chat, callLogs, logSession, chats>>
llmVars == <<configTables, registry, loaded, repoOf, configReq, chatVars, configOps, llmFaults>>

\* A model that is called without a configuration of its own (get returns None).
NoConfig == [priority |-> 0, tags |-> {}, is_active |-> FALSE, provider_type |-> "other"]

IdleConfigReq == [pc |-> "idle", op |-> "refresh", alias |-> NoAlias, row |-> NoConfig,
                  patch |-> <<>>, found |-> FALSE, read |-> NoConfig, active |-> <<>>]
IdleChat == [pc |-> "idle", candidates |-> <<>>, turn |-> 1, rows |-> <<>>,
             tried |-> {}, missing |-> {}, logged |-> FALSE]

Some(m, a) == a \in DOMAIN m

\* get_active_configs
ActiveConfigs == Restrict(configs, {a \in DOMAIN configs : configs[a].is_active})

\* _register: only provider_type openai has an adapter; the other rows are left out.
Registered(rows) == Restrict(rows, {a \in DOMAIN rows : rows[a].provider_type = "openai"})

LLMTypeOK ==
  /\ DOMAIN configs \subseteq Aliases /\ \A a \in DOMAIN configs : configs[a] \in LLMConfig
  /\ DOMAIN registry \subseteq Aliases /\ \A a \in DOMAIN registry : registry[a] \in LLMConfig
  /\ repoOf \in ConfigClients \cup {NoAlias}
  /\ \A c \in ConfigClients :
       /\ configReq[c].pc \in {"idle", "lookup", "write", "refresh", "rebuild",
                               "done", "not_found", "conflict", "error"}
       /\ configReq[c].op \in {"create", "update", "delete", "refresh"}
       /\ configReq[c].alias \in Aliases \cup {NoAlias}
       /\ configReq[c].found \in BOOLEAN
  /\ \A c \in ChatClients :
       /\ chat[c].pc \in {"idle", "call", "ok", "failed"}
       /\ Range(chat[c].candidates) \subseteq Aliases
       /\ chat[c].turn \in 1..(Cardinality(Aliases) + 1)
       /\ chat[c].tried \cup chat[c].missing \subseteq Aliases
  /\ callLogs \in [ChatClients -> {"none", "success", "failed", "lost"}]
  /\ logSession \in {"fine", "unusable"}
  /\ raced \subseteq Aliases /\ loaded \in BOOLEAN

\* LLMPlatformStartup.initialize: the registry is loaded once; a failure leaves it
\* empty and does not keep the application from starting.
LLMInit ==
  /\ \E rows \in UNION {[S -> CreatedRows] : S \in SUBSET Aliases} :
       /\ configs = rows /\ serial = rows
       /\ views = {ActiveConfigs}
       /\ \/ loaded = TRUE /\ registry = Registered(ActiveConfigs)
          \/ loaded = FALSE /\ registry = <<>>
  /\ repoOf = NoAlias
  /\ configReq = [c \in ConfigClients |-> IdleConfigReq]
  /\ chat = [c \in ChatClients |-> IdleChat]
  /\ callLogs = [c \in ChatClients |-> "none"]
  /\ logSession = "fine"
  /\ raced = {}
  /\ configOps = 0 /\ chats = 0 /\ llmFaults = 0

LlmFault == llmFaults < MaxLlmFaults /\ llmFaults' = llmFaults + 1

-----------------------------------------------------------------------------
(* Configuration requests *)

\* get_config_service: the request's repository becomes the registry's.
ConfigArrives(c, req) ==
  /\ configReq[c].pc \notin {"lookup", "write", "refresh", "rebuild"}
  /\ configOps < MaxConfigOps /\ configOps' = configOps + 1
  /\ repoOf' = c
  /\ configReq' = [configReq EXCEPT ![c] = req]
  /\ UNCHANGED <<configTables, registry, loaded, chatVars, llmFaults>>

CreateConfig(c, a, row) ==
  ConfigArrives(c, [IdleConfigReq EXCEPT !.pc = "lookup", !.op = "create",
                                         !.alias = a, !.row = row])
UpdateConfig(c, a, patch) ==
  ConfigArrives(c, [IdleConfigReq EXCEPT !.pc = "lookup", !.op = "update",
                                         !.alias = a, !.patch = patch])
DeleteConfig(c, a) ==
  ConfigArrives(c, [IdleConfigReq EXCEPT !.pc = "lookup", !.op = "delete", !.alias = a])
RefreshRegistry(c) == ConfigArrives(c, [IdleConfigReq EXCEPT !.pc = "refresh"])

\* get_by_alias has answered: 409 for a create that found a row, 404 for an update
\* or a delete that found none.
LookUp(c) ==
  LET req == configReq[c]
      found == Some(configs, req.alias)
  IN /\ req.pc = "lookup"
     /\ configReq' = [configReq EXCEPT ![c] =
          [req EXCEPT !.found = found,
                      !.read = IF found THEN configs[req.alias] ELSE NoConfig,
                      !.pc = IF req.op = "create" /\ found THEN "conflict"
                             ELSE IF req.op # "create" /\ ~found THEN "not_found"
                             ELSE "write"]]
     /\ UNCHANGED <<configTables, registry, loaded, repoOf, chatVars, configOps, llmFaults>>

\* Faulty: fields that the PATCH does not name get their defaults.
PatchedDefaults(row, patch) ==
  [f \in DOMAIN row |-> IF f \in DOMAIN patch THEN patch[f] ELSE NoConfig[f]]

\* setattr of the fields that the PATCH names.
Patched(row, patch) ==
  [f \in DOMAIN row |-> IF f \in DOMAIN patch THEN patch[f] ELSE row[f]]

\* save (INSERT ... ON CONFLICT (alias) DO UPDATE of every field) and
\* delete_by_alias, on the table as it is now.
SavedConfig(rows, a, row) == [b \in DOMAIN rows \cup {a} |-> IF b = a THEN row ELSE rows[b]]
DeletedByAlias(rows, a) == Restrict(rows, DOMAIN rows \ {a})

WrittenRows(req) ==
  CASE req.op = "create" -> SavedConfig(configs, req.alias, req.row)
    [] req.op = "update" -> SavedConfig(configs, req.alias, Patched(req.read, req.patch))
    [] req.op = "delete" -> DeletedByAlias(configs, req.alias)

\* The same on a table that nobody else touches between the lookup and the write.
WrittenAlone(req) ==
  LET a == req.alias IN
  CASE req.op = "create" /\ ~Some(serial, a) -> [b \in DOMAIN serial \cup {a} |->
                                                  IF b = a THEN req.row ELSE serial[b]]
    [] req.op = "update" /\ Some(serial, a) ->
         [serial EXCEPT ![a] = [f \in DOMAIN @ |-> IF f \in DOMAIN req.patch
                                                   THEN req.patch[f] ELSE @[f]]]
    [] req.op = "delete" -> Restrict(serial, DOMAIN serial \ {a})
    [] OTHER -> serial

\* The row is not the one that the lookup has read.
ChangedSince(req) ==
  \/ Some(configs, req.alias) # req.found
  \/ req.found /\ configs[req.alias] # req.read

\* The statement and its commit; the refresh follows, but for a request to which the
\* reply of the commit was lost: 500.
WriteConfig(c) ==
  LET req == configReq[c] IN
  /\ req.pc = "write"
  /\ configs' = WrittenRows(req)
  /\ views' = views \cup {ActiveConfigs'}
  /\ serial' = WrittenAlone(req)
  /\ raced' = IF ChangedSince(req) THEN raced \cup {req.alias} ELSE raced
  /\ \/ configReq' = [configReq EXCEPT ![c].pc = "refresh"] /\ UNCHANGED llmFaults
     \/ configReq' = [configReq EXCEPT ![c].pc = "error"] /\ LlmFault
  /\ UNCHANGED <<registry, loaded, repoOf, chatVars, configOps>>

\* The lookup or the statement raises: rolled back, 500.
ConfigStatementFails(c) ==
  /\ configReq[c].pc \in {"lookup", "write"}
  /\ LlmFault
  /\ configReq' = [configReq EXCEPT ![c].pc = "error"]
  /\ UNCHANGED <<configTables, registry, loaded, repoOf, chatVars, configOps>>

\* The session of the registry's repository is in use by another request: the
\* request that came last has put its repository into the registry.
SessionInUse(c) == /\ repoOf \notin {c, NoAlias}
                   /\ configReq[repoOf].pc \in {"lookup", "write", "refresh", "rebuild"}

\* refresh: the query of the active configurations has been answered ...
ReadActive(c) ==
  /\ configReq[c].pc = "refresh"
  /\ configReq' = [configReq EXCEPT ![c].pc = "rebuild", ![c].active = ActiveConfigs]
  /\ UNCHANGED <<configTables, registry, loaded, repoOf, chatVars, configOps, llmFaults>>

\* The registry that is cleared and rebuilt from these rows.
Rebuilt(rows) == Registered(rows)

\* ... and the registry is rebuilt, without an await.
Rebuild(c) ==
  /\ configReq[c].pc = "rebuild"
  /\ registry' = Rebuilt(configReq[c].active)
  /\ loaded' = TRUE
  /\ configReq' = [configReq EXCEPT ![c] = [IdleConfigReq EXCEPT !.pc = "done"]]
  /\ UNCHANGED <<configTables, repoOf, chatVars, configOps, llmFaults>>

\* Faulty: the registry is cleared before the query is answered.
ClearedOnFailure == <<>>

\* The registry after a refresh that failed: the configurations that it had.
KeptOnFailure == registry

\* The query raises (always possible when two requests use the session at once):
\* it is logged, the registry stays as it is and the request succeeds.
ReadActiveFails(c) ==
  /\ configReq[c].pc = "refresh"
  /\ IF SessionInUse(c) THEN UNCHANGED llmFaults ELSE LlmFault
  /\ registry' = KeptOnFailure
  /\ configReq' = [configReq EXCEPT ![c] = [IdleConfigReq EXCEPT !.pc = "done"]]
  /\ UNCHANGED loaded
  /\ UNCHANGED <<configTables, repoOf, chatVars, configOps>>

-----------------------------------------------------------------------------
(* LLM calls *)

\* _select_candidates: by alias, or all the tags, or all.
Matching(alias, tags) ==
  {a \in DOMAIN registry :
     registry[a].is_active /\ IF alias # NoAlias THEN a = alias ELSE tags \subseteq registry[a].tags}

\* sort(key=priority): ascending, the order of the table within a priority.
ByPriority(matching) ==
  {s \in [1..Cardinality(matching) -> matching] :
     /\ IsInjective(s)
     /\ \A i, j \in DOMAIN s : i < j => registry[s[i]].priority <= registry[s[j]].priority}

\* The candidates whose turn comes at or after i and that the registry still has.
StillThere(candidates, i) ==
  {j \in i..Len(candidates) : Some(registry, candidates[j])}

\* The call goes on with the next registered candidate, or raises.  get_provider
\* looks into the registry of now: candidates that a refresh has removed since are
\* passed over.
GoOn(call, i) ==
  LET there == StillThere(call.candidates, i)
      next == IF there = {} THEN Len(call.candidates) + 1
              ELSE CHOOSE j \in there : \A k \in there : j <= k
  IN [call EXCEPT !.turn = next,
                  !.pc = IF there = {} THEN "failed" ELSE "call",
                  !.missing = @ \cup {call.candidates[j] : j \in i..(next - 1)}]

\* Faulty: the first failure is final.
GiveUp(call, i) ==
  [call EXCEPT !.turn = Len(call.candidates) + 1, !.pc = "failed"]

\* The call after its candidate of this turn has raised: "Failing over...".
FailOver(call, i) == GoOn(call, i)

\* LLMService.generate: NoAvailableModelError at once without a candidate.
Generate(c, alias, tags) ==
  /\ chat[c].pc = "idle" \/ chat[c].logged
  /\ chats < MaxChats /\ chats' = chats + 1
  /\ \E s \in ByPriority(Matching(alias, tags)) :
       chat' = [chat EXCEPT ![c] =
                  GoOn([IdleChat EXCEPT !.candidates = s,
                                        !.rows = Restrict(registry, Range(s))], 1)]
  /\ callLogs' = [callLogs EXCEPT ![c] = "none"]
  /\ UNCHANGED <<configTables, registry, loaded, repoOf, configReq, logSession, configOps, llmFaults>>

CurrentModel(c) == chat[c].candidates[chat[c].turn]

\* The model answers (None becomes an empty text) ...
CandidateAnswers(c) ==
  /\ chat[c].pc = "call"
  /\ chat' = [chat EXCEPT ![c].pc = "ok", ![c].tried = @ \cup {CurrentModel(c)}]
  /\ UNCHANGED <<configTables, registry, loaded, repoOf, configReq, callLogs, logSession, chats,
                 configOps, llmFaults>>

\* ... or raises whatever error, and the next candidate has its turn.
CandidateFails(c) ==
  /\ chat[c].pc = "call" /\ LlmFault
  /\ chat' = [chat EXCEPT ![c] =
                FailOver([chat[c] EXCEPT !.tried = @ \cup {CurrentModel(c)}], chat[c].turn + 1)]
  /\ UNCHANGED <<configTables, registry, loaded, repoOf, configReq, callLogs, logSession, chats,
                 configOps>>

\* _write_call_log; a failing write is swallowed, but nobody rolls the session
\* back, so that it stays unusable for the calls that share it.
WriteCallLog(c) ==
  /\ chat[c].pc \in {"ok", "failed"} /\ ~chat[c].logged
  /\ chat' = [chat EXCEPT ![c].logged = TRUE]
  /\ \/ /\ logSession = "fine"
        /\ callLogs' = [callLogs EXCEPT ![c] = IF chat[c].pc = "ok" THEN "success" ELSE "failed"]
        /\ UNCHANGED <<logSession, llmFaults>>
     \/ /\ IF logSession = "fine" THEN LlmFault ELSE UNCHANGED llmFaults
        /\ callLogs' = [callLogs EXCEPT ![c] = "lost"]
        /\ logSession' = "unusable"
  /\ UNCHANGED <<configTables, registry, loaded, repoOf, configReq, chats, configOps>>

LLMNext ==
  \/ \E c \in ConfigClients :
       \/ \E a \in Aliases : \/ \E row \in CreatedRows : CreateConfig(c, a, row)
                             \/ \E patch \in Patches : UpdateConfig(c, a, patch)
                             \/ DeleteConfig(c, a)
       \/ RefreshRegistry(c) \/ LookUp(c) \/ WriteConfig(c) \/ ConfigStatementFails(c)
       \/ ReadActive(c) \/ Rebuild(c) \/ ReadActiveFails(c)
  \/ \E c \in ChatClients :
       \/ \E alias \in Aliases : Generate(c, alias, {})
       \/ \E tags \in SUBSET Tags : Generate(c, NoAlias, tags)
       \/ CandidateAnswers(c) \/ CandidateFails(c) \/ WriteCallLog(c)

LLMSpec == LLMInit /\ [][LLMNext]_llmVars

-----------------------------------------------------------------------------
\* Whatever requests, refreshes and failures are mixed, the registry is never half
\* of one table and half of another, nor empty because a refresh has failed: once
\* loaded it holds the supported models of one state that the active rows had,
\* possibly an old one.
RegistryIsASnapshot == loaded => \E view \in views : registry = Registered(view)

\* A call fails only when every model that matched at its start was called and
\* raised, or had left the registry when its turn came.
FailsOnlyAfterAll ==
  \A c \in ChatClients : chat[c].pc = "failed" =>
    Range(chat[c].candidates) = chat[c].tried \cup chat[c].missing

\* A row differs from what one request after the other would have made of it only
\* if it has changed between the lookup and the write of a request: a PATCH of
\* another field, a second create or a delete in between are the only ways to lose
\* an update.
OnlyOverlapsLoseUpdates ==
  \A a \in Aliases \ raced :
    /\ Some(configs, a) <=> Some(serial, a)
    /\ Some(configs, a) => configs[a] = serial[a]
=============================================================================
