------------------------------ MODULE ConfigEdits ------------------------------
(***************************************************************************)
(* config.json under its editors: the endpoints of the launcher, the       *)
(* command line and the file's own loader.  Every request loads the whole  *)
(* file, changes its copy and saves the whole file; no lock is held in     *)
(* between, a later save overwrites an earlier one.  A request names a     *)
(* model by its position in the list the browser fetched some time ago.    *)
(***************************************************************************)
EXTENDS Naturals, Sequences, SequencesExt, FiniteSets

CONSTANTS
  Requests,    \* requests in flight at a time
  Names,       \* model names a user gives
  Legacy,      \* the name of the model the old providers section makes
  Local,       \* the CLI's LocalModel, which needs no entry
  None,        \* no default model
  Server,      \* an MCP server
  MaxAsked     \* requests (bound of the runs)

VARIABLES
  file,        \* config.json, with the memory of what its editors asked for
  page,        \* the configuration the browser shows
  held,        \* held[r]: the operation of a request, its input and its copy
  ids, asked,  \* models made, requests begun
  deleted,     \* the MCP server was deleted and not put again
  crossed      \* a save overwrote another's

ceVars == <<file, page, held, ids, asked, deleted, crossed>>

(* An entry keeps the identity of the model it was made for; key 0 is an    *)
(* empty api_key. Ghosts of a file: what its raw edits touched, whether     *)
(* discovery was turned off, the models whose update met another's entry.   *)
Entry(i, n, k) == [id |-> i, name |-> n, key |-> k]
DefaultConfig == [models |-> <<Entry(1, Legacy, 0)>>, providers |-> FALSE, name |-> None, model |-> None,
  tools |-> {"find_skills", "skills", "spawn", "subagent"}, servers |-> {}, running |-> {},
  pico |-> FALSE, token |-> FALSE, raw |-> {}, off |-> TRUE, mixed |-> {}]
FromProviders == [DefaultConfig EXCEPT !.models = <<>>, !.providers = TRUE]

(* The list the file has, or the one made of the old providers section for  *)
(* want of any: its model takes the name of the default model.              *)
GetModelName(c) == IF c.name # None THEN c.name ELSE c.model
ConvertProvidersToModelList(c) ==
  <<Entry(1, IF GetModelName(c) = None THEN Legacy ELSE GetModelName(c), 1)>>
LoadConfig(c) ==
  IF c.models = <<>> /\ c.providers THEN [c EXCEPT !.models = ConvertProvidersToModelList(c)] ELSE c

Init ==
  /\ file \in {DefaultConfig, FromProviders} \cup
       {[FromProviders EXCEPT !.model = n] : n \in Names}
  /\ page = LoadConfig(file)
  /\ held = [r \in Requests |-> [op |-> "idle", at |-> 0, id |-> 0, copy |-> DefaultConfig]]
  /\ ids = 1 /\ asked = 0 /\ deleted = FALSE /\ crossed = FALSE

-----------------------------------------------------------------------------
(* A request: it loads the file, and later saves a new one or refuses.      *)
Ops == {"add", "update", "delete", "default", "cli", "mcp", "discovery", "putServer", "deleteServer",
        "serverState", "tool", "put", "patch", "token", "pico", "login", "setup"}
Begins(r, op, at, id) ==
  /\ held[r].op = "idle"
  /\ asked < MaxAsked /\ asked' = asked + 1
  /\ held' = [held EXCEPT ![r] = [op |-> op, at |-> at, id |-> id,
       copy |-> IF op = "put" THEN page ELSE LoadConfig(file)]]
  /\ UNCHANGED <<file, page, ids, deleted, crossed>>
Asks(r) ==
  \/ \E op \in Ops \ {"update", "delete"} : Begins(r, op, 0, 0)
  \/ \E op \in {"update", "delete"}, i \in DOMAIN page.models : Begins(r, op, i, page.models[i].id)

Idle(r) == held' = [held EXCEPT ![r].op = "idle", ![r].copy = DefaultConfig]
Refuses(r) ==
  /\ held[r].op # "idle" /\ Idle(r)
  /\ UNCHANGED <<file, page, ids, asked, deleted, crossed>>

handleGetConfig ==
  /\ page # LoadConfig(file) /\ page' = LoadConfig(file)
  /\ UNCHANGED <<file, held, ids, asked, deleted, crossed>>

(* SaveConfig replaces the file in one step. *)
SaveConfig(r, op, configs) ==
  /\ held[r].op = op /\ Idle(r)
  /\ \E c \in configs : file' = c
  /\ crossed' = (crossed \/ held[r].copy # LoadConfig(file))
  /\ UNCHANGED <<page, asked>>
Saves(r, op, configs) == SaveConfig(r, op, configs) /\ UNCHANGED <<ids, deleted>>

-----------------------------------------------------------------------------
(* models.go *)
handleAddModel(r) ==
  /\ SaveConfig(r, "add", {[held[r].copy EXCEPT !.models = Append(@, Entry(ids + 1, n, k))] :
                             n \in Names, k \in {0, ids + 1}})
  /\ ids' = ids + 1 /\ UNCHANGED deleted

(* The entry at the index is replaced; an empty key is taken from it.       *)
Updated(c, i, id, n, k) ==
  [c EXCEPT !.models[i] = Entry(id, n, IF k = 0 THEN c.models[i].key ELSE k),
            !.raw = IF c.models[i].name = n THEN @ ELSE @ \cup {"default"},
            !.mixed = IF c.models[i].id = id THEN @ ELSE @ \cup {id}]
handleUpdateModel(r) ==
  LET c == held[r].copy  i == held[r].at  id == held[r].id
  IN  /\ i <= Len(c.models)
      /\ Saves(r, "update", {Updated(c, i, id, n, k) : n \in Names, k \in {0, id}})

NotCleared(default, name) == default
Cleared(default, name) == IF default = name THEN None ELSE default
handleDeleteModel(r) ==
  LET c == held[r].copy  i == held[r].at
  IN  /\ i <= Len(c.models)
      /\ Saves(r, "delete", {[c EXCEPT !.models = RemoveAt(@, i),
           !.name = Cleared(@, c.models[i].name), !.model = Cleared(@, c.models[i].name)]})

Listed(c, n) == \E i \in DOMAIN c.models : c.models[i].name = n
handleSetDefaultModel(r) ==
  LET c == held[r].copy
  IN  Saves(r, "default", {[c EXCEPT !.name = n] : n \in {m \in Names \cup {Legacy} : Listed(c, m)}})

(* picoclaw model: wants a key where the launcher does not.                 *)
setDefaultModel(r) ==
  LET c == held[r].copy
      usable == {Local} \cup {c.models[i].name : i \in {j \in DOMAIN c.models : c.models[j].key # 0}}
  IN  Saves(r, "cli", {[c EXCEPT !.name = n, !.model = None] : n \in usable})

(* A login makes an entry for its provider unless there is one, by whatever *)
(* name; that of the command line makes its own name the default, with a    *)
(* setup token only if there is none yet.                                   *)
WithEntry(c) == [c EXCEPT !.models = Append(@, Entry(ids + 1, Legacy, 0))]
Named(c) == [c EXCEPT !.name = Legacy, !.raw = IF Listed(c, Legacy) THEN @ ELSE @ \cup {"default"}]
authLogin(r) ==
  LET c == held[r].copy
      found == IF c.models = <<>> THEN {} ELSE {Named(c)}
  IN  /\ SaveConfig(r, "login", found \cup {Named(WithEntry(c))})
      /\ ids' = ids + 1 /\ UNCHANGED deleted
authLoginAnthropicSetupToken(r) ==
  LET c == WithEntry(held[r].copy)
  IN  /\ SaveConfig(r, "setup", {IF GetModelName(c) = None THEN Named(c) ELSE c})
      /\ ids' = ids + 1 /\ UNCHANGED deleted

-----------------------------------------------------------------------------
(* mcp.go *)
Switched(tools, name, enabled) == IF enabled THEN tools \cup {name} ELSE tools \ {name}
handleUpdateMCPState(r) ==
  Saves(r, "mcp", {[held[r].copy EXCEPT !.tools = Switched(@, "mcp", b)] : b \in BOOLEAN})

(* UseRegex is changed only if the body has it. *)
WithDiscovery(c, enabled, regex) ==
  [c EXCEPT !.tools = Switched(IF regex = "unset" THEN @ ELSE Switched(@, "regex", regex = "on"), "discovery", enabled),
            !.off = ~enabled]
handleUpdateMCPDiscovery(r) ==
  Saves(r, "discovery",
    {WithDiscovery(held[r].copy, b, regex) : b \in BOOLEAN, regex \in {"unset", "on", "off"}})

handleUpdateMCPServer(r) ==
  /\ SaveConfig(r, "putServer", {[held[r].copy EXCEPT !.servers = {Server},
                                    !.running = IF b THEN {Server} ELSE {}] : b \in BOOLEAN})
  /\ deleted' = FALSE /\ UNCHANGED ids

handleDeleteMCPServer(r) ==
  /\ Server \in held[r].copy.servers
  /\ SaveConfig(r, "deleteServer", {[held[r].copy EXCEPT !.servers = {}, !.running = {}]})
  /\ deleted' = TRUE /\ UNCHANGED ids

handleUpdateMCPServerState(r) ==
  /\ Server \in held[r].copy.servers
  /\ Saves(r, "serverState", {[held[r].copy EXCEPT !.running = IF b THEN {Server} ELSE {}] : b \in BOOLEAN})

-----------------------------------------------------------------------------
(* tools.go: what a tool needs is enabled with it, and disabled by nobody.  *)
Needs(tool) ==
  CASE tool = "find_skills" -> {"skills"}
    [] tool = "spawn" -> {"subagent"}
    [] tool = "regex" -> {"mcp", "discovery"}
    [] OTHER -> {}
applyToolState(c, tool, enabled) ==
  [c EXCEPT !.tools = Switched(@, tool, enabled) \cup (IF enabled THEN Needs(tool) ELSE {}),
            !.off = @ /\ ~(tool = "regex" /\ enabled)]
handleUpdateToolState(r) ==
  Saves(r, "tool", {applyToolState(held[r].copy, t, b) : t \in {"find_skills", "spawn", "regex"}, b \in BOOLEAN})

(* The status the page shows. *)
resolveDiscoveryToolSupport(c, methodEnabled) ==
  IF "mcp" \notin c.tools THEN "disabled"
  ELSE IF "discovery" \notin c.tools THEN "blocked"
  ELSE IF methodEnabled THEN "enabled" ELSE "disabled"
buildToolSupport(c, tool) ==
  IF tool = "regex" THEN resolveDiscoveryToolSupport(c, "regex" \in c.tools)
  ELSE IF tool \notin c.tools THEN "disabled"
  ELSE IF Needs(tool) \subseteq c.tools THEN "enabled" ELSE "blocked"

-----------------------------------------------------------------------------
(* config.go: the whole file, or a merge of single fields, as the user      *)
(* wrote it; and its validation.                                            *)
mergeMap(c, field) ==
  CASE field = "default" -> {[c EXCEPT !.name = n, !.raw = @ \cup {"default"}] : n \in Names}
    [] field = "skills" -> {[c EXCEPT !.tools = @ \ {"skills"}, !.raw = @ \cup {"skills"}]}
    [] field = "pico" -> {[c EXCEPT !.pico = TRUE]}
    [] field = "token" -> {[c EXCEPT !.token = FALSE]}
Raw(c) == UNION {mergeMap(c, f) : f \in {"default", "skills", "pico", "token"}}
validateConfig(c) == c.pico => c.token
handleUpdateConfig(r) == Saves(r, "put", {c \in Raw(held[r].copy) : validateConfig(c)})
handlePatchConfig(r) == Saves(r, "patch", {c \in Raw(held[r].copy) : validateConfig(c)})

(* pico.go *)
handleRegenPicoToken(r) == Saves(r, "token", {[held[r].copy EXCEPT !.token = TRUE]})
ensurePicoChannel(r) == Saves(r, "pico", {[held[r].copy EXCEPT !.pico = TRUE, !.token = TRUE]})

Next ==
  \/ handleGetConfig
  \/ \E r \in Requests :
       \/ Asks(r) \/ Refuses(r)
       \/ handleAddModel(r) \/ handleUpdateModel(r) \/ handleDeleteModel(r) \/ handleSetDefaultModel(r)
       \/ setDefaultModel(r) \/ authLogin(r) \/ authLoginAnthropicSetupToken(r)
       \/ handleUpdateMCPState(r) \/ handleUpdateMCPDiscovery(r) \/ handleUpdateMCPServer(r)
       \/ handleDeleteMCPServer(r) \/ handleUpdateMCPServerState(r)
       \/ handleUpdateToolState(r)
       \/ handleUpdateConfig(r) \/ handlePatchConfig(r) \/ handleRegenPicoToken(r) \/ ensurePicoChannel(r)

Spec == Init /\ [][Next]_ceVars
-----------------------------------------------------------------------------
TypeOK ==
  /\ ids \in 1..MaxAsked + 1 /\ asked \in 0..MaxAsked
  /\ \A r \in Requests : held[r].op \in Ops \cup {"idle"}
  /\ file.running \subseteq file.servers /\ deleted \in BOOLEAN

(* The default model is one of the list, in the file and after it is read:  *)
(* deleting a model clears it as the default, in both fields that name one. *)
(* The CLI's local model, a default written by hand, a rename, and a login   *)
(* that finds an entry of another name are the exceptions.                  *)
DefaultListed ==
  LET c == LoadConfig(file) IN
  GetModelName(c) \in {None, Local} \/ Listed(c, GetModelName(c)) \/ "default" \in c.raw

(* An API key stays with the model it was given for; only the update of a   *)
(* model that had moved in the list since the page was fetched takes over   *)
(* another one's key.                                                       *)
KeysStay ==
  \A i \in DOMAIN file.models :
    LET e == file.models[i] IN e.key \in {0, e.id} \/ e.id \in file.mixed

(* A tool is shown as blocked only where somebody turned off by hand what   *)
(* it needs, or discovery; Pico has a token whenever it is on.              *)
ToolsSupported ==
  /\ buildToolSupport(file, "find_skills") = "blocked" => "skills" \in file.raw
  /\ buildToolSupport(file, "spawn") # "blocked"
  /\ buildToolSupport(file, "regex") = "blocked" => file.off
  /\ file.pico => file.token

(* A deleted MCP server stays deleted, unless a save overwrote another.     *)
ServerStaysDeleted == deleted /\ ~crossed => file.servers = {}
=============================================================================
