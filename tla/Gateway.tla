------------------------------- MODULE Gateway -------------------------------
(***************************************************************************)
(* cmd/picoclaw/internal/gateway/helpers.go: the main goroutine starts the *)
(* services, then waits for a signal or a new configuration; a watcher     *)
(* polls the configuration file.  A reload stops every service, makes a    *)
(* new provider, swaps provider and configuration of the agent loop, and   *)
(* makes and starts every service again; any of these may fail.            *)
(*                                                                         *)
(* A configuration is the version of the file it was read from.  A start   *)
(* of the services is numbered (1 is the first), and so is the provider    *)
(* made for it.  Every provider is a StatefulProvider here: the others     *)
(* have nothing to close.                                                  *)
(***************************************************************************)
EXTENDS Naturals, Sequences

CONSTANT MaxEdits   \* bound of the model: edits of the configuration file

ASSUME GatewayAssumption == MaxEdits \in Nat

Services == {"cron", "heartbeat", "media", "channels", "devices"}

VARIABLES
  disk,        \* versions of the file: is each of them valid
  watch,       \* the watcher: where it is, what it has recorded, noticed, loaded
  pending,     \* configReloadChan, of capacity 1
  main,        \* the main goroutine: where it is, in which start, on which config
  agent,       \* the agent loop's configuration and provider
  providerRef, \* gatewayCmd's own variable `provider'
  open,        \* the providers that were made and not closed
  ref,         \* gatewayServices: of which start is each service, 0 is nil
  running,     \* the services that were started and not stopped
  queues,      \* of the workers of the referenced channel manager
  live,        \* the starts whose context is not cancelled
  cfgOf,       \* cfgOf[g]: the configuration start g was made from
  signaled,    \* is there a signal in sigChan
  lastReload,  \* history: how the last reload ended
  missed,      \* history: was there a change that cannot reach the agent any more
  cronFailed   \* history: did a restart end at the cron service

vars == <<disk, watch, pending, main, agent, providerRef, open, ref, running, queues,
          live, cfgOf, signaled, lastReload, missed, cronFailed>>
services == <<ref, running, queues, live, cfgOf>>
history  == <<lastReload, missed, cronFailed>>

Starting == {"cron", "manager", "channels", "devices"}
Places   == Starting \cup {"loop", "stop", "create", "swap", "close", "bye", "unwatch",
                           "exited", "crashed", "failed"}

(* Of starts and of providers. *)
Numbers == Nat \ {0}

TypeOK ==
  /\ disk \in Seq({"valid", "invalid"}) /\ Len(disk) <= MaxEdits + 1
  /\ watch \in [at : {"off", "idle", "debounce", "send", "stopped"},
                seen : Nat, noticed : Nat, loaded : Nat]
  /\ pending \in Seq(Nat) /\ Len(pending) <= 1
  /\ main \in [at : Places, gen : Numbers, next : Nat, old : Nat, adopted : BOOLEAN]
  /\ agent \in [cfg : Nat, provider : Numbers]
  /\ providerRef \in Numbers
  /\ open \subseteq Numbers
  /\ ref \in [Services -> Nat]
  /\ running \subseteq Services \X Numbers
  /\ queues \in {"none", "open", "closed"}
  /\ live \subseteq Numbers
  /\ cfgOf \in Seq(Nat) /\ Len(cfgOf) <= main.gen
  /\ signaled \in BOOLEAN
  /\ lastReload \in {"none", "ok", "error"}
  /\ missed \in BOOLEAN
  /\ cronFailed \in BOOLEAN

(* The configuration is loaded, the provider made, the agent loop made     *)
(* with both: setupAndStartServices begins.                                *)
Init ==
  /\ disk = <<"valid">>
  /\ watch = [at |-> "off", seen |-> 0, noticed |-> 0, loaded |-> 0]
  /\ pending = <<>>
  /\ main = [at |-> "cron", gen |-> 1, next |-> 1, old |-> 0, adopted |-> FALSE]
  /\ agent = [cfg |-> 1, provider |-> 1]
  /\ providerRef = 1
  /\ open = {1}
  /\ ref = [s \in Services |-> 0]
  /\ running = {}
  /\ queues = "none"
  /\ live = {}
  /\ cfgOf = <<>>
  /\ signaled = FALSE
  /\ lastReload = "none"
  /\ missed = FALSE
  /\ cronFailed = FALSE

Goto(place) == main' = [main EXCEPT !.at = place]

-----------------------------------------------------------------------------
(* setupAndStartServices, with a background context that nobody cancels,   *)
(* and restartServices, with one that is cancelled when it returns.        *)
Return(place, how) ==
  /\ Goto(IF main.gen = 1 /\ how = "error" THEN "failed" ELSE place)
  /\ live' = IF main.gen = 1 THEN live ELSE live \ {main.gen}
  /\ lastReload' = IF main.gen = 1 THEN lastReload
                   ELSE IF main.adopted THEN how ELSE "error"

(* cfg := al.GetConfig() *)
NewConfig == main.next
InForce   == agent.cfg

StartCron ==
  /\ main.at = "cron"
  /\ cfgOf' = Append(cfgOf, InForce)
  /\ ref' = [ref EXCEPT !["cron"] = main.gen]
  /\ \/ /\ running' = running \cup {<<"cron", main.gen>>}
        /\ live' = live \cup {main.gen}
        /\ Goto("manager")
        /\ UNCHANGED <<lastReload, cronFailed>>
     \/ /\ Return("loop", "error")
        /\ cronFailed' = TRUE
        /\ UNCHANGED running
  /\ UNCHANGED <<disk, watch, pending, agent, providerRef, open, queues, signaled, missed>>

(* The heartbeat and the media store, each of which a configuration may    *)
(* disable, and the new channel manager.                                   *)
StoppedManager == queues
FreshManager   == "none"

MakeManager ==
  /\ main.at = "manager"
  /\ ref' = [s \in Services |-> IF s \in {"heartbeat", "media", "channels"} THEN main.gen ELSE ref[s]]
  /\ \E on \in SUBSET {"heartbeat", "media"} :
        running' = (running \ {<<"media", ref["media"]>>}) \cup (on \X {main.gen})
  /\ queues' = FreshManager
  /\ Goto("channels")
  /\ UNCHANGED <<disk, watch, pending, agent, providerRef, open, live, cfgOf, signaled, history>>

(* StartAll fails if there is no channel at all; a channel that does not   *)
(* start has no worker.                                                    *)
StartAll ==
  /\ main.at = "channels"
  /\ \/ /\ running' = running \cup {<<"channels", main.gen>>}
        /\ queues' \in {"none", "open"}
        /\ Goto("devices")
        /\ UNCHANGED <<live, lastReload>>
     \/ /\ Return("loop", "error")
        /\ UNCHANGED <<running, queues>>
  /\ UNCHANGED <<disk, watch, pending, agent, providerRef, open, ref, cfgOf, signaled,
                 missed, cronFailed>>

(* The device service, which may be disabled; an error of its Start is     *)
(* logged, no more.                                                        *)
StartDevices ==
  /\ main.at = "devices"
  /\ ref' = [ref EXCEPT !["devices"] = main.gen]
  /\ running' \in {running, running \cup {<<"devices", main.gen>>}}
  /\ Return("loop", "ok")
  /\ UNCHANGED <<disk, watch, pending, agent, providerRef, open, queues, cfgOf, signaled,
                 missed, cronFailed>>

-----------------------------------------------------------------------------
(* The main loop's select. *)
TakeConfig ==
  /\ main.at = "loop"
  /\ pending # <<>>
  /\ pending' = <<>>
  /\ main' = [at |-> "stop", gen |-> main.gen + 1, next |-> Head(pending), old |-> main.old,
              adopted |-> FALSE]
  /\ UNCHANGED <<disk, watch, agent, providerRef, open, services, signaled, history>>

(* shutdownGateway closes the provider before it stops the services. *)
TakeSignal ==
  /\ main.at = "loop"
  /\ signaled
  /\ open' = open \ {providerRef}
  /\ signaled' = FALSE
  /\ Goto("bye")
  /\ UNCHANGED <<disk, watch, pending, agent, providerRef, services, history>>

(* stopAndCleanupServices.  StopAll closes the queues of its workers again *)
(* if they are closed already, which is a panic; all other stops may be    *)
(* repeated.                                                               *)
AllButDevices == Services \ {"devices"}
Cleaned       == Services

StopServices ==
  /\ main.at \in {"stop", "bye"}
  /\ IF queues = "closed"
     THEN Goto("crashed") /\ UNCHANGED <<running, queues>>
     ELSE /\ running' = running \ {<<s, ref[s]>> : s \in Cleaned}
          /\ queues' = IF queues = "open" THEN "closed" ELSE "none"
          /\ Goto(IF main.at = "stop" THEN "create" ELSE "unwatch")
  /\ UNCHANGED <<disk, watch, pending, agent, providerRef, open, ref, live, cfgOf, signaled, history>>

(* providers.CreateProvider.  On an error the services are started again   *)
(* from what is in force.                                                  *)
CreateProvider ==
  /\ main.at = "create"
  /\ \/ /\ open' = open \cup {main.gen}
        /\ Goto("swap")
        /\ UNCHANGED missed
     \/ /\ Goto("cron")
        /\ missed' = TRUE
        /\ UNCHANGED open
  /\ UNCHANGED <<disk, watch, pending, agent, providerRef, services, signaled,
                 lastReload, cronFailed>>

(* ReloadProviderAndConfig: the swap under al.mu, or an error (a panic in  *)
(* NewAgentRegistry, or 30 seconds) and the new provider is closed.        *)
Swap ==
  /\ main.at = "swap"
  /\ \/ /\ agent' = [cfg |-> main.next, provider |-> main.gen]
        /\ main' = [main EXCEPT !.at = "close", !.old = agent.provider, !.adopted = TRUE]
        /\ UNCHANGED <<open, missed>>
     \/ /\ open' = open \ {main.gen}
        /\ Goto("cron")
        /\ missed' = TRUE
        /\ UNCHANGED agent
  /\ UNCHANGED <<disk, watch, pending, providerRef, services, signaled, lastReload, cronFailed>>

(* Its second half, 100 ms later, and then *providerRef = newProvider. *)
NotAdopted == providerRef
Adopted    == main.gen

CloseOld ==
  /\ main.at = "close"
  /\ open' = open \ {main.old}
  /\ providerRef' = Adopted
  /\ Goto("cron")
  /\ UNCHANGED <<disk, watch, pending, agent, services, signaled, history>>

(* The deferred stopWatch() waits for the watcher. *)
Exit ==
  /\ main.at = "unwatch"
  /\ watch.at \in {"off", "stopped"}
  /\ Goto("exited")
  /\ UNCHANGED <<disk, watch, pending, agent, providerRef, open, services, signaled, history>>

-----------------------------------------------------------------------------
(* The watcher records what the file is like when it begins to run.        *)
Started == main.gen > 1 \/ main.at \notin Starting \cup {"failed"}

WatchInit ==
  /\ watch.at = "off"
  /\ Started
  /\ watch' = [watch EXCEPT !.at = "idle", !.seen = Len(disk)]
  /\ missed' = (missed \/ Len(disk) # 1)
  /\ UNCHANGED <<disk, pending, main, agent, providerRef, open, services, signaled,
                 lastReload, cronFailed>>

(* A tick that finds the file changed. *)
WatchNotice ==
  /\ watch.at = "idle"
  /\ watch.seen # Len(disk)
  /\ watch' = [watch EXCEPT !.at = "debounce", !.noticed = Len(disk)]
  /\ UNCHANGED <<disk, pending, main, agent, providerRef, open, services, signaled, history>>

(* LoadConfig and ValidateModelList, half a second later. *)
WatchLoad ==
  /\ watch.at = "debounce"
  /\ watch' = IF disk[Len(disk)] = "valid"
              THEN [watch EXCEPT !.at = "send", !.loaded = Len(disk)]
              ELSE [watch EXCEPT !.at = "idle"]
  /\ UNCHANGED <<disk, pending, main, agent, providerRef, open, services, signaled, history>>

(* The file's state as of the tick becomes the last known one, and the     *)
(* configuration is sent unless one is waiting: then it is dropped.        *)
AsOfNow  == Len(disk)
Recorded == watch.noticed

WaitsForRoom == pending = <<>>
NeverWaits   == TRUE
Offered      == IF pending = <<>> THEN <<watch.loaded>> ELSE pending

WatchSend ==
  /\ watch.at = "send"
  /\ NeverWaits
  /\ watch' = [watch EXCEPT !.at = "idle", !.seen = Recorded]
  /\ pending' = Offered
  /\ missed' = (missed \/ pending # <<>>)
  /\ UNCHANGED <<disk, main, agent, providerRef, open, services, signaled,
                 lastReload, cronFailed>>

WatchStop ==
  /\ watch.at = "idle"
  /\ main.at = "unwatch"
  /\ watch' = [watch EXCEPT !.at = "stopped"]
  /\ UNCHANGED <<disk, pending, main, agent, providerRef, open, services, signaled, history>>

-----------------------------------------------------------------------------
(* Environment: somebody edits the file, or interrupts the process (before *)
(* signal.Notify that simply kills it).                                    *)
Edit(content) ==
  /\ Len(disk) <= MaxEdits
  /\ disk' = Append(disk, content)
  /\ UNCHANGED <<watch, pending, main, agent, providerRef, open, services, signaled, history>>

Interrupt ==
  /\ Started
  /\ signaled' = TRUE
  /\ UNCHANGED <<disk, watch, pending, main, agent, providerRef, open, services, history>>

-----------------------------------------------------------------------------
Reload  == StopServices \/ CreateProvider \/ Swap \/ CloseOld
Restart == StartCron \/ MakeManager \/ StartAll \/ StartDevices
Main    == TakeConfig \/ TakeSignal \/ Reload \/ Restart \/ Exit
Watcher == WatchInit \/ WatchNotice \/ WatchLoad \/ WatchSend \/ WatchStop

Ended == main.at \in {"exited", "crashed", "failed"}

Next ==
  /\ ~Ended
  /\ \/ Main
     \/ Watcher
     \/ \E content \in {"valid", "invalid"} : Edit(content)
     \/ Interrupt

Spec == Init /\ [][Next]_vars

(* Both goroutines run; a signal is taken sooner or later when a select    *)
(* meets it again and again; the ticker fires and a select that is woken   *)
(* by it again and again also takes the closed `stop'.                     *)
FairSpec ==
  /\ Spec
  /\ WF_vars(Main /\ ~Ended)
  /\ SF_vars(TakeSignal)
  /\ WF_vars((WatchInit \/ WatchNotice \/ WatchLoad \/ WatchSend) /\ ~Ended)
  /\ SF_vars(WatchStop)

-----------------------------------------------------------------------------
(* Every service that runs is one that stopAndCleanupServices reaches, so  *)
(* there is at most one of each, however many reloads failed half way; and *)
(* nothing runs when the process has shut down.                            *)
NoOrphan ==
  /\ \A p \in running : ref[p[1]] = p[2]
  /\ main.at \in {"unwatch", "exited"} => running = {}

(* Between reloads, failed ones included, what runs was made from the      *)
(* configuration the agent loop works with.                                *)
OnConfigInForce ==
  main.at = "loop" => \A p \in running : cfgOf[p[2]] = agent.cfg

(* The agent's provider is open until shutdown, between reloads no other   *)
(* is, and shutdown leaves none.                                           *)
ProvidersAccounted ==
  /\ main.at \notin {"bye", "unwatch", "exited", "crashed"} => agent.provider \in open
  /\ main.at = "loop" => open = {agent.provider}
  /\ main.at \in {"unwatch", "exited"} => open = {}

(* Both: whatever reloads failed and wherever, no service and no provider  *)
(* that was replaced goes on, and none that is needed was stopped.         *)
NothingLeftBehind == NoOrphan /\ ProvidersAccounted

(* No manager is stopped twice, unless a restart ended at the cron service *)
(* and left the stopped manager in place.                                  *)
PanicsOnlyAfterCron == main.at = "crashed" => cronFailed

(* An edit of the configuration file that the watcher could load is in     *)
(* force, unless it came during startup, its reload failed, or it was      *)
(* dropped for an older one that still waited.                             *)
NoSilentMiss ==
  /\ main.at = "loop"
  /\ pending = <<>>
  /\ watch.at = "idle"
  /\ watch.seen = Len(disk)
  /\ ~missed
  => agent.cfg = Len(disk)

(* A signal ends the process, whatever reload it finds under way and       *)
(* whatever the watcher is waiting for.                                    *)
SignalEnds == signaled ~> Ended

(* helpers.go:389: the restart has "an independent context [...] This      *)
(* prevents cancellation from the main loop context during reload", and    *)
(* after it the services are "reloaded successfully" (:379).  Refuted: the *)
(* context is cancelled when restartServices returns, and with it every    *)
(* dispatcher, worker and channel.                                         *)
DeliversAfterReload ==
  main.at = "loop" /\ lastReload = "ok" /\ <<"channels", ref["channels"]>> \in running =>
    ref["channels"] \in live
=============================================================================
