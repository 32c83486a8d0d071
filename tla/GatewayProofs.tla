---------------------------- MODULE GatewayProofs ----------------------------
(***************************************************************************)
(* Theorems about Gateway: its safety invariants, for any number of edits  *)
(* of the configuration file.                                              *)
(***************************************************************************)
EXTENDS Gateway, SequenceTheorems, TLAPS

(* The records of the type invariant. *)
MainRecords  == [at : Places, gen : Numbers, next : Nat, old : Nat, adopted : BOOLEAN]
WatchRecords == [at : {"off", "idle", "debounce", "send", "stopped"},
                 seen : Nat, noticed : Nat, loaded : Nat]

(* What runs belongs to the last start, and a start gets its services in   *)
(* order.                                                                  *)
Stage ==
  /\ \A p \in running : ref[p[1]] = p[2]
  /\ main.at \in {"create", "swap", "close", "cron", "unwatch", "exited"} => running = {}
  /\ main.at = "manager"  => \A p \in running : p[1] = "cron"
  /\ main.at = "channels" => /\ \A p \in running : p[1] \in {"cron", "heartbeat", "media"}
                             /\ ref["channels"] = main.gen
  /\ main.at = "devices"  => \A p \in running : p[1] # "devices"

(* The queues are closed between a stop and the next manager.              *)
QueueStage ==
  /\ queues = "closed" /\ main.at \in {"loop", "stop", "bye"} => cronFailed
  /\ main.at = "crashed" => cronFailed
  /\ main.at \in {"channels", "devices"} => queues # "closed"

(* Which providers are open, at each place of the main goroutine.          *)
Providers ==
  /\ agent.provider <= main.gen
  /\ main.at \in {"stop", "create", "swap"} => agent.provider < main.gen
  /\ main.at # "close" => providerRef = agent.provider
  /\ main.at = "close" => /\ agent.provider = main.gen
                          /\ main.old < main.gen
                          /\ open = {main.old, main.gen}
  /\ main.at = "swap"  => open = {agent.provider, main.gen}
  /\ main.at \in Starting \cup {"loop", "stop", "create", "failed"} => open = {agent.provider}
  /\ main.at \in {"bye", "unwatch", "exited"} => open = {}

(* The numbers of what runs, and their configurations.                     *)
Configs ==
  /\ main.at \in {"manager", "channels", "devices", "loop"} =>
       /\ Len(cfgOf) = main.gen
       /\ cfgOf[main.gen] = agent.cfg
       /\ \A p \in running : p[2] = main.gen
  /\ main.at \in {"stop", "create", "swap", "close", "cron"} => Len(cfgOf) = main.gen - 1

(* The newest configuration on its way to the agent.                       *)
Newest == IF pending # <<>> THEN pending[1]
          ELSE IF main.at \in {"stop", "create", "swap"} THEN main.next
          ELSE agent.cfg

(* The watcher never records more than it has handed over.                 *)
Watched ==
  /\ watch.at = "off" => /\ pending = <<>>
                         /\ agent.cfg = 1
                         /\ main.at \notin {"stop", "create", "swap"}
  /\ watch.at \in {"debounce", "send"} => watch.noticed <= Len(disk)
  /\ watch.at = "send" => watch.noticed <= watch.loaded /\ watch.loaded <= Len(disk)
  /\ watch.at # "off" /\ ~missed /\ main.at # "crashed" =>
       watch.seen <= Newest /\ Newest <= Len(disk)

(* The inductive invariant.                                               *)
IInv == TypeOK /\ Stage /\ QueueStage /\ Providers /\ Configs /\ Watched
-----------------------------------------------------------------------------
(* Every place the code goes to is one. *)
LEMMA PlaceNames ==
  {"cron", "manager", "channels", "devices", "loop", "stop", "create", "swap", "close", "bye",
   "unwatch", "exited", "crashed", "failed"} \subseteq Places
  BY DEF Places, Starting

(* Goto changes the place and nothing else of the main goroutine. *)
LEMMA GotoKeeps ==
  \A place \in Places : TypeOK /\ Goto(place) =>
     /\ main' \in MainRecords
     /\ main'.at = place
     /\ main'.gen = main.gen
     /\ main'.next = main.next
     /\ main'.old = main.old
     /\ main'.adopted = main.adopted
  BY DEF TypeOK, Goto, MainRecords

(* Where a start of the services returns to, and with what. *)
LEMMA ReturnGoes ==
  \A how \in {"ok", "error"} : TypeOK /\ Return("loop", how) =>
     /\ Goto("loop") \/ (Goto("failed") /\ main.gen = 1 /\ how = "error")
     /\ live' \subseteq Numbers
     /\ lastReload' \in {"none", "ok", "error"}
  BY DEF TypeOK, Return

(* The types that Goto and Return keep. *)
LEMMA GotoMain ==
  \A place \in Places :
     TypeOK /\ Goto(place) => main' \in MainRecords /\ main'.gen = main.gen
  BY GotoKeeps

(* The same of Return. *)
LEMMA ReturnMain ==
  \A how \in {"ok", "error"} :
     TypeOK /\ Return("loop", how) => main' \in MainRecords /\ main'.gen = main.gen
  BY GotoMain, ReturnGoes, PlaceNames

(* Records of the watcher stay records of the watcher. *)
LEMMA WatchTypes ==
  \A w \in WatchRecords, place \in {"off", "idle", "debounce", "send", "stopped"}, n \in Nat :
     /\ [w EXCEPT !.at = place] \in WatchRecords
     /\ [w EXCEPT !.at = place, !.seen = n] \in WatchRecords
     /\ [w EXCEPT !.at = place, !.noticed = n] \in WatchRecords
     /\ [w EXCEPT !.at = place, !.loaded = n] \in WatchRecords
<1> SUFFICES ASSUME NEW w \in WatchRecords,
                    NEW place \in {"off", "idle", "debounce", "send", "stopped"},
                    NEW n \in Nat
             PROVE /\ [w EXCEPT !.at = place] \in WatchRecords
                   /\ [w EXCEPT !.at = place, !.seen = n] \in WatchRecords
                   /\ [w EXCEPT !.at = place, !.noticed = n] \in WatchRecords
                   /\ [w EXCEPT !.at = place, !.loaded = n] \in WatchRecords
  OBVIOUS
<1>1. [w EXCEPT !.at = place] \in WatchRecords
  BY DEF WatchRecords
<1>2. [w EXCEPT !.at = place, !.seen = n] \in WatchRecords
  BY DEF WatchRecords
<1>3. [w EXCEPT !.at = place, !.noticed = n] \in WatchRecords
  BY DEF WatchRecords
<1>4. [w EXCEPT !.at = place, !.loaded = n] \in WatchRecords
  BY DEF WatchRecords
<1> QED
  BY <1>1, <1>2, <1>3, <1>4

(* What the type invariant says of the two goroutines. *)
LEMMA Goroutines ==
  TypeOK => /\ watch \in WatchRecords
            /\ main \in MainRecords
            /\ main.gen \in Nat
            /\ main.gen > 0
            /\ Len(disk) \in Nat
  BY DEF TypeOK, WatchRecords, MainRecords, Numbers

(* Nothing but the main goroutine touches what it works on. *)
LEMMA Bystanders ==
  Watcher \/ Interrupt \/ (\E content \in {"valid", "invalid"} : Edit(content)) \/ UNCHANGED vars =>
    UNCHANGED <<main, agent, providerRef, open, services, cronFailed>>
<1>1. Watcher => UNCHANGED <<main, agent, providerRef, open, services, cronFailed>>
  BY DEF Watcher, WatchInit, WatchNotice, WatchLoad, WatchSend, WatchStop, history
<1>2. Interrupt => UNCHANGED <<main, agent, providerRef, open, services, cronFailed>>
  BY DEF Interrupt, history
<1>3. \A content \in {"valid", "invalid"} :
        Edit(content) => UNCHANGED <<main, agent, providerRef, open, services, cronFailed>>
  BY DEF Edit, history
<1>4. UNCHANGED vars => UNCHANGED <<main, agent, providerRef, open, services, cronFailed>>
  BY DEF vars, services
<1> QED
  BY <1>1, <1>2, <1>3, <1>4

(* Every step keeps the types.                                             *)
LEMMA NextType == IInv /\ [Next]_vars => TypeOK'
<1> SUFFICES ASSUME IInv, [Next]_vars PROVE TypeOK'
  OBVIOUS
<1> USE DEF IInv
<1>1. CASE StartCron
  <2>1. main' \in MainRecords /\ main'.gen \in Nat /\ main'.gen >= main.gen
    BY <1>1, GotoMain, ReturnMain, PlaceNames, Goroutines DEF StartCron
  <2>2. watch' \in WatchRecords
    BY <1>1, Goroutines DEF StartCron
  <2>3. Len(pending') <= 1 /\ pending' \in Seq(Nat)
    BY <1>1, Goroutines DEF StartCron, TypeOK, WatchRecords
  <2>4. running' \subseteq Services \X Numbers /\ ref' \in [Services -> Nat]
    BY <1>1, SMTT(30) DEF StartCron, TypeOK, services, Services, Numbers
  <2>5. cfgOf' \in Seq(Nat) /\ Len(cfgOf') <= main'.gen
    BY <1>1, <2>1, Goroutines DEF StartCron, InForce, Configs, TypeOK
  <2>6. /\ agent' \in [cfg : Nat, provider : Numbers] /\ providerRef' \in Numbers
        /\ open' \subseteq Numbers /\ live' \subseteq Numbers
    BY <1>1, ReturnGoes DEF StartCron, TypeOK, services, Numbers
  <2>7. /\ disk' \in Seq({"valid", "invalid"}) /\ Len(disk') <= MaxEdits + 1
        /\ queues' \in {"none", "open", "closed"} /\ signaled' \in BOOLEAN
        /\ lastReload' \in {"none", "ok", "error"}
        /\ missed' \in BOOLEAN /\ cronFailed' \in BOOLEAN
    BY <1>1, ReturnGoes DEF StartCron, TypeOK, services, history
  <2> QED
    BY <2>1, <2>2, <2>3, <2>4, <2>5, <2>6, <2>7 DEF TypeOK, MainRecords, WatchRecords
<1>2. CASE MakeManager
  BY <1>2, GatewayAssumption DEF MakeManager, Goto, FreshManager, services, history, TypeOK,
     Services, Places, Starting, Numbers
<1>3. CASE StartAll
  <2>1. main' \in MainRecords /\ main'.gen \in Nat /\ main'.gen >= main.gen
    BY <1>3, GotoMain, ReturnMain, PlaceNames, Goroutines DEF StartAll
  <2>2. watch' \in WatchRecords
    BY <1>3, Goroutines DEF StartAll
  <2>3. Len(pending') <= 1 /\ pending' \in Seq(Nat)
    BY <1>3, Goroutines DEF StartAll, TypeOK, WatchRecords
  <2>4. running' \subseteq Services \X Numbers /\ ref' \in [Services -> Nat]
    BY <1>3 DEF StartAll, TypeOK, services, Services, Numbers
  <2>5. cfgOf' \in Seq(Nat) /\ Len(cfgOf') <= main'.gen
    BY <1>3, <2>1, Goroutines DEF StartAll, TypeOK, services
  <2>6. /\ agent' \in [cfg : Nat, provider : Numbers] /\ providerRef' \in Numbers
        /\ open' \subseteq Numbers /\ live' \subseteq Numbers
    BY <1>3, ReturnGoes DEF StartAll, TypeOK, services, Numbers
  <2>7. /\ disk' \in Seq({"valid", "invalid"}) /\ Len(disk') <= MaxEdits + 1
        /\ queues' \in {"none", "open", "closed"} /\ signaled' \in BOOLEAN
        /\ lastReload' \in {"none", "ok", "error"}
        /\ missed' \in BOOLEAN /\ cronFailed' \in BOOLEAN
    BY <1>3, ReturnGoes DEF StartAll, TypeOK, services, history
  <2> QED
    BY <2>1, <2>2, <2>3, <2>4, <2>5, <2>6, <2>7 DEF TypeOK, MainRecords, WatchRecords
<1>4. CASE StartDevices
  <2>1. main' \in MainRecords /\ main'.gen \in Nat /\ main'.gen >= main.gen
    BY <1>4, GotoMain, ReturnMain, PlaceNames, Goroutines DEF StartDevices
  <2>2. watch' \in WatchRecords
    BY <1>4, Goroutines DEF StartDevices
  <2>3. Len(pending') <= 1 /\ pending' \in Seq(Nat)
    BY <1>4, Goroutines DEF StartDevices, TypeOK, WatchRecords
  <2>4. running' \subseteq Services \X Numbers /\ ref' \in [Services -> Nat]
    BY <1>4, SMTT(30) DEF StartDevices, TypeOK, services, Services, Numbers
  <2>5. cfgOf' \in Seq(Nat) /\ Len(cfgOf') <= main'.gen
    BY <1>4, <2>1, Goroutines DEF StartDevices, TypeOK, services
  <2>6. /\ agent' \in [cfg : Nat, provider : Numbers] /\ providerRef' \in Numbers
        /\ open' \subseteq Numbers /\ live' \subseteq Numbers
    BY <1>4, ReturnGoes DEF StartDevices, TypeOK, services, Numbers
  <2>7. /\ disk' \in Seq({"valid", "invalid"}) /\ Len(disk') <= MaxEdits + 1
        /\ queues' \in {"none", "open", "closed"} /\ signaled' \in BOOLEAN
        /\ lastReload' \in {"none", "ok", "error"}
        /\ missed' \in BOOLEAN /\ cronFailed' \in BOOLEAN
    BY <1>4, ReturnGoes DEF StartDevices, TypeOK, services, history
  <2> QED
    BY <2>1, <2>2, <2>3, <2>4, <2>5, <2>6, <2>7 DEF TypeOK, MainRecords, WatchRecords
<1>5. CASE TakeConfig
  <2>1. main' \in MainRecords /\ main'.gen \in Nat /\ main'.gen >= main.gen
    <3>1. Head(pending) \in Nat
      BY <1>5 DEF TakeConfig, TypeOK
    <3>2. main.gen \in Nat /\ main.gen + 1 \in Numbers /\ main.old \in Nat
      BY DEF TypeOK, Numbers
    <3> QED
      BY <1>5, <3>1, <3>2, PlaceNames DEF TakeConfig, MainRecords
  <2>2. watch' \in WatchRecords
    BY <1>5, Goroutines DEF TakeConfig
  <2>3. Len(pending') <= 1 /\ pending' \in Seq(Nat)
    BY <1>5, Goroutines DEF TakeConfig, TypeOK, WatchRecords
  <2>4. running' \subseteq Services \X Numbers /\ ref' \in [Services -> Nat]
    BY <1>5 DEF TakeConfig, TypeOK, services, Services, Numbers
  <2>5. cfgOf' \in Seq(Nat) /\ Len(cfgOf') <= main'.gen
    BY <1>5, <2>1, Goroutines, SMTT(30) DEF TakeConfig, TypeOK, services
  <2>6. /\ agent' \in [cfg : Nat, provider : Numbers] /\ providerRef' \in Numbers
        /\ open' \subseteq Numbers /\ live' \subseteq Numbers
    BY <1>5 DEF TakeConfig, TypeOK, services, Numbers
  <2>7. /\ disk' \in Seq({"valid", "invalid"}) /\ Len(disk') <= MaxEdits + 1
        /\ queues' \in {"none", "open", "closed"} /\ signaled' \in BOOLEAN
        /\ lastReload' \in {"none", "ok", "error"}
        /\ missed' \in BOOLEAN /\ cronFailed' \in BOOLEAN
    BY <1>5 DEF TakeConfig, TypeOK, services, history
  <2> QED
    BY <2>1, <2>2, <2>3, <2>4, <2>5, <2>6, <2>7 DEF TypeOK, MainRecords, WatchRecords
<1>6. CASE TakeSignal
  BY <1>6, GatewayAssumption DEF TakeSignal, Goto, services, history, TypeOK, Services, Places,
     Starting, Numbers
<1>7. CASE StopServices
  <2>1. main' \in MainRecords /\ main'.gen \in Nat /\ main'.gen >= main.gen
    BY <1>7, GotoMain, ReturnMain, PlaceNames, Goroutines DEF StopServices
  <2>2. watch' \in WatchRecords
    BY <1>7, Goroutines DEF StopServices
  <2>3. Len(pending') <= 1 /\ pending' \in Seq(Nat)
    BY <1>7, Goroutines DEF StopServices, TypeOK, WatchRecords
  <2>4. running' \subseteq Services \X Numbers /\ ref' \in [Services -> Nat]
    BY <1>7 DEF StopServices, TypeOK, services, Services, Numbers, Cleaned
  <2>5. cfgOf' \in Seq(Nat) /\ Len(cfgOf') <= main'.gen
    <3>1. cfgOf' = cfgOf
      BY <1>7 DEF StopServices, services
    <3>2. cfgOf \in Seq(Nat) /\ Len(cfgOf) \in Nat /\ Len(cfgOf) <= main.gen
      BY DEF TypeOK
    <3> QED BY <2>1, <3>1, <3>2, Goroutines
  <2>6. /\ agent' \in [cfg : Nat, provider : Numbers] /\ providerRef' \in Numbers
        /\ open' \subseteq Numbers /\ live' \subseteq Numbers
    BY <1>7 DEF StopServices, TypeOK, services, Numbers
  <2>7. /\ disk' \in Seq({"valid", "invalid"}) /\ Len(disk') <= MaxEdits + 1
        /\ queues' \in {"none", "open", "closed"} /\ signaled' \in BOOLEAN
        /\ lastReload' \in {"none", "ok", "error"}
        /\ missed' \in BOOLEAN /\ cronFailed' \in BOOLEAN
    BY <1>7 DEF StopServices, TypeOK, services, history
  <2> QED
    BY <2>1, <2>2, <2>3, <2>4, <2>5, <2>6, <2>7 DEF TypeOK, MainRecords, WatchRecords
<1>8. CASE CreateProvider
  <2>1. main' \in MainRecords /\ main'.gen \in Nat /\ main'.gen >= main.gen
    BY <1>8, GotoMain, ReturnMain, PlaceNames, Goroutines DEF CreateProvider
  <2>2. watch' \in WatchRecords
    BY <1>8, Goroutines DEF CreateProvider
  <2>3. Len(pending') <= 1 /\ pending' \in Seq(Nat)
    BY <1>8, Goroutines DEF CreateProvider, TypeOK, WatchRecords
  <2>4. running' \subseteq Services \X Numbers /\ ref' \in [Services -> Nat]
    BY <1>8 DEF CreateProvider, TypeOK, services, Services, Numbers
  <2>5. cfgOf' \in Seq(Nat) /\ Len(cfgOf') <= main'.gen
    <3>1. cfgOf' = cfgOf
      BY <1>8 DEF CreateProvider, services
    <3>2. cfgOf \in Seq(Nat) /\ Len(cfgOf) \in Nat /\ Len(cfgOf) <= main.gen
      BY DEF TypeOK
    <3> QED BY <2>1, <3>1, <3>2, Goroutines
  <2>6. /\ agent' \in [cfg : Nat, provider : Numbers] /\ providerRef' \in Numbers
        /\ open' \subseteq Numbers /\ live' \subseteq Numbers
    BY <1>8 DEF CreateProvider, TypeOK, services, Numbers
  <2>7. /\ disk' \in Seq({"valid", "invalid"}) /\ Len(disk') <= MaxEdits + 1
        /\ queues' \in {"none", "open", "closed"} /\ signaled' \in BOOLEAN
        /\ lastReload' \in {"none", "ok", "error"}
        /\ missed' \in BOOLEAN /\ cronFailed' \in BOOLEAN
    BY <1>8 DEF CreateProvider, TypeOK, services, history
  <2> QED
    BY <2>1, <2>2, <2>3, <2>4, <2>5, <2>6, <2>7 DEF TypeOK, MainRecords, WatchRecords
<1>9. CASE Swap
  <2>1. main' \in MainRecords /\ main'.gen \in Nat /\ main'.gen >= main.gen
    <3>1. CASE main' = [main EXCEPT !.at = "close", !.old = agent.provider, !.adopted = TRUE]
      <4>1. main \in MainRecords /\ agent.provider \in Nat /\ "close" \in Places
        BY Goroutines, PlaceNames DEF TypeOK, Numbers
      <4>2. main' \in MainRecords /\ main'.gen = main.gen
        BY <3>1, <4>1 DEF MainRecords
      <4> QED
        BY <4>2, Goroutines
    <3>2. CASE Goto("cron")
      BY <3>2, GotoMain, Goroutines, PlaceNames
    <3> QED
      BY <1>9, <3>1, <3>2 DEF Swap
  <2>2. watch' \in WatchRecords
    BY <1>9, Goroutines DEF Swap
  <2>3. Len(pending') <= 1 /\ pending' \in Seq(Nat)
    BY <1>9, Goroutines DEF Swap, TypeOK, WatchRecords
  <2>4. running' \subseteq Services \X Numbers /\ ref' \in [Services -> Nat]
    BY <1>9 DEF Swap, TypeOK, services, Services, Numbers
  <2>5. cfgOf' \in Seq(Nat) /\ Len(cfgOf') <= main'.gen
    <3>1. cfgOf' = cfgOf
      BY <1>9 DEF Swap, services
    <3>2. cfgOf \in Seq(Nat) /\ Len(cfgOf) \in Nat /\ Len(cfgOf) <= main.gen
      BY DEF TypeOK
    <3> QED BY <2>1, <3>1, <3>2, Goroutines
  <2>6. /\ agent' \in [cfg : Nat, provider : Numbers] /\ providerRef' \in Numbers
        /\ open' \subseteq Numbers /\ live' \subseteq Numbers
    BY <1>9 DEF Swap, TypeOK, services, Numbers
  <2>7. /\ disk' \in Seq({"valid", "invalid"}) /\ Len(disk') <= MaxEdits + 1
        /\ queues' \in {"none", "open", "closed"} /\ signaled' \in BOOLEAN
        /\ lastReload' \in {"none", "ok", "error"}
        /\ missed' \in BOOLEAN /\ cronFailed' \in BOOLEAN
    BY <1>9 DEF Swap, TypeOK, services, history
  <2> QED
    BY <2>1, <2>2, <2>3, <2>4, <2>5, <2>6, <2>7 DEF TypeOK, MainRecords, WatchRecords
<1>10. CASE CloseOld
  BY <1>10, GatewayAssumption DEF CloseOld, Goto, Adopted, services, history, TypeOK, Services,
     Places, Starting, Numbers
<1>11. CASE Exit
  BY <1>11, GatewayAssumption DEF Exit, Goto, services, history, TypeOK, Services, Places,
     Starting, Numbers
<1>12. CASE WatchInit
  <2>1. watch' \in WatchRecords
    <3>1. watch' = [watch EXCEPT !.at = "idle", !.seen = Len(disk)]
      BY <1>12 DEF WatchInit
    <3> QED
      BY <3>1, WatchTypes, Goroutines
  <2> QED
    BY <1>12, <2>1 DEF WatchInit, services, history, TypeOK, WatchRecords
<1>13. CASE WatchNotice
  <2>1. watch' \in WatchRecords
    BY <1>13, WatchTypes, Goroutines DEF WatchNotice
  <2> QED
    BY <1>13, <2>1 DEF WatchNotice, services, history, TypeOK, WatchRecords
<1>14. CASE WatchLoad
  <2>1. watch' \in WatchRecords
    BY <1>14, WatchTypes, Goroutines DEF WatchLoad
  <2> QED
    BY <1>14, <2>1 DEF WatchLoad, services, history, TypeOK, WatchRecords
<1>15. CASE WatchSend
  <2>1. watch' \in WatchRecords
    <3>1. watch.noticed \in Nat
      BY Goroutines DEF WatchRecords
    <3> QED
      BY <1>15, <3>1, WatchTypes, Goroutines DEF WatchSend, Recorded
  <2> QED
    BY <1>15, <2>1 DEF WatchSend, Offered, services, history, TypeOK, WatchRecords
<1>16. CASE WatchStop
  BY <1>16, GatewayAssumption DEF WatchStop, services, history, TypeOK
<1>17. CASE Interrupt
  BY <1>17, GatewayAssumption DEF Interrupt, services, history, TypeOK
<1>18. ASSUME NEW content \in {"valid", "invalid"}, Edit(content) PROVE TypeOK'
  BY <1>18, GatewayAssumption DEF Edit, services, history, TypeOK
<1>19. CASE UNCHANGED vars
  BY <1>19 DEF vars, services, history, TypeOK, Services, Places, Starting, Numbers
<1> QED
  BY <1>1, <1>2, <1>3, <1>4, <1>5, <1>6, <1>7, <1>8, <1>9, <1>10, <1>11, <1>12, <1>13, <1>14,
     <1>15, <1>16, <1>17, <1>18, <1>19 DEF Next, Main, Reload, Restart, Watcher

(* Every step keeps the order of stops and starts.                         *)
LEMMA NextStage == IInv /\ [Next]_vars => Stage'
<1> SUFFICES ASSUME IInv, [Next]_vars PROVE Stage'
  OBVIOUS
<1> USE DEF IInv
<1>1. CASE StartCron
  BY <1>1, SMTT(30) DEF StartCron, Return, Goto, InForce, services, Stage, TypeOK, Services,
     Places, Starting, Numbers
<1>2. CASE MakeManager
  BY <1>2 DEF MakeManager, Goto, FreshManager, services, Stage, TypeOK, Services, Places,
     Starting, Numbers
<1>3. CASE StartAll
  <2>1. CASE Goto("devices") /\ running' = running \cup {<<"channels", main.gen>>}
    <3>1. main'.at = "devices"
      BY <2>1, GotoKeeps, PlaceNames
    <3>2. \A p \in running' : ref[p[1]] = p[2] /\ p[1] # "devices"
      BY <1>3, <2>1 DEF StartAll, Stage
    <3> QED
      BY <1>3, <3>1, <3>2 DEF StartAll, Stage
  <2>2. CASE Return("loop", "error") /\ running' = running
    <3>1. main'.at \in {"loop", "failed"}
      BY <2>2, GotoKeeps, ReturnGoes, PlaceNames
    <3> QED
      BY <1>3, <2>2, <3>1 DEF StartAll, Stage
  <2> QED
    BY <1>3, <2>1, <2>2 DEF StartAll
<1>4. CASE StartDevices
  BY <1>4, SMTT(30) DEF StartDevices, Return, Goto, services, Stage, TypeOK, Services, Places,
     Starting, Numbers
<1>5. CASE TakeConfig
  BY <1>5 DEF TakeConfig, services, Stage, TypeOK, Services, Places, Starting, Numbers
<1>6. CASE TakeSignal
  BY <1>6 DEF TakeSignal, Goto, services, Stage, TypeOK, Services, Places, Starting, Numbers
<1>7. CASE StopServices
  <2>1. CASE queues = "closed"
    BY <1>7, <2>1, GotoKeeps, PlaceNames DEF StopServices, Stage
  <2>2. CASE queues # "closed"
    <3>1. \A p \in running : p = <<p[1], p[2]>> /\ p[1] \in Services /\ ref[p[1]] = p[2]
      BY DEF TypeOK, Stage
    <3>2. running' = running \ {<<s, ref[s]>> : s \in Services}
      BY <1>7, <2>2 DEF StopServices, Cleaned
    <3>3. running' = {}
      BY <3>1, <3>2
    <3>4. main'.at \in {"create", "unwatch"}
      BY <1>7, <2>2, GotoKeeps, PlaceNames DEF StopServices
    <3> QED
      BY <3>3, <3>4 DEF Stage
  <2> QED
    BY <2>1, <2>2
<1>8. CASE CreateProvider
  BY <1>8 DEF CreateProvider, Goto, services, Stage, TypeOK, Services, Places, Starting, Numbers
<1>9. CASE Swap
  BY <1>9 DEF Swap, Goto, services, Stage, TypeOK, Services, Places, Starting, Numbers
<1>10. CASE CloseOld
  BY <1>10 DEF CloseOld, Goto, Adopted, services, Stage, TypeOK, Services, Places, Starting,
     Numbers
<1>11. CASE Exit
  BY <1>11 DEF Exit, Goto, services, Stage, TypeOK, Services, Places, Starting, Numbers
<1>12. CASE \/ Watcher \/ Interrupt
           \/ \E content \in {"valid", "invalid"} : Edit(content)
           \/ UNCHANGED vars
  BY <1>12, Bystanders DEF services, Stage
<1> QED
  BY <1>1, <1>2, <1>3, <1>4, <1>5, <1>6, <1>7, <1>8, <1>9, <1>10, <1>11, <1>12 DEF Next, Main,
     Reload, Restart

(* Every step keeps what is known of the queues.                           *)
LEMMA NextQueueStage == IInv /\ [Next]_vars => QueueStage'
<1> SUFFICES ASSUME IInv, [Next]_vars PROVE QueueStage'
  OBVIOUS
<1> USE DEF IInv
<1>1. CASE StartCron
  BY <1>1 DEF StartCron, Return, Goto, InForce, services, history, QueueStage, TypeOK, Places,
     Starting
<1>2. CASE MakeManager
  BY <1>2 DEF MakeManager, Goto, FreshManager, services, history, QueueStage, TypeOK, Places,
     Starting
<1>3. CASE StartAll
  BY <1>3 DEF StartAll, Return, Goto, services, history, QueueStage, TypeOK, Places, Starting
<1>4. CASE StartDevices
  BY <1>4 DEF StartDevices, Return, Goto, services, history, QueueStage, TypeOK, Places, Starting
<1>5. CASE TakeConfig
  BY <1>5 DEF TakeConfig, services, history, QueueStage, TypeOK, Places, Starting
<1>6. CASE TakeSignal
  BY <1>6 DEF TakeSignal, Goto, services, history, QueueStage, TypeOK, Places, Starting
<1>7. CASE StopServices
  BY <1>7 DEF StopServices, Goto, Cleaned, services, history, QueueStage, TypeOK, Places, Starting
<1>8. CASE CreateProvider
  BY <1>8 DEF CreateProvider, Goto, services, history, QueueStage, TypeOK, Places, Starting
<1>9. CASE Swap
  BY <1>9 DEF Swap, Goto, services, history, QueueStage, TypeOK, Places, Starting
<1>10. CASE CloseOld
  BY <1>10 DEF CloseOld, Goto, Adopted, services, history, QueueStage, TypeOK, Places, Starting
<1>11. CASE Exit
  BY <1>11 DEF Exit, Goto, services, history, QueueStage, TypeOK, Places, Starting
<1>12. CASE \/ Watcher \/ Interrupt
           \/ \E content \in {"valid", "invalid"} : Edit(content)
           \/ UNCHANGED vars
  BY <1>12, Bystanders DEF services, QueueStage
<1> QED
  BY <1>1, <1>2, <1>3, <1>4, <1>5, <1>6, <1>7, <1>8, <1>9, <1>10, <1>11, <1>12 DEF Next, Main,
     Reload, Restart

(* Every step keeps the account of the providers.                          *)
LEMMA NextProviders == IInv /\ [Next]_vars => Providers'
<1> SUFFICES ASSUME IInv, [Next]_vars PROVE Providers'
  OBVIOUS
<1> USE DEF IInv
<1>1. CASE StartCron
  BY <1>1 DEF StartCron, Return, Goto, InForce, Providers, TypeOK, Places, Starting, Numbers
<1>2. CASE MakeManager
  BY <1>2 DEF MakeManager, Goto, FreshManager, Providers, TypeOK, Places, Starting, Numbers
<1>3. CASE StartAll
  BY <1>3 DEF StartAll, Return, Goto, Providers, TypeOK, Places, Starting, Numbers
<1>4. CASE StartDevices
  BY <1>4 DEF StartDevices, Return, Goto, Providers, TypeOK, Places, Starting, Numbers
<1>5. CASE TakeConfig
  BY <1>5 DEF TakeConfig, Providers, TypeOK, Places, Starting, Numbers
<1>6. CASE TakeSignal
  BY <1>6 DEF TakeSignal, Goto, Providers, TypeOK, Places, Starting, Numbers
<1>7. CASE StopServices
  <2>1. /\ main'.gen = main.gen
        /\ \/ main'.at = "crashed"
           \/ main.at = "stop" /\ main'.at = "create"
           \/ main.at = "bye" /\ main'.at = "unwatch"
    BY <1>7, GotoKeeps, PlaceNames DEF StopServices
  <2>2. UNCHANGED <<agent, providerRef, open>>
    BY <1>7 DEF StopServices
  <2> QED
    BY <1>7, <2>1, <2>2 DEF StopServices, Providers, Starting
<1>8. CASE CreateProvider
  <2>1. open = {agent.provider} /\ agent.provider < main.gen /\ providerRef = agent.provider
    BY <1>8 DEF CreateProvider, Providers
  <2>2. CASE open' = open \cup {main.gen} /\ Goto("swap")
    <3>1. main'.at = "swap" /\ main'.gen = main.gen /\ open' = {agent.provider, main.gen}
      BY <2>1, <2>2, GotoKeeps, PlaceNames
    <3> QED
      BY <1>8, <2>1, <3>1, Goroutines DEF CreateProvider, Providers, Starting
  <2>3. CASE UNCHANGED open /\ Goto("cron")
    <3>1. main'.at = "cron" /\ main'.gen = main.gen
      BY <2>3, GotoKeeps, PlaceNames
    <3> QED
      BY <1>8, <2>1, <2>3, <3>1, Goroutines DEF CreateProvider, Providers, Starting
  <2> QED
    BY <1>8, <2>2, <2>3 DEF CreateProvider
<1>9. CASE Swap
  <2>1. CASE /\ agent' = [cfg |-> main.next, provider |-> main.gen]
             /\ main' = [main EXCEPT !.at = "close", !.old = agent.provider, !.adopted = TRUE]
             /\ UNCHANGED open
    <3>1. /\ main'.at = "close" /\ main'.old = agent.provider /\ main'.gen = main.gen
          /\ agent'.provider = main.gen
      BY <2>1, Goroutines DEF MainRecords
    <3>2. open' = {agent.provider, main.gen} /\ agent.provider < main.gen
      BY <1>9, <2>1 DEF Swap, Providers
    <3> QED
      BY <3>1, <3>2, Goroutines DEF Providers, Starting
  <2>2. CASE open' = open \ {main.gen} /\ Goto("cron") /\ UNCHANGED agent
    <3>1. main'.at = "cron" /\ main'.gen = main.gen
      BY <2>2, GotoKeeps, PlaceNames
    <3>2. open' = {agent.provider} /\ agent.provider < main.gen
      BY <1>9, <2>2 DEF Swap, Providers, TypeOK, Numbers
    <3> QED
      BY <1>9, <2>2, <3>1, <3>2 DEF Swap, Providers, Starting
  <2> QED
    BY <1>9, <2>1, <2>2 DEF Swap
<1>10. CASE CloseOld
  BY <1>10 DEF CloseOld, Goto, Adopted, Providers, TypeOK, Places, Starting, Numbers
<1>11. CASE Exit
  BY <1>11 DEF Exit, Goto, Providers, TypeOK, Places, Starting, Numbers
<1>12. CASE \/ Watcher \/ Interrupt
           \/ \E content \in {"valid", "invalid"} : Edit(content)
           \/ UNCHANGED vars
  BY <1>12, Bystanders DEF services, Providers
<1> QED
  BY <1>1, <1>2, <1>3, <1>4, <1>5, <1>6, <1>7, <1>8, <1>9, <1>10, <1>11, <1>12 DEF Next, Main,
     Reload, Restart

(* Every step keeps the numbers of the services.                           *)
LEMMA NextConfigs == IInv /\ [Next]_vars => Configs'
<1> SUFFICES ASSUME IInv, [Next]_vars PROVE Configs'
  OBVIOUS
<1> USE DEF IInv
<1>1. CASE StartCron
  <2>1. running = {} /\ Len(cfgOf) = main.gen - 1 /\ cfgOf \in Seq(Nat) /\ agent.cfg \in Nat
    BY <1>1 DEF StartCron, Stage, Configs, TypeOK
  <2>2. Len(cfgOf') = main.gen /\ cfgOf'[main.gen] = agent.cfg
    BY <1>1, <2>1, Goroutines DEF StartCron, InForce
  <2>3. CASE Goto("manager") /\ running' = running \cup {<<"cron", main.gen>>}
    <3>1. main'.at = "manager" /\ main'.gen = main.gen
      BY <2>3, GotoKeeps, PlaceNames
    <3>2. \A p \in running' : p[2] = main.gen
      BY <2>1, <2>3
    <3> QED
      BY <1>1, <2>2, <3>1, <3>2 DEF StartCron, Configs
  <2>4. CASE Return("loop", "error") /\ running' = running
    <3>1. main'.at \in {"loop", "failed"} /\ main'.gen = main.gen
      BY <2>4, GotoKeeps, ReturnGoes, PlaceNames
    <3> QED
      BY <1>1, <2>1, <2>2, <2>4, <3>1 DEF StartCron, Configs
  <2> QED
    BY <1>1, <2>3, <2>4 DEF StartCron
<1>2. CASE MakeManager
  BY <1>2 DEF MakeManager, Goto, FreshManager, services, Stage, Configs, TypeOK, Services, Places,
     Starting, Numbers
<1>3. CASE StartAll
  <2>1. main'.at \in {"devices", "loop", "failed"} /\ main'.gen = main.gen
    BY <1>3, GotoKeeps, ReturnGoes, PlaceNames DEF StartAll
  <2>2. /\ Len(cfgOf) = main.gen /\ cfgOf[main.gen] = agent.cfg
        /\ \A p \in running : p[2] = main.gen
    BY <1>3 DEF StartAll, Configs
  <2>3. \A p \in running' : p[2] = main.gen
    BY <1>3, <2>2 DEF StartAll
  <2> QED
    BY <1>3, <2>1, <2>2, <2>3 DEF StartAll, Configs
<1>4. CASE StartDevices
  BY <1>4, SMTT(30) DEF StartDevices, Return, Goto, services, Stage, Configs, TypeOK, Services,
     Places, Starting, Numbers
<1>5. CASE TakeConfig
  <2>1. main'.at = "stop" /\ main'.gen = main.gen + 1 /\ cfgOf' = cfgOf
    BY <1>5 DEF TakeConfig, services
  <2>2. Len(cfgOf) = main.gen
    BY <1>5 DEF TakeConfig, Configs
  <2> QED
    BY <2>1, <2>2, Goroutines DEF Configs
<1>6. CASE TakeSignal
  BY <1>6 DEF TakeSignal, Goto, services, Stage, Configs, TypeOK, Services, Places, Starting,
     Numbers
<1>7. CASE StopServices
  <2>1. /\ main'.gen = main.gen /\ cfgOf' = cfgOf
        /\ main'.at \in {"unwatch", "crashed"} \/ (main'.at = "create" /\ main.at = "stop")
    BY <1>7, GotoKeeps, PlaceNames DEF StopServices
  <2> QED
    BY <2>1 DEF Configs
<1>8. CASE CreateProvider
  BY <1>8 DEF CreateProvider, Goto, services, Stage, Configs, TypeOK, Services, Places, Starting,
     Numbers
<1>9. CASE Swap
  BY <1>9 DEF Swap, Goto, services, Stage, Configs, TypeOK, Services, Places, Starting, Numbers
<1>10. CASE CloseOld
  BY <1>10 DEF CloseOld, Goto, Adopted, services, Stage, Configs, TypeOK, Services, Places,
     Starting, Numbers
<1>11. CASE Exit
  BY <1>11 DEF Exit, Goto, services, Stage, Configs, TypeOK, Services, Places, Starting, Numbers
<1>12. CASE \/ Watcher \/ Interrupt
           \/ \E content \in {"valid", "invalid"} : Edit(content)
           \/ UNCHANGED vars
  BY <1>12, Bystanders DEF services, Configs
<1> QED
  BY <1>1, <1>2, <1>3, <1>4, <1>5, <1>6, <1>7, <1>8, <1>9, <1>10, <1>11, <1>12 DEF Next, Main,
     Reload, Restart

(* Every step keeps the watcher behind what it has handed over.            *)
LEMMA NextWatched == IInv /\ [Next]_vars => Watched'
<1> SUFFICES ASSUME IInv, [Next]_vars PROVE Watched'
  OBVIOUS
<1> USE DEF IInv
<1>1. CASE StartCron
  BY <1>1 DEF StartCron, Return, Goto, InForce, history, Watched, Newest, TypeOK, Places,
     Starting, Numbers, Ended
<1>2. CASE MakeManager
  BY <1>2 DEF MakeManager, Goto, FreshManager, history, Watched, Newest, TypeOK, Places, Starting,
     Numbers, Ended
<1>3. CASE StartAll
  BY <1>3 DEF StartAll, Return, Goto, history, Watched, Newest, TypeOK, Places, Starting, Numbers,
     Ended
<1>4. CASE StartDevices
  BY <1>4 DEF StartDevices, Return, Goto, history, Watched, Newest, TypeOK, Places, Starting,
     Numbers, Ended
<1>5. CASE TakeConfig
  BY <1>5 DEF TakeConfig, history, Watched, Newest, TypeOK, Places, Starting, Numbers, Ended
<1>6. CASE TakeSignal
  BY <1>6 DEF TakeSignal, Goto, history, Watched, Newest, TypeOK, Places, Starting, Numbers, Ended
<1>7. CASE StopServices
  BY <1>7 DEF StopServices, Goto, Cleaned, history, Watched, Newest, TypeOK, Places, Starting,
     Numbers, Ended
<1>8. CASE CreateProvider
  BY <1>8 DEF CreateProvider, Goto, history, Watched, Newest, TypeOK, Places, Starting, Numbers,
     Ended
<1>9. CASE Swap
  <2>1. UNCHANGED <<disk, watch, pending>> /\ watch.at # "off"
    BY <1>9 DEF Swap, Watched
  <2>2. CASE /\ agent' = [cfg |-> main.next, provider |-> main.gen]
             /\ main' = [main EXCEPT !.at = "close", !.old = agent.provider, !.adopted = TRUE]
             /\ UNCHANGED missed
    <3>1. main'.at = "close" /\ agent'.cfg = main.next
      BY <2>2, Goroutines DEF MainRecords
    <3>2. Newest' = Newest
      BY <1>9, <2>1, <3>1 DEF Swap, Newest
    <3> QED
      BY <1>9, <2>1, <2>2, <3>1, <3>2 DEF Swap, Watched
  <2>3. CASE missed' = TRUE
    BY <2>1, <2>3 DEF Watched
  <2> QED
    BY <1>9, <2>2, <2>3 DEF Swap
<1>10. CASE CloseOld
  BY <1>10 DEF CloseOld, Goto, Adopted, history, Watched, Newest, TypeOK, Places, Starting,
     Numbers, Ended
<1>11. CASE Exit
  BY <1>11 DEF Exit, Goto, history, Watched, Newest, TypeOK, Places, Starting, Numbers, Ended
<1>12. CASE WatchInit
  <2>1. /\ watch' = [watch EXCEPT !.at = "idle", !.seen = Len(disk)]
        /\ UNCHANGED <<disk, pending, main, agent>>
        /\ ~missed' => Len(disk) = 1
    BY <1>12 DEF WatchInit
  <2>2. watch'.at = "idle" /\ watch'.seen = Len(disk)
    BY <2>1, Goroutines DEF WatchRecords
  <2>3. Newest' = 1
    BY <1>12, <2>1 DEF WatchInit, Watched, Newest
  <2> QED
    BY <2>1, <2>2, <2>3 DEF Watched
<1>13. CASE WatchNotice
  BY <1>13 DEF WatchNotice, history, Watched, Newest, TypeOK, Places, Starting, Numbers, Ended
<1>14. CASE WatchLoad
  BY <1>14 DEF WatchLoad, history, Watched, Newest, TypeOK, Places, Starting, Numbers, Ended
<1>15. CASE WatchSend
  BY <1>15 DEF WatchSend, Recorded, NeverWaits, Offered, history, Watched, Newest, TypeOK, Places,
     Starting, Numbers, Ended
<1>16. CASE WatchStop
  BY <1>16 DEF WatchStop, history, Watched, Newest, TypeOK, Places, Starting, Numbers, Ended
<1>17. CASE Interrupt
  BY <1>17 DEF Interrupt, history, Watched, Newest, TypeOK, Places, Starting, Numbers, Ended
<1>18. ASSUME NEW content \in {"valid", "invalid"}, Edit(content) PROVE Watched'
  BY <1>18 DEF Edit, history, Watched, Newest, TypeOK, Places, Starting, Numbers, Ended
<1>19. CASE UNCHANGED vars
  BY <1>19 DEF vars, history, Watched, Newest, TypeOK, Places, Starting, Numbers, Ended
<1> QED
  BY <1>1, <1>2, <1>3, <1>4, <1>5, <1>6, <1>7, <1>8, <1>9, <1>10, <1>11, <1>12, <1>13, <1>14,
     <1>15, <1>16, <1>17, <1>18, <1>19 DEF Next, Main, Reload, Restart, Watcher

(* The invariant holds at the start. *)
LEMMA InitInv == Init => IInv
<1> SUFFICES ASSUME Init PROVE IInv
  OBVIOUS
<1> USE DEF Init
<1>1. /\ main.at = "cron" /\ main.gen = 1 /\ main.old = 0
      /\ watch.at = "off" /\ agent.provider = 1 /\ agent.cfg = 1
  OBVIOUS
<1>2. TypeOK
  <2>1. disk \in Seq({"valid", "invalid"}) /\ Len(disk) = 1 /\ Len(disk) <= MaxEdits + 1
    BY GatewayAssumption
  <2>2. main \in MainRecords /\ watch \in WatchRecords
    BY PlaceNames DEF MainRecords, WatchRecords, Numbers
  <2>3. /\ pending \in Seq(Nat) /\ Len(pending) <= 1
        /\ agent \in [cfg : Nat, provider : Numbers]
        /\ providerRef \in Numbers /\ open \subseteq Numbers
    BY DEF Numbers
  <2>4. /\ ref \in [Services -> Nat]
        /\ running \subseteq Services \X Numbers /\ live \subseteq Numbers
    OBVIOUS
  <2>5. cfgOf \in Seq(Nat) /\ Len(cfgOf) <= main.gen
    BY <1>1
  <2> QED
    BY <2>1, <2>2, <2>3, <2>4, <2>5 DEF TypeOK, MainRecords, WatchRecords
<1>3. Stage /\ QueueStage
  BY <1>1 DEF Stage, QueueStage
<1>4. Providers
  BY <1>1 DEF Providers, Starting
<1>5. Configs
  BY <1>1 DEF Configs
<1>6. Watched
  BY <1>1 DEF Watched
<1> QED
  BY <1>2, <1>3, <1>4, <1>5, <1>6 DEF IInv

(* The invariant holds throughout. *)
LEMMA Invariance == Spec => []IInv
<1>1. IInv /\ [Next]_vars => IInv'
  BY NextType, NextStage, NextQueueStage, NextProviders, NextConfigs, NextWatched DEF IInv
<1> QED
  BY <1>1, InitInv, PTL DEF Spec

-----------------------------------------------------------------------------
(* All variables keep their types. *)
THEOREM TypeCorrect == Spec => []TypeOK
<1>1. IInv => TypeOK
  BY DEF IInv
<1> QED
  BY <1>1, Invariance, PTL

(* No service is left running where stopAndCleanupServices does not reach  *)
(* it, and none when the process has shut down; and every provider is      *)
(* closed in time, and not before.                                         *)
THEOREM NothingLeftBehindHolds == Spec => []NothingLeftBehind
<1>1. IInv => NoOrphan
  BY DEF IInv, Stage, NoOrphan
<1>2. IInv => ProvidersAccounted
  BY DEF IInv, TypeOK, Providers, ProvidersAccounted, Places, Starting
<1> QED
  BY <1>1, <1>2, Invariance, PTL DEF NothingLeftBehind

(* Between reloads the services are on the agent loop's configuration. *)
THEOREM OnConfigInForceHolds == Spec => []OnConfigInForce
<1>1. IInv => OnConfigInForce
  BY DEF IInv, Configs, OnConfigInForce
<1> QED
  BY <1>1, Invariance, PTL

(* Stopping the services panics only after a restart ended at cron. *)
THEOREM PanicsOnlyAfterCronHolds == Spec => []PanicsOnlyAfterCron
<1>1. IInv => PanicsOnlyAfterCron
  BY DEF IInv, QueueStage, PanicsOnlyAfterCron
<1> QED
  BY <1>1, Invariance, PTL

(* The watcher overlooks no edit in any way but the three that are known. *)
THEOREM NoSilentMissHolds == Spec => []NoSilentMiss
<1>1. IInv => NoSilentMiss
  BY DEF IInv, TypeOK, Watched, Newest, NoSilentMiss
<1> QED
  BY <1>1, Invariance, PTL
=============================================================================
