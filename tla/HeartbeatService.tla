--------------------------- MODULE HeartbeatService ---------------------------
(***************************************************************************)
(* pkg/heartbeat/service.go, pkg/devices/service.go and pkg/state/state.go:*)
(* a timer has the agent look at HEARTBEAT.md, a monitor reports USB       *)
(* devices, and both send what there is to say to the channel a user was   *)
(* last active on.  That channel is in state.json; the agent, the          *)
(* heartbeat service and the device service each have a state manager of   *)
(* their own, which reads the file when it is made.  A reload of the       *)
(* gateway stops the services and makes new ones.                          *)
(***************************************************************************)
EXTENDS Naturals, Sequences

CONSTANTS
  Channels,     \* "platform:user"
  Internal,     \* a recorded channel that cannot receive messages
  None,         \* no channel recorded
  Services,     \* 1..n: the services made by the start and each reload
  MaxRecords,   \* bound: rounds that record their channel
  MaxEvents,    \* bound: device events
  MaxFaults     \* bound: failed writes of state.json

VARIABLES
  legacyState,  \* the state.json of earlier versions
  stateFile,    \* state/state.json
  active,       \* the agent's state manager: the channel last recorded
  known,        \* known[g]: what the managers of services g have
  service,      \* service[g]: "none", "running", "stopped"
  beat,         \* beat[g]: where the ticker's and the timer's beat of g are
  template,     \* HEARTBEAT.md: "missing", "present"
  events,       \* events[g]: device events in the channel of the monitor of g
  told,         \* who was told something last: the channel, and by which services
  madeFor,      \* history: the last active channel when services g were made
  records, eventCount, writeFaults

heartbeatVars == <<legacyState, stateFile, active, known, service, beat, template, events, told, madeFor,
                   records, eventCount, writeFaults>>

Recordable == Channels \cup {Internal, None}
Beats == {"ticker", "timer"}
NoOne == [channel |-> None, by |-> 0]

(* NewManager: the old file counts only while there is no new one, and is  *)
(* copied to the new place, which may fail.                                *)
LoadedState == IF stateFile # None THEN stateFile ELSE legacyState

Init ==
  /\ stateFile \in {None} \cup Channels /\ legacyState \in {None, Internal}
  /\ active = LoadedState
  /\ known = [g \in Services |-> None]
  /\ service = [g \in Services |-> "none"]
  /\ beat = [g \in Services |-> [b \in Beats |-> "off"]]
  /\ template \in {"missing", "present"}
  /\ events = [g \in Services |-> 0]
  /\ told = NoOne /\ madeFor = [g \in Services |-> None]
  /\ records = 0 /\ eventCount = 0 /\ writeFaults = 0

(* A round of an external channel: SetLastChannel, memory first.           *)
Record(c) ==
  /\ records < MaxRecords
  /\ records' = records + 1
  /\ active' = c
  /\ \/ stateFile' = c /\ UNCHANGED writeFaults
     \/ writeFaults < MaxFaults /\ writeFaults' = writeFaults + 1 /\ UNCHANGED stateFile
  /\ UNCHANGED <<legacyState, madeFor, known, service, beat, template, events, told, eventCount>>

(* The services are made and started, in the order of the reloads.  The    *)
(* first beat comes from a timer after one second.                         *)
Start(g) ==
  /\ service[g] = "none"
  /\ \A h \in Services : h < g => service[h] = "stopped"
  /\ known' = [known EXCEPT ![g] = LoadedState]
  /\ madeFor' = [madeFor EXCEPT ![g] = active]
  /\ \/ stateFile' = LoadedState /\ UNCHANGED writeFaults
     \/ stateFile = None /\ legacyState # None /\ writeFaults < MaxFaults
        /\ writeFaults' = writeFaults + 1 /\ UNCHANGED stateFile
  /\ service' = [service EXCEPT ![g] = "running"]
  /\ beat' = [beat EXCEPT ![g] = [b \in Beats |-> "wait"]]
  /\ UNCHANGED <<legacyState, active, template, events, told, records, eventCount>>

(* Stop closes stopChan and kills the monitor; a beat in progress goes on, *)
(* events in the channel are still handled.                                *)
Stop(g) ==
  /\ service[g] = "running"
  /\ service' = [service EXCEPT ![g] = "stopped"]
  /\ UNCHANGED <<legacyState, madeFor, stateFile, active, known, beat, template, events, told, records,
                 eventCount, writeFaults>>

After(b) == IF b = "timer" THEN "off" ELSE "wait"
Step(g, b, at) == beat' = [beat EXCEPT ![g][b] = at]

(* executeHeartbeat: the check, then the prompt.  A missing file is made   *)
(* from the template and the beat ends.                                    *)
MayBeat(g) == service[g] = "running"
Check(g, b) ==
  /\ beat[g][b] = "wait"
  /\ IF MayBeat(g) THEN Step(g, b, "prompt")
     ELSE Step(g, b, "off")                                \* the loop ends; the timer's beat returns
  /\ UNCHANGED <<legacyState, madeFor, stateFile, active, known, service, template, events, told, records,
                 eventCount, writeFaults>>

BuildPrompt(g, b) ==
  /\ beat[g][b] = "prompt"
  /\ \/ template = "present" /\ Step(g, b, "answer")
     \/ Step(g, b, After(b))                               \* missing, empty, unreadable
  /\ template' = "present"
  /\ UNCHANGED <<legacyState, madeFor, stateFile, active, known, service, events, told, records,
                 eventCount, writeFaults>>

(* sendResponse and sendNotification: nobody is told when no channel is    *)
(* recorded, or an internal one.                                           *)
Target(g) == known[g]
CanReceive(c) == c # None /\ c # Internal
Tell(g) == told' = IF CanReceive(Target(g)) THEN [channel |-> Target(g), by |-> g] ELSE told

(* The handler returned: an error, an asynchronous or a silent result is   *)
(* not sent.                                                               *)
Answer(g, b) ==
  /\ beat[g][b] = "answer"
  /\ Tell(g) \/ UNCHANGED told
  /\ Step(g, b, After(b))
  /\ UNCHANGED <<legacyState, madeFor, stateFile, active, known, service, template, events, records,
                 eventCount, writeFaults>>

(* The USB monitor reports devices that come and go, while it is running.  *)
DeviceEvent(g) ==
  /\ service[g] = "running" /\ eventCount < MaxEvents
  /\ eventCount' = eventCount + 1
  /\ events' = [events EXCEPT ![g] = @ + 1]
  /\ UNCHANGED <<legacyState, madeFor, stateFile, active, known, service, beat, template, told, records, writeFaults>>

HandleEvent(g) ==
  /\ events[g] > 0
  /\ events' = [events EXCEPT ![g] = @ - 1]
  /\ Tell(g)
  /\ UNCHANGED <<legacyState, madeFor, stateFile, active, known, service, beat, template, records, eventCount,
                 writeFaults>>

Next ==
  \/ \E c \in Channels : Record(c)
  \/ \E g \in Services : \/ Start(g) \/ Stop(g) \/ DeviceEvent(g) \/ HandleEvent(g)
                         \/ \E b \in Beats : Check(g, b) \/ BuildPrompt(g, b) \/ Answer(g, b)

Spec == Init /\ [][Next]_heartbeatVars
-----------------------------------------------------------------------------
TypeOK ==
  /\ {legacyState, stateFile, active} \subseteq Recordable
  /\ known \in [Services -> Recordable] /\ madeFor \in [Services -> Recordable]
  /\ service \in [Services -> {"none", "running", "stopped"}]
  /\ beat \in [Services -> [Beats -> {"off", "wait", "prompt", "answer"}]]
  /\ template \in {"missing", "present"} /\ events \in [Services -> 0..MaxEvents]
  /\ told \in [channel : Recordable, by : Services \cup {0}]
  /\ records \in 0..MaxRecords /\ eventCount \in 0..MaxEvents /\ writeFaults \in 0..MaxFaults

(* What the agent recorded is in the file, which is where services made by *)
(* a reload, and the next process, find it, unless a write failed.         *)
RecordedSurvives == records > 0 => stateFile = active \/ writeFaults > 0

(* The comment of HeartbeatHandler says that the channel is derived from   *)
(* the last active user channel.                                           *)
ToldLastActive == [][told' # told => told'.channel = active]_heartbeatVars

(* It is the channel that was the last active one when the services were   *)
(* made: while they run, nobody else is told, whoever is active, and never *)
(* an internal channel.                                                    *)
ToldWhoWasActive ==
  [][told' # told => /\ told'.channel \in Channels
                     /\ told'.channel = madeFor[told'.by] \/ writeFaults > 0]_heartbeatVars
=============================================================================
