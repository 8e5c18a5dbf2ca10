------------------------------ MODULE Service ------------------------------
(***************************************************************************)
(* The service over its lifetime: the configuration, the init script that  *)
(* starts and reloads the service, procd that keeps its process alive, the *)
(* process itself (main, NewRuntime, Run) and, through MqttPublisher, the  *)
(* broker.  Whatever the process knows ends with it: the bus, DeviceState, *)
(* and the messages the client has kept.                                   *)
(*                                                                         *)
(* procd is external: its reload trigger runs the script after an edit,    *)
(* and its respawn policy (respawn 3600 5 5) starts a process again that   *)
(* has ended, until it has ended too often without having lived for long.  *)
(* The script runs one at a time, but anyone may edit the configuration    *)
(* between two of its steps.                                               *)
(***************************************************************************)
EXTENDS MqttPublisher, Configuration

CONSTANTS
  Configs,           \* the configurations that users save
  Retry,             \* respawn retries (5)
  BusCapacity,
  MaxEdits,          \* bound: edits in a behaviour
  MaxAnnouncements   \* bound: announcements in a behaviour

ASSUME ServiceAssumption ==
  /\ Configs \subseteq Config
  /\ Retry \in Nat \ {0}
  /\ BusCapacity \in Nat \ {0}
  /\ MaxEdits \in Nat /\ MaxAnnouncements \in Nat

VARIABLES
  config,     \* what is saved
  reloadDue,  \* procd's trigger has not been answered yet
  script,     \* where the init script is
  instance,   \* what procd knows of the service
  env,        \* the configuration the instance has been given
  respawns,   \* short lives in a row
  process,    \* where the process is
  bus,
  states,     \* DeviceState.states
  edits,      \* how many edits there have been
  announced   \* how many announcements there have been

saved   == <<config, reloadDue, edits>>
procd   == <<script, instance, env, respawns>>
inside  == <<process, bus, states>>
service == <<saved, procd, inside, announced, mqtt>>

Nothing == [d \in {} |-> "connected"]

TypeOK ==
  /\ MqttTypeOK
  /\ config \in Config /\ reloadDue \in BOOLEAN /\ edits \in 0 .. MaxEdits
  /\ script \in {"idle", "stopping", "starting"}
  /\ instance \in {"none", "up", "waiting", "failed"}
  /\ env \in Config
  /\ respawns \in 0 .. Retry + 1
  /\ process \in {"none", "starting", "connecting", "idle", "running"}
  /\ (process # "none") <=> (instance = "up")
  /\ bus \in Seq(Event) /\ Len(bus) <= BusCapacity
  /\ DOMAIN states \subseteq Devices /\ states \in [DOMAIN states -> Type]
  /\ announced \in 0 .. MaxAnnouncements

\* postinst has migrated the configuration, and the router boots.
ServiceInit ==
  /\ MqttInit
  /\ \E c \in Configs : config = Migrated(c)
  /\ env = config
  /\ reloadDue = FALSE /\ edits = 0
  /\ script = "starting"
  /\ instance = "none" /\ respawns = 0
  /\ process = "none" /\ bus = <<>> /\ states = Nothing
  /\ announced = 0
-----------------------------------------------------------------------------
(***************************************************************************)
(* The configuration and the init script.                                  *)
(***************************************************************************)

\* Somebody saves a configuration.  (To save the one that is there stands for the
\* reload that the LuCI page asks for through rpcd.)
Edit(c) ==
  /\ edits < MaxEdits
  /\ edits' = edits + 1
  /\ config' = c
  /\ reloadDue' = TRUE
  /\ UNCHANGED <<procd, inside, announced, mqtt>>

\* Mutant: the service is stopped before the configuration is looked at.
ReloadAnyway(c) == TRUE

ReloadGoesOn(c) == Validates(c)

\* reload_service up to its stop: an invalid configuration changes nothing.
Reload ==
  /\ script = "idle"
  /\ reloadDue
  /\ reloadDue' = FALSE
  /\ script' = IF ReloadGoesOn(config) THEN "stopping" ELSE "idle"
  /\ UNCHANGED <<config, edits, instance, env, respawns, inside, announced, mqtt>>

ProcessEnds ==
  /\ process' = "none" /\ bus' = <<>> /\ states' = Nothing
  /\ Disconnects

\* procd ends the process, which is given 5s to return, and then killed.
StopService ==
  /\ script = "stopping"
  /\ script' = "starting"
  /\ instance' = "none"
  /\ ProcessEnds
  /\ UNCHANGED <<saved, env, respawns, announced>>

\* Mutant: a disabled service is started as well.
StartsDisabled(c) == Validates(c)

\* start_service reads and validates the configuration once more.
Starts(c) == Validates(c) /\ c.enabled

StartService ==
  /\ script = "starting"
  /\ script' = "idle"
  /\ IF Starts(config)
     THEN /\ instance' = "up" /\ process' = "starting"
          /\ env' = Loaded(config)
          /\ respawns' = 0
     ELSE UNCHANGED <<instance, process, env, respawns>>
  /\ UNCHANGED <<saved, bus, states, announced, mqtt>>
-----------------------------------------------------------------------------
(***************************************************************************)
(* procd's instance.                                                       *)
(***************************************************************************)

\* The process has ended by itself, with or without an error.
Exits(lived) ==
  /\ ProcessEnds
  /\ respawns' = IF lived = "long" THEN 0 ELSE respawns + 1
  /\ instance' = IF respawns' > Retry THEN "failed" ELSE "waiting"
  /\ UNCHANGED <<saved, script, env, announced>>

Respawn ==
  /\ instance = "waiting"
  /\ instance' = "up"
  /\ process' = "starting"
  /\ UNCHANGED <<saved, script, env, respawns, bus, states, announced, mqtt>>
-----------------------------------------------------------------------------
(***************************************************************************)
(* The process.                                                            *)
(***************************************************************************)

Enabled(type) == IF type = "connected" THEN env.connected ELSE env.disconnected

\* main: FromEnvironment refuses.
RefuseEnvironment ==
  /\ process = "starting"
  /\ ~FromEnvironment(env)
  /\ Exits("short")

\* Mutant: one type of event is not enough.
HasBothEvents(c) == c.connected /\ c.disconnected

HasEvents(c) == c.connected \/ c.disconnected

\* Run waits for the signal when both types of event are disabled.
StartIdle ==
  /\ process = "starting"
  /\ FromEnvironment(env)
  /\ ~HasEvents(env)
  /\ process' = "idle"
  /\ UNCHANGED <<saved, procd, bus, states, announced, mqtt>>

StartConnecting ==
  /\ process = "starting"
  /\ FromEnvironment(env)
  /\ HasEvents(env)
  /\ process' = "connecting"
  /\ Connect
  /\ UNCHANGED <<saved, procd, bus, states, announced>>

StartRunning ==
  /\ process = "connecting"
  /\ Connected
  /\ process' = "running"
  /\ UNCHANGED <<saved, procd, bus, states, announced>>

GiveUpConnecting ==
  /\ process = "connecting"
  /\ ConnectFails
  /\ Exits("short")

\* Mutant: one event more than the bus holds.
HasRoomForOneMore == Len(bus) <= BusCapacity

HasRoom == Len(bus) < BusCapacity

\* A collector announces a device.
Announce(e) ==
  /\ process = "running"
  /\ announced < MaxAnnouncements
  /\ HasRoom
  /\ announced' = announced + 1
  /\ bus' = Append(bus, e)
  /\ UNCHANGED <<saved, procd, process, states, mqtt>>

KnownAlready(e) == e.mac \in DOMAIN states /\ states[e.mac] = e.type

\* Pipeline.Run takes an event, DeviceState.Process remembers it.
TakeEvent ==
  /\ process = "running"
  /\ publishing = {}
  /\ bus # <<>>
  /\ bus' = Tail(bus)
  /\ LET e == Head(bus) IN
       /\ states' = [d \in DOMAIN states \cup {e.mac} |->
                       IF d = e.mac THEN e.type ELSE states[d]]
       /\ IF ~KnownAlready(e) /\ Enabled(e.type)
          THEN Publish(e, env.qos)
          ELSE UNCHANGED mqtt
  /\ UNCHANGED <<saved, procd, process, announced>>

FinishPublication ==
  /\ process = "running"
  /\ Published
  /\ UNCHANGED <<saved, procd, inside, announced>>

\* An error of a collector, or of Publish, whose waitToken may find its timer
\* expired although the token is done, ends Run, and main.
Fail ==
  /\ process = "running"
  /\ \E lived \in {"short", "long"} : Exits(lived)
-----------------------------------------------------------------------------
World ==
  /\ BrokerGoes \/ ConnectionBreaks \/ BrokerComes \/ Arrive \/ Acknowledge \/ Reconnect
  /\ UNCHANGED <<saved, procd, inside, announced>>

ServiceNext ==
  \/ \E c \in Configs : Edit(c)
  \/ Reload
  \/ StopService
  \/ StartService
  \/ Respawn
  \/ RefuseEnvironment
  \/ StartIdle
  \/ StartConnecting
  \/ StartRunning
  \/ GiveUpConnecting
  \/ \E e \in Event : Announce(e)
  \/ TakeEvent
  \/ FinishPublication
  \/ Fail
  \/ World

ServiceSpec == ServiceInit /\ [][ServiceNext]_service
=============================================================================
