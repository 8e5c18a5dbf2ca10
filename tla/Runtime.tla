------------------------------- MODULE Runtime -------------------------------
(***************************************************************************)
(* The runtime that connects the collectors to the broker, and its way to  *)
(* a stop: App.Run (internal/app), collector.Multi, the bounded memory.Bus,*)
(* pipeline.Run with the DeviceState processor, and the MQTT publisher.    *)
(*                                                                         *)
(* Every part is a goroutine of its own, and they end each other through   *)
(* three nested contexts: the signal's, the one App.Run cancels and the    *)
(* one Multi cancels.  A collector is reduced to what it shows the others: *)
(* it announces devices, blocks while the bus is full, and returns         *)
(* (NeighborCollector and DhcpCollector say when).                         *)
(***************************************************************************)
EXTENDS Integers, Sequences, FiniteSets

CONSTANTS
  Devices,
  Collectors,   \* the collectors that Multi runs
  ConnectOnly,  \* those that never announce a disconnection: dhcp
  Unforgiving,  \* those that may fail an emission with the context: neighbor
  Spawning,     \* those that start a process under the context: hostapd
  BusCapacity,
  MaxEvents     \* bound: announcements in a behaviour

Type  == {"connected", "disconnected"}
Event == [mac : Devices, type : Type]

ASSUME RuntimeAssumption ==
  /\ IsFiniteSet(Collectors) /\ Collectors # {}
  /\ ConnectOnly \subseteq Collectors
  /\ Unforgiving \subseteq Collectors
  /\ Spawning \subseteq Collectors
  /\ BusCapacity \in Nat \ {0}
  /\ MaxEvents \in Nat

VARIABLES
  enabled,    \* the types of event whose publication is enabled
  ctxDone,    \* the signal has cancelled the context of main
  runDone,    \* App.Run has cancelled its context
  multiDone,  \* Multi.Start has cancelled its context
  collector,  \* where each collector is
  pending,    \* the event each collector is emitting
  results,    \* the errors channel of Multi.Start
  multi,      \* where Multi.Start is
  multiError, \* its firstError
  received,   \* how many results it has taken
  bus,        \* Bus.events
  pipeline,   \* where Pipeline.Run is
  inFlight,   \* the message the MQTT client has been given and not yet sent
  states,     \* DeviceState.states
  errors,     \* the errors channel of App.Run
  app,        \* where App.Run is
  appError,   \* its firstError, then what it returns
  closed,     \* Publisher.Close has run
  accepted,   \* history: the events the bus has accepted
  published,  \* the messages sent to the broker
  failed      \* history: the parts that have returned an error, and why

ambient  == <<enabled, ctxDone, runDone, multiDone>>
sources  == <<collector, pending, results>>
multis   == <<multi, multiError, received>>
sinks    == <<pipeline, inFlight, states>>
apps     == <<errors, app, appError, closed>>
history  == <<accepted, published, failed>>
vars     == <<ambient, sources, multis, bus, sinks, apps, history>>

\* Mutant: the pipeline is given the context of main.
RunCanceledBySignal == ctxDone

\* A cancelled context cancels those derived from it.
RunCanceled   == ctxDone \/ runDone
MultiCanceled == RunCanceled \/ multiDone

Outcome == {"nil", "error"}

\* Why a part returns: the error is its own, or it is the context's.
Cause == {"failure", "cancellation"}

TypeOK ==
  /\ enabled \subseteq Type
  /\ ctxDone \in BOOLEAN /\ runDone \in BOOLEAN /\ multiDone \in BOOLEAN
  /\ collector \in [Collectors -> {"starting", "reading", "emitting", "returned"}]
  /\ pending \in [Collectors -> SUBSET Event]
  /\ results \in Seq(Outcome)
  /\ multi \in {"first", "rest", "returned"}
  /\ multiError \in Outcome
  /\ received \in 0 .. Cardinality(Collectors)
  /\ bus \in Seq(Event) /\ Len(bus) <= BusCapacity
  /\ pipeline \in {"idle", "publishing", "returned"}
  /\ inFlight \in SUBSET Event
  /\ DOMAIN states \subseteq Devices
  /\ states \in [DOMAIN states -> Type]
  /\ errors \in Seq(Outcome)
  /\ app \in {"first", "second", "returned"}
  /\ appError \in Outcome
  /\ closed \in BOOLEAN
  /\ accepted \in Seq(Event)
  /\ published \in Seq(Event)
  /\ failed \subseteq (Collectors \cup {"pipeline"}) \X Cause

\* With both types disabled NewRuntime starts none of the parts.
Init ==
  /\ enabled \in SUBSET Type \ {{}}
  /\ ctxDone = FALSE /\ runDone = FALSE /\ multiDone = FALSE
  /\ collector = [c \in Collectors |-> "starting"]
  /\ pending = [c \in Collectors |-> {}]
  /\ results = <<>>
  /\ multi = "first" /\ multiError = "nil" /\ received = 0
  /\ bus = <<>>
  /\ pipeline = "idle"
  /\ inFlight = {}
  /\ states = [d \in {} |-> "connected"]
  /\ errors = <<>>
  /\ app = "first" /\ appError = "nil" /\ closed = FALSE
  /\ accepted = <<>> /\ published = <<>> /\ failed = {}
-----------------------------------------------------------------------------
(***************************************************************************)
(* The signal and the collectors.                                          *)
(***************************************************************************)

Signal ==
  /\ ~ctxDone
  /\ ctxDone' = TRUE
  /\ UNCHANGED <<enabled, runDone, multiDone, sources, multis, bus, sinks, apps, history>>

\* The announcements the collectors have made so far.
Announced == Len(accepted) + Cardinality({c \in Collectors : pending[c] # {}})

Observe(c, e) ==
  /\ collector[c] = "reading"
  /\ Announced < MaxEvents
  /\ e.type = "disconnected" => c \notin ConnectOnly
  /\ collector' = [collector EXCEPT ![c] = "emitting"]
  /\ pending' = [pending EXCEPT ![c] = {e}]
  /\ UNCHANGED <<ambient, results, multis, bus, sinks, apps, history>>

\* Mutant: the channel holds one event more.
HasRoomForOneMore == Len(bus) <= BusCapacity

HasRoom == Len(bus) < BusCapacity

\* Bus.Publish: the select takes any case that is ready, so a cancelled
\* collector may still get its event on the bus.
EmitAccepted(c) ==
  /\ collector[c] = "emitting"
  /\ HasRoom
  /\ \E e \in pending[c] : /\ bus' = Append(bus, e)
                           /\ accepted' = Append(accepted, e)
  /\ collector' = [collector EXCEPT ![c] = "reading"]
  /\ pending' = [pending EXCEPT ![c] = {}]
  /\ UNCHANGED <<ambient, results, multis, sinks, apps, published, failed>>

CollectorReturns(c, outcome, cause) ==
  /\ collector' = [collector EXCEPT ![c] = "returned"]
  /\ pending' = [pending EXCEPT ![c] = {}]
  /\ results' = Append(results, outcome)
  /\ failed' = IF outcome = "error" THEN failed \cup {<<c, cause>>} ELSE failed
  /\ UNCHANGED <<ambient, multis, bus, sinks, apps, accepted, published>>

CollectorStarts(c) ==
  /\ collector[c] = "starting"
  /\ collector' = [collector EXCEPT ![c] = "reading"]
  /\ UNCHANGED <<ambient, pending, results, multis, bus, sinks, apps, history>>

\* A socket, the interface or the child process is not to be had, the latter
\* also because the context is done.
StartFails(c) ==
  /\ collector[c] = "starting"
  /\ \/ CollectorReturns(c, "error", "failure")
     \/ /\ c \in Spawning
        /\ MultiCanceled
        /\ CollectorReturns(c, "error", "cancellation")

EmitCanceled(c) ==
  /\ collector[c] = "emitting"
  /\ MultiCanceled
  /\ \E outcome \in IF c \in Unforgiving THEN Outcome ELSE {"nil"} :
       CollectorReturns(c, outcome, "cancellation")

\* The collector notices the cancellation between two events.
CollectorStops(c) ==
  /\ collector[c] = "reading"
  /\ MultiCanceled
  /\ CollectorReturns(c, "nil", "cancellation")

CollectorFails(c) ==
  /\ collector[c] = "reading"
  /\ ~MultiCanceled
  /\ CollectorReturns(c, "error", "failure")
-----------------------------------------------------------------------------
(***************************************************************************)
(* Multi.Start.                                                            *)
(***************************************************************************)

\* Mutant: only the first result decides.
WorstOfFirst(first, next) == first

\* An error that comes second is not covered by a clean first return.
WorstOf(first, next) == IF first = "nil" THEN next ELSE first

\* Mutant: the others are not waited for.
MultiWaitsForNone == TRUE

MultiHasAll == received' = Cardinality(Collectors)

MultiReceives ==
  /\ multi \in {"first", "rest"}
  /\ results # <<>>
  /\ results' = Tail(results)
  /\ received' = received + 1
  /\ multiDone' = TRUE
  /\ multiError' = IF multi = "first" THEN Head(results)
                   ELSE WorstOf(multiError, Head(results))
  /\ IF MultiHasAll
     THEN multi' = "returned" /\ errors' = Append(errors, multiError')
     ELSE multi' = "rest" /\ UNCHANGED errors
  /\ UNCHANGED <<enabled, ctxDone, runDone, collector, pending, bus, sinks, app, appError,
                 closed, history>>
-----------------------------------------------------------------------------
(***************************************************************************)
(* Pipeline.Run and the MQTT client.                                       *)
(***************************************************************************)

PipelineReturns(outcome, cause) ==
  /\ pipeline' = "returned"
  /\ errors' = Append(errors, outcome)
  /\ failed' = IF outcome = "error" THEN failed \cup {<<"pipeline", cause>>} ELSE failed

PipelineStops ==
  /\ pipeline = "idle"
  /\ RunCanceled
  /\ PipelineReturns("nil", "cancellation")
  /\ UNCHANGED <<ambient, sources, multis, bus, inFlight, states, app, appError,
                 closed, accepted, published>>

\* Mutant: only what is published is remembered.
RemembersEnabled(e) ==
  IF e.type \in enabled
  THEN [d \in DOMAIN states \cup {e.mac} |-> IF d = e.mac THEN e.type ELSE states[d]]
  ELSE states

\* DeviceState remembers an event before it looks whether its type is enabled.
Remembers(e) ==
  [d \in DOMAIN states \cup {e.mac} |-> IF d = e.mac THEN e.type ELSE states[d]]

\* Mutant: a device is announced once and for all.
KnownAtAll(e) == e.mac \in DOMAIN states

KnownAlready(e) == e.mac \in DOMAIN states /\ states[e.mac] = e.type

\* The select may take an event although the context is done.
TakeEvent ==
  /\ pipeline = "idle"
  /\ bus # <<>>
  /\ bus' = Tail(bus)
  /\ LET e == Head(bus) IN
       /\ states' = IF KnownAlready(e) THEN states ELSE Remembers(e)
       /\ IF ~KnownAlready(e) /\ e.type \in enabled
          THEN pipeline' = "publishing" /\ inFlight' = {e}
          ELSE UNCHANGED <<pipeline, inFlight>>
  /\ UNCHANGED <<ambient, sources, multis, apps, history>>

\* The client sends what it has been given, also when nobody waits for it any
\* more, until it is disconnected.
ClientSends ==
  /\ ~closed
  /\ \E e \in inFlight : published' = Append(published, e)
  /\ inFlight' = {}
  /\ UNCHANGED <<ambient, sources, multis, bus, pipeline, states, apps, accepted,
                 failed>>

\* Mutant: the token is not waited for.
SentAnyway == TRUE

Sent == inFlight = {}

PublishDone ==
  /\ pipeline = "publishing"
  /\ Sent
  /\ pipeline' = "idle"
  /\ UNCHANGED <<ambient, sources, multis, bus, inFlight, states, apps, history>>

\* waitToken ends with an error, that of the client or the timeout's.  The
\* message may have been sent, or be sent later.
PublishFails ==
  /\ pipeline = "publishing"
  /\ PipelineReturns("error", "failure")
  /\ UNCHANGED <<ambient, sources, multis, bus, inFlight, states, app, appError,
                 closed, accepted, published>>

\* The context's error is returned like any other.
PublishCanceled ==
  /\ pipeline = "publishing"
  /\ RunCanceled
  /\ PipelineReturns("error", "cancellation")
  /\ UNCHANGED <<ambient, sources, multis, bus, inFlight, states, app, appError,
                 closed, accepted, published>>
-----------------------------------------------------------------------------
(***************************************************************************)
(* App.Run.                                                                *)
(***************************************************************************)

AppReceivesFirst ==
  /\ app = "first"
  /\ errors # <<>>
  /\ errors' = Tail(errors)
  /\ appError' = Head(errors)
  /\ runDone' = TRUE
  /\ app' = "second"
  /\ UNCHANGED <<enabled, ctxDone, multiDone, sources, multis, bus, sinks, closed, history>>

\* The publisher is closed when Run returns.
AppReceivesSecond ==
  /\ app = "second"
  /\ errors # <<>>
  /\ errors' = Tail(errors)
  /\ appError' = WorstOf(appError, Head(errors))
  /\ app' = "returned"
  /\ closed' = TRUE
  /\ UNCHANGED <<ambient, sources, multis, bus, sinks, history>>

Terminated ==
  /\ app = "returned"
  /\ UNCHANGED vars
-----------------------------------------------------------------------------
CollectorStep(c) ==
  \/ CollectorStarts(c)
  \/ StartFails(c)
  \/ \E e \in Event : Observe(c, e)
  \/ EmitAccepted(c)
  \/ EmitCanceled(c)
  \/ CollectorStops(c)
  \/ CollectorFails(c)

PipelineStep ==
  \/ PipelineStops
  \/ TakeEvent
  \/ ClientSends
  \/ PublishDone
  \/ PublishFails
  \/ PublishCanceled

Next ==
  \/ Signal
  \/ \E c \in Collectors : CollectorStep(c)
  \/ MultiReceives
  \/ PipelineStep
  \/ AppReceivesFirst
  \/ AppReceivesSecond
  \/ Terminated

Spec == Init /\ [][Next]_vars
=============================================================================
