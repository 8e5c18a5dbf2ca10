-------------------------- MODULE NeighborCollector --------------------------
(***************************************************************************)
(* The neighbour collector (Collector.Start in internal/collector/neighbor)*)
(* with every goroutine that takes part in it:                             *)
(*                                                                         *)
(*  - the main loop, which alternates between processAsync (a select over  *)
(*    the context, the sniffer's error, captured frames, probe results and *)
(*    the poll timer) and a read of the netlink socket, and blocks while   *)
(*    the event it has to emit finds no room on the bus;                   *)
(*  - the sniffer, observeTraffic, which stamps a frame when it reads it   *)
(*    and drops it when the channel is full;                               *)
(*  - one goroutine per ARP probe, runProbe;                               *)
(*  - the environment: time, frames, ARP answers, kernel messages and the  *)
(*    cancellation of the context.                                         *)
(*                                                                         *)
(* One unit of time is the poll interval, so every Tick of the clock makes *)
(* the ticker fire.  A device is present as long as the environment keeps  *)
(* producing frames, answers and messages for it.                          *)
(***************************************************************************)
EXTENDS PresenceTracker, Sequences, FiniteSets

CONSTANTS
  DetectOffline,        \* Collector.detectOffline
  MaxConcurrentProbes,  \* maxConcurrentProbes (8)
  SettleWindow,         \* probeSettleWindow (500ms)
  TrafficCapacity,      \* capacity of the traffic channel (256)
  NetlinkCapacity,      \* messages the netlink socket can hold
  MaxTime,              \* bound: the clock stops here
  MaxInputs             \* bound: frames, answers and messages in a behaviour

ASSUME CollectorAssumption ==
  /\ IsFiniteSet(Devices)
  /\ DetectOffline \in BOOLEAN
  /\ MaxConcurrentProbes \in Nat \ {0}
  /\ SettleWindow \in Nat
  /\ TrafficCapacity \in Nat \ {0}
  /\ NetlinkCapacity \in Nat \ {0}
  /\ MaxTime \in Nat
  /\ MaxInputs \in Nat

VARIABLES
  clock,         \* the monotonic clock
  inputs,        \* how many inputs the environment has produced
  ctxDone,       \* ctx has been cancelled
  sniffer,       \* state of the goroutine that runs observeTraffic
  captured,      \* the frame the sniffer has stamped and not yet delivered
  traffic,       \* the channel of trafficObservation
  netlink,       \* messages in the netlink socket
  overrun,       \* the socket has lost messages: the next read is ENOBUFS
  tick,          \* the channel of the ticker holds a tick
  probes,        \* the goroutines that run runProbe
  probeResults,  \* the channel of probeResult
  states,        \* presenceTracker.states
  activeProbes,
  pc,            \* where the main loop is
  held,          \* the probe result for which the main loop drains traffic
  outgoing,      \* the event the main loop is emitting
  heard,         \* history: when each device was last trusted to be there
  missed,        \* history: when its first failed probe since then ended
  announced      \* history: the last event about it the bus has accepted

environment == <<clock, inputs, ctxDone>>
senses      == <<sniffer, captured, traffic, netlink, overrun, tick>>
probing     == <<probes, probeResults>>
loop        == <<states, activeProbes, pc, held, outgoing>>
history     == <<heard, missed, announced>>
vars        == <<environment, senses, probing, loop, history>>

Frame   == [mac : Devices, observedAt : Time]
Message == [mac : Devices, ip : Addresses, confirmed : BOOLEAN]

Probe ==
  [key : Devices, ip : Addresses, generation : Id, probeID : Id, deadline : Time,
   started : Time \cup {NoTime}]            \* NoTime: still waiting for a slot
Result ==
  [key : Devices, ip : Addresses, generation : Id, probeID : Id, deadline : Time,
   started : Time, online : BOOLEAN, checked : Time]

\* The three places that emit an event differ in where the loop goes next and
\* in what a cancelled emission makes Start return.
Path     == {"async", "drain", "netlink"}
Emission == [key : Devices, type : Event \ {Silent}, path : Path]
Returned == {"returned nil", "returned error"}
Running  == pc \notin Returned

TypeOK ==
  /\ clock \in Time
  /\ inputs \in Nat
  /\ ctxDone \in BOOLEAN
  /\ sniffer \in {"running", "failed", "stopped", "none"}
  /\ captured \in SUBSET Frame
  /\ traffic \in Seq(Frame)
  /\ netlink \in Seq(Message)
  /\ overrun \in BOOLEAN
  /\ tick \in BOOLEAN
  /\ probes \in SUBSET Probe
  /\ probeResults \in Seq(Result)
  /\ DOMAIN states \subseteq Devices
  /\ states \in [DOMAIN states -> DeviceState]
  /\ activeProbes \in Int
  /\ pc \in {"async", "drain", "recv", "emit"} \cup Returned
  /\ held \in SUBSET Result
  /\ outgoing \in SUBSET Emission
  /\ heard \in [Devices -> Time \cup {NoTime}]
  /\ missed \in [Devices -> Time \cup {NoTime}]
  /\ announced \in [Devices -> Event]

\* loadSnapshot has put an arbitrary part of the kernel's neighbour table into
\* the map, unverified; the sniffer runs only when disconnections are wanted.
Init ==
  /\ clock = 0
  /\ inputs = 0
  /\ ctxDone = FALSE
  /\ sniffer = IF DetectOffline THEN "running" ELSE "none"
  /\ captured = {}
  /\ traffic = <<>>
  /\ netlink = <<>>
  /\ overrun = FALSE
  /\ tick = FALSE
  /\ probes = {}
  /\ probeResults = <<>>
  /\ \E known \in SUBSET Devices : \E address \in [known -> Addresses] :
       states = [d \in known |-> NewDeviceState(address[d], FALSE, 0)]
  /\ activeProbes = 0
  /\ pc = "async"
  /\ held = {}
  /\ outgoing = {}
  /\ heard = [d \in Devices |-> NoTime]
  /\ missed = [d \in Devices |-> NoTime]
  /\ announced = [d \in Devices |-> Silent]
-----------------------------------------------------------------------------
(***************************************************************************)
(* The environment.                                                        *)
(***************************************************************************)

\* The ticker drops a tick that finds the previous one unread.
Tick ==
  /\ clock < MaxTime
  /\ clock' = clock + 1
  /\ tick' = TRUE
  /\ UNCHANGED <<inputs, ctxDone, sniffer, captured, traffic, netlink, overrun,
                 probing, loop, history>>

\* The clock of the model has stopped, the ticker has not.
IdleTick ==
  /\ clock = MaxTime
  /\ tick' = TRUE
  /\ UNCHANGED <<environment, sniffer, captured, traffic, netlink, overrun,
                 probing, loop, history>>

Cancel ==
  /\ ~ctxDone
  /\ ctxDone' = TRUE
  /\ UNCHANGED <<clock, inputs, senses, probing, loop, history>>

Input ==
  /\ inputs < MaxInputs
  /\ inputs' = inputs + 1
  /\ UNCHANGED <<clock, ctxDone>>

\* The kernel reports a neighbour whose state counts as active.  A message
\* that finds the socket full is lost, and the next read says so.
NeighborMessage(d, ip, confirmed) ==
  /\ Input
  /\ IF Len(netlink) < NetlinkCapacity
     THEN /\ netlink' = Append(netlink, [mac |-> d, ip |-> ip, confirmed |-> confirmed])
          /\ UNCHANGED overrun
     ELSE /\ overrun' = TRUE
          /\ UNCHANGED netlink
  /\ UNCHANGED <<sniffer, captured, traffic, tick, probing, loop, history>>
-----------------------------------------------------------------------------
(***************************************************************************)
(* The sniffer.                                                            *)
(***************************************************************************)

\* A frame is read from the packet socket and stamped.
Capture(d) ==
  /\ Input
  /\ sniffer = "running"
  /\ captured = {}
  /\ captured' = {[mac |-> d, observedAt |-> clock]}
  /\ UNCHANGED <<sniffer, traffic, netlink, overrun, tick, probing, loop, history>>

\* The send on the channel: it never blocks, a frame is dropped instead.
Deliver ==
  /\ \E f \in captured :
       IF Len(traffic) < TrafficCapacity
       THEN /\ traffic' = Append(traffic, f)
            /\ heard' = [heard EXCEPT ![f.mac] = Later(@, f.observedAt)]
       ELSE UNCHANGED <<traffic, heard>>
  /\ captured' = {}
  /\ UNCHANGED <<environment, sniffer, netlink, overrun, tick, probing, loop,
                 missed, announced>>

\* A read error: the context is looked at here and nowhere else.
SnifferEnds ==
  /\ sniffer = "running"
  /\ captured = {}
  /\ sniffer' = IF ctxDone THEN "stopped" ELSE "failed"
  /\ UNCHANGED <<environment, captured, traffic, netlink, overrun, tick, probing,
                 loop, history>>
-----------------------------------------------------------------------------
(***************************************************************************)
(* The probes.                                                             *)
(***************************************************************************)

\* A probe that starts after its deadline is given one microsecond, which no
\* answer meets.
ProbeEnd(p) == Later(p.started, p.deadline)

\* Answers count until the settle window opens, or until the end when the
\* probe starts inside the settle window.
AnswerBy(p) ==
  IF ProbeEnd(p) - SettleWindow > p.started
  THEN ProbeEnd(p) - SettleWindow
  ELSE ProbeEnd(p)

SlotsTaken == Cardinality({p \in probes : p.started # NoTime})

ProbeStart(p) ==
  /\ p.started = NoTime
  /\ SlotsTaken < MaxConcurrentProbes
  /\ probes' = (probes \ {p}) \cup {[p EXCEPT !.started = clock]}
  /\ UNCHANGED <<environment, senses, probeResults, loop, history>>

\* The clock is read, the slot freed and the result sent; the channel has room
\* for it (ProbeBudget).
ProbeReport(p, online) ==
  /\ Len(probeResults) < 2 * MaxConcurrentProbes
  /\ probes' = probes \ {p}
  /\ probeResults' = Append(probeResults,
       [key |-> p.key, ip |-> p.ip, generation |-> p.generation,
        probeID |-> p.probeID, deadline |-> p.deadline, started |-> p.started,
        online |-> online, checked |-> clock])

ProbeAnswered(p) ==
  /\ p.started # NoTime
  /\ clock < AnswerBy(p)
  /\ Input
  /\ ProbeReport(p, TRUE)
  /\ UNCHANGED <<senses, loop, history>>

\* Mutant: a probe that fails reports nothing.
ProbeFailedSilently(p) ==
  /\ p.started # NoTime
  /\ clock >= ProbeEnd(p)
  /\ probes' = probes \ {p}
  /\ UNCHANGED <<environment, senses, probeResults, loop, history>>

\* A probe without an answer, or that could not be sent, waits for its end.
ProbeFailed(p) ==
  /\ p.started # NoTime
  /\ clock >= ProbeEnd(p)
  /\ ProbeReport(p, FALSE)
  /\ UNCHANGED <<environment, senses, loop, history>>

\* The context wins one of the three selects of runProbe.
ProbeAbandoned(p) ==
  /\ ctxDone
  /\ probes' = probes \ {p}
  /\ UNCHANGED <<environment, senses, probeResults, loop, history>>
-----------------------------------------------------------------------------
(***************************************************************************)
(* The main loop.                                                          *)
(***************************************************************************)

After(path) == IF path = "drain" THEN "drain" ELSE "async"

\* What the loop does with what the tracker answered about device d.
Conclude(d, outcome, path) ==
  /\ states' = [e \in DOMAIN states \cup {d} |->
                  IF e = d THEN outcome.state ELSE states[e]]
  /\ IF outcome.event = Silent
     THEN /\ pc' = After(path)
          /\ UNCHANGED <<outgoing>>
     ELSE /\ pc' = "emit"
          /\ outgoing' = {[key |-> d, type |-> outcome.event, path |-> path]}

\* A frame of a device the tracker does not know is ignored.
TakeTraffic ==
  /\ pc \in {"async", "drain"}
  /\ traffic # <<>>
  /\ traffic' = Tail(traffic)
  /\ LET f == Head(traffic) IN
       IF f.mac \in DOMAIN states
       THEN /\ Conclude(f.mac, ObserveTraffic(states[f.mac], f.observedAt), pc)
            /\ missed' = IF Outdated(states[f.mac], f.observedAt) THEN missed
                         ELSE [missed EXCEPT ![f.mac] = NoTime]
       ELSE UNCHANGED <<states, pc, outgoing, missed>>
  /\ UNCHANGED <<environment, sniffer, captured, netlink, overrun, tick, probing,
                 activeProbes, held, heard, announced>>

\* A result is applied only after the frames that were queued before it.
TakeResult ==
  /\ pc = "async"
  /\ probeResults # <<>>
  /\ held' = {Head(probeResults)}
  /\ probeResults' = Tail(probeResults)
  /\ activeProbes' = activeProbes - 1
  /\ pc' = "drain"
  /\ UNCHANGED <<environment, senses, probes, states, outgoing, history>>

\* Mutant: the result overtakes the frames queued before it.
DrainedAnyway == TRUE

\* The inner select has found the channel of frames empty.
Drained == traffic = <<>>

ApplyResult ==
  /\ pc = "drain"
  /\ Drained
  /\ held' = {}
  /\ \E r \in held :
       LET s == states[r.key] IN
       /\ Conclude(r.key, ApplyProbe(s, r), "async")
       /\ heard' = IF r.online /\ ~Superseded(s, r)
                   THEN [heard EXCEPT ![r.key] = Later(@, r.checked)]
                   ELSE heard
       /\ missed' = IF Superseded(s, r) THEN missed
                    ELSE IF r.online THEN [missed EXCEPT ![r.key] = NoTime]
                    ELSE IF missed[r.key] = NoTime
                         THEN [missed EXCEPT ![r.key] = r.checked]
                    ELSE missed
  /\ UNCHANGED <<environment, senses, probing, activeProbes, announced>>

\* beginProbes: the devices with the earliest deadlines, as many as the budget
\* allows; which of several equal ones is up to the map and the sort.
Selection(limit) ==
  LET due      == {d \in DOMAIN states : Due(states[d], clock)}
      wanted   == IF Cardinality(due) < limit THEN Cardinality(due)
                  ELSE IF limit < 0 THEN 0 ELSE limit
      urgent(d) == ProbeDeadline(states[d])
  IN  {chosen \in SUBSET due :
         /\ Cardinality(chosen) = wanted
         /\ \A d \in chosen, e \in due \ chosen : urgent(d) <= urgent(e)}

NewProbe(d) ==
  [key        |-> d,
   ip         |-> states[d].ip,
   generation |-> states[d].generation,
   probeID    |-> Successor(states[d].probeID),
   deadline   |-> ProbeDeadline(states[d]),
   started    |-> NoTime]

\* Mutant: the probes under way are not subtracted.
FreeProbesUncounted == MaxConcurrentProbes

\* How many more probes may run.
FreeProbes == MaxConcurrentProbes - activeProbes

TakeTick ==
  /\ pc = "async"
  /\ tick
  /\ tick' = FALSE
  /\ IF DetectOffline
     THEN \E chosen \in Selection(FreeProbes) :
            /\ states' = [d \in DOMAIN states |->
                            IF d \in chosen THEN BeginProbe(states[d])
                                            ELSE states[d]]
            /\ probes' = probes \cup {NewProbe(d) : d \in chosen}
            /\ activeProbes' = activeProbes + Cardinality(chosen)
     ELSE UNCHANGED <<states, probes, activeProbes>>
  /\ UNCHANGED <<environment, sniffer, captured, traffic, netlink, overrun,
                 probeResults, pc, held, outgoing, history>>

\* The sniffer's return: an error ends the collector unless it is cancelled.
TakeSnifferEnd ==
  /\ pc = "async"
  /\ sniffer \in {"failed", "stopped"}
  /\ sniffer' = "none"
  /\ pc' = IF sniffer = "failed" /\ ~ctxDone THEN "returned error" ELSE pc
  /\ UNCHANGED <<environment, captured, traffic, netlink, overrun, tick, probing,
                 states, activeProbes, held, outgoing, history>>

\* Mutant: break leaves the select and not the function.
OnDoneBreak == pc

\* A cancelled context is no error of the collector.
OnDone == "returned nil"

TakeDone ==
  /\ pc = "async"
  /\ ctxDone
  /\ pc' = OnDone
  /\ UNCHANGED <<environment, senses, probing, states, activeProbes, held,
                 outgoing, history>>

\* The default branch: nothing is ready.  (The code runs processAsync at the
\* end of an iteration and again at the start of the next: one visit here.)
GoReceive ==
  /\ pc = "async"
  /\ traffic = <<>>
  /\ probeResults = <<>>
  /\ ~tick
  /\ sniffer \in {"running", "none"}
  /\ ~ctxDone
  /\ pc' = "recv"
  /\ UNCHANGED <<environment, senses, probing, states, activeProbes, held,
                 outgoing, history>>

\* An unknown device enters the map with its first confirmed message.
Receive ==
  /\ pc = "recv"
  /\ ~overrun
  /\ netlink # <<>>
  /\ netlink' = Tail(netlink)
  /\ LET m == Head(netlink) IN
     /\ CASE m.mac \in DOMAIN states ->
               Conclude(m.mac, ObserveNeighbor(states[m.mac], m.ip, m.confirmed, clock),
                        "netlink")
          [] m.mac \notin DOMAIN states /\ m.confirmed ->
               Conclude(m.mac, Outcome(NewDeviceState(m.ip, TRUE, clock), "connected"),
                        "netlink")
          [] m.mac \notin DOMAIN states /\ ~m.confirmed ->
               pc' = "async" /\ UNCHANGED <<states, outgoing>>
     /\ heard' = IF m.confirmed THEN [heard EXCEPT ![m.mac] = Later(@, clock)] ELSE heard
     /\ missed' = IF m.confirmed THEN [missed EXCEPT ![m.mac] = NoTime] ELSE missed
  /\ UNCHANGED <<environment, sniffer, captured, traffic, overrun, tick, probing,
                 activeProbes, held, announced>>

\* The read timed out or was interrupted.
ReceiveNothing ==
  /\ pc = "recv"
  /\ ~overrun
  /\ pc' = IF ctxDone THEN "returned nil" ELSE "async"
  /\ UNCHANGED <<environment, senses, probing, states, activeProbes, held,
                 outgoing, history>>

\* ENOBUFS is not among the errors the loop survives.
ReceiveOverrun ==
  /\ pc = "recv"
  /\ overrun
  /\ overrun' = FALSE
  /\ pc' = IF ctxDone THEN "returned nil" ELSE "returned error"
  /\ UNCHANGED <<environment, sniffer, captured, traffic, netlink, tick, probing,
                 states, activeProbes, held, outgoing, history>>

\* The bus accepts the event.
EmitAccepted ==
  /\ pc = "emit"
  /\ \E o \in outgoing :
       /\ pc' = After(o.path)
       /\ announced' = [announced EXCEPT ![o.key] = o.type]
  /\ outgoing' = {}
  /\ UNCHANGED <<environment, senses, probing, states, activeProbes, held, heard,
                 missed>>

\* The context wins the select in Bus.Publish.  The loop forgives it, except
\* where it emits for a netlink message.
EmitCanceled ==
  /\ pc = "emit"
  /\ ctxDone
  /\ \E o \in outgoing :
       pc' = IF o.path = "netlink" THEN "returned error" ELSE "returned nil"
  /\ outgoing' = {}
  /\ UNCHANGED <<environment, senses, probing, states, activeProbes, held, history>>

Terminated ==
  /\ ~Running
  /\ UNCHANGED vars
-----------------------------------------------------------------------------
Environment ==
  \/ Tick
  \/ Cancel
  \/ \E d \in Devices, ip \in Addresses, confirmed \in BOOLEAN :
       NeighborMessage(d, ip, confirmed)

Sniffer ==
  \/ \E d \in Devices : Capture(d)
  \/ Deliver
  \/ SnifferEnds

ProbeStep(p) ==
  \/ ProbeStart(p)
  \/ ProbeAnswered(p)
  \/ ProbeFailed(p)
  \/ ProbeAbandoned(p)

MainLoop ==
  \/ TakeTraffic
  \/ TakeResult
  \/ ApplyResult
  \/ TakeTick
  \/ TakeSnifferEnd
  \/ TakeDone
  \/ GoReceive
  \/ Receive
  \/ ReceiveNothing
  \/ ReceiveOverrun
  \/ EmitAccepted
  \/ EmitCanceled

Next ==
  \/ Environment
  \/ Sniffer
  \/ \E p \in probes : ProbeStep(p)
  \/ MainLoop
  \/ Terminated

Spec == Init /\ [][Next]_vars
=============================================================================
