# Formal models of openwrt2mqtt

openwrt2mqtt watches a router's network, decides which devices have joined and
left it, and publishes `device.connected` and `device.disconnected` events over
MQTT. This directory holds TLA+ models of the program, TLC configurations that
check them on small instances, and TLAPS proofs of what matters most for
instances of every size. `PROJECT.json` maps every definition to the source
lines it stands for, and lists the runs, mutants, hazards and theorems.

## 1. The system

| Part | State | Operations | Talks to |
| --- | --- | --- | --- |
| Neighbour collector (`internal/collector/neighbor`) | `presenceTracker.states` (one `deviceState` per MAC), `activeProbes`, channels of frames and probe results, a ticker | main loop (`Start`, `processAsync`), sniffer (`observeTraffic`), one goroutine per ARP probe (`runProbe`) | netlink, two packet sockets, the bus |
| DHCP collector (`internal/collector/dhcp`) | `Tracker.transactions` with expiry | read loop (`PacketCollector.Start`), `Tracker.Observe`, the socket filter, the frame parser | a packet socket, the bus |
| hostapd collector (`internal/collector/hostapd`) | none of its own | scan the output of `logread`, parse `AP-STA-(DIS)CONNECTED` lines | a child process, the bus |
| `collector.Multi` | the results of the collectors, a context | run all, cancel the others when one returns, report the first error | the collectors, `App` |
| Bus (`internal/bus/memory`) | a bounded channel | `Publish` blocks while full, unless the context is cancelled | collectors to pipeline |
| Pipeline and `DeviceState` (`internal/pipeline`, `internal/processor`) | the last event type of each device | take an event, drop repetitions, filter by type, publish | bus to publisher |
| MQTT publisher (`internal/publisher/mqtt`) | the paho client | `connect`, `Publish`, `Close`, all through `waitToken` (done, cancelled or timed out) | the broker |
| `App` and `main` | two results, the signal's context | `NewRuntime`, `Run`, exit status | all of the above |
| Configuration, init script, procd | UCI file, environment | validate, load, start, reload, respawn | `main` |
| LuCI page, rpcd adapter, migration, packaging | - | settings form, shell adapters, build | the init script |

The hard behaviours are in five places.

* **The neighbour collector** infers absence. Four kinds of evidence (confirmed
  kernel messages, captured frames, ARP answers, ARP failures) come from
  different goroutines through different queues, each late by a different
  amount. It must not declare a device gone while a fresh frame waits in a
  channel, nor believe a probe that was sent before the latest evidence or to a
  previous address; and it must not forget a probe, or a departed device is
  never noticed.
* **The stop.** A signal, an error of any collector or of the pipeline must end
  everything, past a full bus, a blocked emission and an unanswered
  publication, and the exit status must say whether something failed.
* **The announcements.** Three collectors report on the same devices. The
  broker must receive each change once, in order, whatever the timing, and with
  one type of event disabled.
* **Two witnesses.** hostapd reports stations by itself, the neighbour collector
  infers; both may say "disconnected", each late in its own way, over one bus.
* **The lifetime.** Two programs in different languages judge the configuration,
  procd starts the process again and again, the broker comes and goes, and
  whatever the process knows ends with it.

What makes each component correct is in the property tables of section 4;
`PROJECT.json` lists every hazard of the code at the line where it bites, with
the property that covers it or the reason none does yet.

## 2. The modules

| Module | Models | Relation to the others |
| --- | --- | --- |
| `PresenceTracker` | `deviceState` and every operation of `presenceTracker`, as pure operators that return the new entry and the event | extended by the next |
| `NeighborCollector` | the loop, the sniffer and the probes as concurrent actions, with the environment | |
| `NeighborSafety`, `NeighborLiveness` | the properties, the inductive invariant, the fairness | `MCNeighbor`, `MCNeighborLive` instantiate them |
| `DevicePresence` | the abstract promise of the collector: unknown, listed, present, absent, and the evidence for each move | refined by `NeighborCollector` |
| `NeighborRefinement` | the refinement mapping | |
| `DevicePresenceProofs`, `NeighborProofs`, `NeighborProbeProofs` | theorems on the abstract specification, on the collector and its refinement, and on its probes | each extended or instantiated by the next |
| `DhcpCollector` | the DHCP loop and `Tracker` | |
| `DhcpSafety`, `DhcpLiveness` | properties over a log of messages; stopping | `MCDhcp`, `MCDhcpLive`; `DhcpProofs` |
| `SocketFilter` | both BPF programs, run on a small machine, and the decisions of the parsers behind them | |
| `OptionParser` | the loop of `parsePayload` over the bytes of the options | |
| `DhcpInput` | the way of a frame through filter, `udpPayload` and `parsePayload` | composes the two; `MCSocketFilter`; `DhcpInputProofs` |
| `Runtime` | `App.Run`, `Multi.Start`, the bus, `Pipeline.Run`, `DeviceState`, the publisher's waits | collectors are reduced to announce, block, return |
| `AnnouncementFeed` | the abstract promise to subscribers: a feed of news | refined by `Runtime` |
| `RuntimeProperties` | properties, fairness, the refinement | `MCRuntime`; `RuntimeProofs` |
| `HostapdCollector` | the hostapd collector with stations that roam between access points | |
| `WirelessPresence` | the hostapd collector and the neighbour collector, as `DevicePresence`, on one bus before one `DeviceState` | composes the two; `MCWireless`; `WirelessProofs` |
| `Configuration` | the init script's and `FromEnvironment`'s reading of the options, `migrate-config` | |
| `MqttPublisher` | `connect`, `Publish`, `Close`, the client library, the broker and a subscriber | |
| `Service` | edits, the init script, procd, the process from `main` to its end | composes the two; `ServiceProperties`, `MCService`; `ServiceProofs` |

### Neighbour collector

`states` is the Go map: a function whose domain is the set of known devices.
The main loop's program counter `pc` is `async` in the select of
`processAsync`, `drain` in the inner loop that empties the channel of frames
before a probe result is applied, `recv` in the netlink read, `emit` inside
`Emit`, and one of two values once `Start` has returned. One action stands for
one case of a select with all that follows until the next point where the loop
can block or another goroutine can be observed. Three history variables record
what the code does not: `heard` (the last sign of life that reached the
collector, a delivered frame counting when it enters the channel), `missed`
(the first failed probe since) and `announced` (the last event the bus took).

The representation of the data:

* Time is an integer; its unit is the poll interval (250 ms), so every `Tick`
  makes the ticker fire. The zero `time.Time` is `NoTime`.
* `generation` and `probeID` are counters modulo `IdSpace` (2^64 in the code).
  The safety runs use 100, above any count they can reach, so that no
  wrap-around occurs that 2^64 could not show; the liveness runs, whose
  behaviours are infinite, need a small one to be finite.
* An event's payload, the log and the lease lookup are left out.
* A netlink datagram carries one message. The code loops over the messages of
  a datagram without returning to `processAsync`; here each is a visit of its
  own, which allows more interleavings.
* The two consecutive calls of `processAsync`, at the end of one iteration and
  the start of the next, are one visit.
* `loadSnapshot` is `Init`: an arbitrary set of unverified entries. What is
  notified while the table is dumped is part of that set.
* A probe whose context is cancelled may leave as soon as it is cancelled; the
  code first finishes its attempts.
* `Start`'s errors before the loop are left out: nothing runs yet.

`NeighborRefinement` maps this state to `DevicePresence`: an entry is `listed`
until it is verified, then `present` or `absent` as `online` says; the event the
loop is emitting is the announcement on its way. Ticks, probes, failed probes,
queues, generations and candidacies are invisible there. What remains is when a
device may change its place, and that every change that is news is told before
the next.

### DHCP collector

`transactions` is the Go map, keyed by transaction number and client. A frame
in the socket is a message that `ParseFrame` accepts, since the loop skips all
others before it looks at anything. `Sent` fixes the fields a message's type
makes irrelevant. `DhcpSafety` adds a log of the observed messages and judges
every announcement by the log alone, without reading the tracker's table: that
is a second, declarative definition of "complete handshake" against which the
table is checked.

### Socket filters

The instructions are those of the Go tables, with their jump offsets. The
machine has an accumulator, an index register and a program counter, as
classic BPF (`SO_ATTACH_FILTER`) defines them: a load beyond the frame rejects
it, `JumpSet` tests a mask. A frame is the fields the programs and the parsers
look at, behind any number of VLAN tags. `udpPayload` unwraps the tags; the filter
compares the type of the first with that of IPv4, so the kernel drops every tagged
DHCP packet the parser would have read. `DhcpFilterFitsParser` says that this, and
packets of another IP version that the filter does not look at, are all that the two
differ in. Nothing in the repository promises that tagged packets are seen.

`OptionParser` works on bytes: a code, a length, a value. Its fixed part (magic
cookie, hardware address) is well-formed or refused as a whole. `ParsedAsGiven`
compares what the loop returns with a definition without a loop, of the places
where codes are. The transaction tracker starts from its results
(`DhcpCollector.Sent`).

### Runtime

Each part is a goroutine of its own, connected by the two error channels, the
bus and three nested contexts (the signal's, the one `Run` cancels, the one
`Multi` cancels). A collector is where it is (`starting`, `reading`,
`emitting`, `returned`) and the event it is emitting. Its start may fail
(`StartFails`: a socket, the interface, `logread`), for the collectors in
`Spawning`, which start a process under the context, also because the context is
done already. `Unforgiving` holds the collectors
that may return the context's error as their own: the neighbour collector, on
one of its three paths. `enabled`, the types of event whose publication is
enabled, is chosen in `Init` and never changes. `inFlight` is the message the MQTT client has been
given: it may leave after `Publish` has given up, until the client is
disconnected. `published` is what the client has sent; what the network and
the broker do with it (loss at QoS 0, duplicates at QoS 1) is outside.

`NewRuntime` and `main` are in `Service`.

### Wireless stations

An access point logs a station's arrival when it associates, and its departure
when it notices it: a station that moves on is logged as arriving elsewhere
first. `logread -l 0` prints only what is logged while it runs. The map
iteration in `eventFields` looks for both markers in any order, but a line holds
one of them. `WirelessPresence` takes the neighbour collector at the level of
`DevicePresence`, which is what the refinement is for: at full detail the product
would be out of reach. With both types of event enabled `DeviceState.states` is
what a subscriber has been told, so the publication is left to `Runtime`.

### Configuration and service

The texts of an option stand for the cases that either reader distinguishes:
`00` is a positive integer for the script and zero for `Atoi`; `2^64` is out of
range for one of them; `8s` is the least allowed, and `7.9999999999999996s` is as
much in awk's floating point and 7.999999999 s in Go; `0.1ns` has a digit other than
0 and is no time at all; `2562048h` overflows 63 bits of nanoseconds. `Loaded` and
`Valid` are the script's, `FromEnvironment` is Go's. Where they differ (the script
takes `00`, `2^64`, `0.1ns`, `2562048h` and `7.9999999999999996s`, and asks for a
positive integer, a positive duration and at least 8 s), procd starts a process again
and again that ends at once (`RefuseEnvironment`), until it gives up.

The script's steps are separate (`Reload` with its validation, `StopService`,
`StartService` with the second one), so edits fall between them. procd, an
external program, runs the script after an edit, starts an instance again 5 s
after it has ended and gives up when it has been short-lived `Retry` times in a
row; `Exits` chooses whether a life was long. The manual `stop` and `start` of the
script, and options that are never refused, are left out.

`MqttPublisher` holds one publication at a time, as the pipeline does. The client
library keeps a message at QoS 1 and 2 until it is acknowledged and writes it
again after a reconnection; at QoS 0 it is done when handed over. `belief` is
what a subscriber was last told of each device; it outlives the process.
A connection may break at any time while the broker goes on (`ConnectionBreaks`);
nothing is assumed of why.
`Disconnects` drops all the client knew, as the clean session does.

## 3. The environment and the fairness

Nothing is assumed of frames, messages, ARP answers, signals and failures:
they may come in any order or never. What is assumed:

* **A runnable goroutine runs** (weak fairness): the steps after a select, the
  sniffer's delivery, a probe's start and end, a channel receive that can
  proceed.
* **A select is fair** (strong fairness per case): Go picks among the ready
  cases at random, so a case that is ready again and again is picked.
* **The ticker keeps firing**, also when the bounded clock has stopped
  (`IdleTick`).
* **An emission ends** (weak fairness on taken-or-cancelled): the pipeline
  consumes, or fails, which cancels the context.
* **An operation of the MQTT client ends**: it is done, cancelled or times out.
* **A collector notices a cancellation** (`SF(CollectorStops)` in the runtime).
  For the neighbour collector the `recv` timeout of 250 ms justifies it, and
  `ShutdownCompletes` checks it; for hostapd the child process is killed with
  the context. For DHCP it holds only if the interface falls silent for a
  second now and then: `DhcpQuiet` shows that this suffices and
  `DhcpNeverQuiet` that it is necessary.
* **The script and procd do their next step, and a process what it has started**
  (`ServiceFairness`). Nobody has to edit anything, and the process may fail again
  and again.
* **A device that stays is heard again** (`WirelessPresence.Fairness`, on `Return`
  only), and both collectors and the pipeline run.

What is assumed of programs outside the repository:

* paho connects once and fails if it cannot, reconnects a connection that was
  lost, keeps a message at QoS 1 and 2 until it is acknowledged, and may write
  what it was given until it is disconnected.
* A connection may break at any time, be it for the network, the broker, or another
  client that has taken the client ID.
* procd runs one script at a time and counts an instance that has lived for an
  hour as well.
* Every access point logs in the order of what it sees; nothing orders the logs
  of two of them but the time at which they are written.

## 4. The runs

All passing runs finish; deadlock is checked everywhere except in
`SocketFilters`, where a program really halts, and in the two wireless runs, where
both collectors may have returned and the stations may have used up their moves.
Elsewhere a returned program stutters explicitly (`Terminated`).

| Run | Question | Properties | Instance |
| --- | --- | --- | --- |
| `NeighborDevices` | Are devices treated right, also when they change their address and share a probe? | `ImplementsPresence`, `OfflineTimeElapsed`, `TwoFailedProbes`, `EventsFollowTracker`, `EventsAlternate`, `SnapshotIsSilent`, `ProbeBudget`, `NoProbeForgotten`, `PendingHasProbe`, `IInv` (with `TypeOK`) | timeout 3, confirmation window 1, probe window 2, settle 1, clock to 4, 1 slot; one device with 2 addresses and 2 inputs, or 2 devices with 1 address and 1 input (`Focus`) |
| `NeighborDeparture` | Is a departure noticed, and does a cancelled collector return? | `DepartureNoticed`, `ShutdownCompletes` | 1 device, 1 slot, clock to 3, 1 input |
| `NeighborStarved` | Is a departure noticed when stale entries fill the slots? | `DepartureNoticed` **violated** | 2 devices, 1 slot |
| `DhcpHandshakes` | Announced exactly at complete handshakes, and with the right contents? | `ConnectedIffHandshake`, `EventIsOfItsHandshake`, `TableFollowsLog`, `TypeOK` | 2 clients, 1 transaction number, TTL 2, clock to 2, 4 frames; contents for one client at one instant (`Focus`) |
| `DhcpQuiet` | Does a cancelled collector return on a quiet interface? | `StopsWhenCanceled` | 1 client |
| `DhcpNeverQuiet` | ... and on a busy one? | `StopsWhenCanceled` **violated** | 1 client |
| `SocketFilters` | Do filters and parsers agree, and are options read as given? | `DhcpFilterIsExact`, `DhcpFilterFitsParser`, `TrafficFilterFitsParser`, `ParsedAsGiven`, `StaysInPayload`, `TypeOK` | every value a test compares with and one beside it, 8 lengths around the loads, headers of 5 and 6 words behind 0 to 2 tags; up to 4 out of 13 pieces of options in any order; IP addresses of 2 bytes |
| `Runtime` | Does the broker receive the news, does everything end, and before `Run`, is a failure reported? | `ImplementsFeed`, `CaughtUp`, `NothingOutlivesRun`, `FailureIsReported`, `OneEndsAll`, `NewsIsPublished`, `TypeOK` | 2 devices, 2 collectors, bus of 1, 3 events (`FocusTypes`, `FocusStep`) |
| `RuntimeSignal` | Is a requested stop a clean one? | `StopIsNoFailure` **violated** | 1 collector, 1 event |
| `Service` | Does the service follow its configuration, come up, and tell its subscriber? | `ServiceMatchesConfig`, `StopsOnlyWhenTold`, `BeliefFollowsState`, `Served`, `TypeOK` | 7 configurations, 2 edits, 1 retry, 1 device, 3 announcements |
| `WirelessBelief` | Whom does the subscriber believe? | `AgreementIsBelieved`, `StayingIsBelieved`, `TypeOK` | 1 station, 2 access points, 2 moves, 2 lines of log, timeout 0, clock to 1, bus of 1 |
| `WirelessRoaming` | Is a disconnection published only after the offline time? | `PublishedAfterOfflineTime` **violated** | the same, but timeout 1, clock to 2 |

**Why the bounds are enough.** A disconnection needs the timeout to pass and
two probes; a clock a little beyond the timeout holds it together with the
interference of up to two inputs before, between and during the probes, and
the reconnection after. Capacities of one make every channel fill, with the
first message. One slot makes two devices contend. A wrong disconnection needs
one device; contention needs two; no rule mentions three, and `Focus` spends the
state space on either. What `Focus` cuts off is covered by the theorems of
section 5. For DHCP, a handshake takes three messages and a fourth disturbs it
(another client, a NAK, a new DISCOVER, a second ACK); TTL 2 in a clock of 2 has
messages before and at the instant of expiry. In the runtime a bus of one with three
events fills, drains and leaves both collectors blocked when the pipeline has
gone. Its two collectors are the two kinds that differ most, `Spawning` and
`Unforgiving`; the third, DHCP, does less than either: it never announces a
disconnection, and is neither. `FocusTypes` disables the one type or none, since
exchanging the two types everywhere turns one case into the other; `FocusStep`
lets one collector find the second device. In the service, two edits fall before,
between and after the steps of one reload; three announcements of one device are
news, repetition and news, with a connection lost before, during or after each.
Two moves take a station in and on to the other access point, with leaving and
being noticed unbounded. In `WirelessBelief` the timeout is 0, so a device may be lost
at any time: whatever an unbounded clock allows, with its time left out, is among the
run's behaviours. In particular a device that stays may be lost and heard again for
ever, and `StayingIsBelieved` asks that each such belief is corrected (with
`<>[]` in place of `[]<>` TLC finds it violated). `WirelessRoaming` is about time and has
a timeout of 1.

Each property has a mutant: a plausible error in one mapped definition
(`PROJECT.json`, "mutants"; marked in the modules) with which TLC finds the
property violated in the same run.

### What the violated runs show

* `NeighborStarved`. Entries of the start-up snapshot that never answer keep a
  deadline in the past for ever: `applyProbe` changes nothing for an unverified
  entry. `beginProbes` prefers the earliest deadlines, so as many such entries
  as there are slots (8) keep every later candidate from being probed, and its
  departure is never announced. The settings page promises the event after
  "the configured total offline time". Without the stale entry
  (`NeighborDeparture`) the departure is noticed.
* `DhcpNeverQuiet`. The DHCP loop looks at its context only when a read or an
  emission fails. As long as DHCP frames keep arriving within the one-second
  receive timeout, a cancelled collector reads on, and `Multi`, which waits for
  it, does not return.
* `RuntimeSignal`. A publication that finds the context done comes back as an
  error: `main` logs it and exits with status 1, although nothing failed. SIGTERM
  while the pipeline waits for the MQTT token is enough; the trace shows that it
  need not even wait, since a select with the context done and an event queued may
  take the event. The pipeline's other path returns nil on purpose, and the tests
  expect nil. The run has only the DHCP collector: `Runtime` also models the
  neighbour collector emitting for a netlink message, and hostapd whose `logread`
  has not been started yet, which end in the same way.
* `WirelessRoaming`. A line of hostapd is believed at once. A station that moves
  from one access point of the router to another is logged as leaving the first
  after it has joined the second: `device.disconnected` is published for a device
  that is there and was just heard, although the settings page describes the
  offline time as the "Total time from the last trusted online evidence until the
  device disconnection event is published." Nothing corrects this one while the device stays:
  the neighbour collector never lost it, so it has no news. `StayingIsBelieved`
  shows that this is the only way in which a device that stays can be left
  behind as disconnected: any other belief that it is gone is corrected, each time.

## 5. The proofs

All theorems hold for every value of the constants that satisfies the named
assumptions; every safety property of the passing runs is stated by one of them.

The assumptions are the named ones of the modules, and TLC evaluates them in the
runs:

* `CollectorAssumption`: sizes are natural numbers, there are finitely many devices.
* `TimingAssumption`: the windows fit into the timeout, which `config/runtime.go`
  enforces with its minimum of 8 s. `PresenceAssumption`, `IdAssumption`,
  `DhcpAssumption`, `LogAssumption`: times and sizes are natural numbers, and
  positive where the code has a positive constant.
* `RuntimeAssumption`, `WirelessAssumption`, `ServiceAssumption`: capacities are
  positive, there are finitely many collectors.
* `HostapdAssumption`, `ConfigurationAssumption`: the values that stand for "no
  access point", "no such address" and the router's name are told apart from others.
* `FrameAssumption`, `PayloadAssumption`: fields have the width of their headers, an
  IP header has 5 to 15 words, tags are of the two types, options are bytes. Frames and payloads are otherwise
  arbitrary sets, finite or not.

Three theorems of `NeighborProbeProofs` have a hypothesis of their own, below.

### Neighbour collector

`NeighborProofs` proves:

* `TypeCorrect`: `Spec => []TypeOK`.
* `EvidenceIsAccountedFor`: `Spec => []IInv`.
* `NoEarlyDisconnection`: `Spec => OfflineTimeElapsed`. No step declares a device
  disconnected before `OfflineTimeout` has passed since its last sign of life.

`OfflineTimeElapsed` relates a disconnection to `heard`, which the collector
does not know; it is not inductive. The invariant `IInv` says how the tracker's
own state bounds it:

1. `DeadlineIsTotal`: a candidate's deadline is its `lastSeen` plus the whole
   timeout. Hence a disconnection, which needs `checked >= offlineDeadline`,
   comes a full timeout after `lastSeen`.
2. `HeardIsAccountedFor`: a device's last sign of life is in `lastSeen`, or it is
   older than the disconnection it came too late for, or a frame at least as
   recent is still queued. A result is only applied when the channel of frames
   is empty and the device is online, which leaves the first case: `heard` is
   not later than `lastSeen`.
3. `ReadingsArePast`: every stamp lies in the past, so a deadline reached by
   `checked` is reached by the clock.
4. `ProbesAreAboutEntries`: the device of a result is in the map, so `states[r.key]`
   is defined where it is read.

The drain before `applyProbe` is what makes the second step work: the mutant
that drops it (`DrainedAnyway`) violates the property. The proof treats each
action in a step of its own; what an action does to one `deviceState` is in
lemmas about the operators of `PresenceTracker`. TLC checks `IInv` in `NeighborDevices`.

It also proves that the collector implements `DevicePresence`
(`CollectorImplementsPresence`). The steps are those of the collector: each maps
to a step of `DevicePresence` or leaves its variables alone. `RInv` adds to `IInv`
what the mapping needs:

1. `EmittingOnlyAtEmit`: an event is on its way only while the loop is at `emit`, so
   a step that moves a device finds nothing pending.
2. `UnconfirmedIsOnline`: an entry that was only read from the kernel's table never
   goes offline, so nothing but `Confirm` leaves `listed`.
3. `FramesAreHeard`: a queued frame is not younger than the last sign of its
   device, so taking it is no sign of its own.

`Lose` asks for the full timeout, and that is again `DeadlineIsTotal` and
`HeardIsAccountedFor`. `Return` asks for a sign that is not older than the
disconnection: `Outdated` discards the frames that are.

`DevicePresenceProofs` proves the invariant `PInv` of the abstract specification
(`PresenceInvariant`): one announcement at a time, that announcements alternate, that the
last one says what is believed, and that nothing is said of a device nobody has
heard. Carried through the mapping, it yields three properties of the collector
without another look at its steps: `FollowersAreUpToDate`, `NoEventIsRepeated` and
`SnapshotStaysSilent`.

`NeighborProbeProofs` is about the probes, which run beside the loop.

* `ProbesStayInBudget` (`ProbeBudget`). A tick selects at most `FreeProbes` devices,
  and each adds at most one probe; a result that is taken gives back one. Hence a probe
  always finds a slot and room for its result: the guards of `ProbeStart` and
  `ProbeReport` never make it wait.
* `EveryMarkHasItsProbe` (`PendingHasProbe`), `DisconnectionTakesTwoProbes`
  (`TwoFailedProbes`) and `NoSlotLeaksAway` (`NoProbeForgotten`), as long as no device
  is given a number twice.

The last three rest on a probe's number telling it from every other that is still
under way. The numbers wrap around: a probe that waits while 2^64 others of its device
come and go is confused with a new one, by the tracker in the first two, and by the
model, which keeps the probes in a set, in the third. So none of the three holds of
every behaviour, and they have the hypothesis `NumbersAreNotReused`: the bounds on the
inputs and on twice the ticks add up to less than the values of the counter. The run
`NeighborDevices` satisfies it, and so does every use of the program: at four ticks and
a million inputs a second, 2^64 numbers last for half a million years.

The invariant is `RequestInv`:

1. `NumbersSuffice` is where the hypothesis enters: an input and a tick use up one
   number and two, whether they still wait or have been taken.
2. `RequestsAreDistinct`: no two requests, on their way from a waiting probe to the
   result the loop holds, are of the same device and number.
3. `LiveRequestsArePending`: a request with the present number of its device is the
   one the device waits for. It began after the device's last sign of life and after
   the failed probe that counts against it, which is what `TwoFailedProbes` needs.
4. `PendingIsOutstanding`: until the context is cancelled, a device that waits has such
   a request.

### DHCP collector

`DhcpProofs` proves `ConnectedIffHandshake` (`AnnouncedIffHandshake`) for every
sequence of messages: the tracker, which keeps one entry per transaction and forgets
the messages, announces exactly what the definition over the whole log calls a
complete handshake. The invariant is `TableFollowsLog` (`TableIsDigest`): the table
holds the transactions that the log leaves open (`OpenFrom`), each with its last sign
of life. The proof says what one more message changes in the log (`OpenAppended`,
`OpenNew`, `HandshakeAppended`) and that `Observe` changes the table likewise, for the
message's own transaction (`AgreesHere`) and for the others (`AgreesElsewhere`).
`LogOK` adds that the log's times lie in the past, so the latest sign of life is the
one that counts.

`EventTellsItsHandshake` (`EventIsOfItsHandshake`) is about what an announcement says:
the acknowledged address, or else the address requested last, and the last host name
of that very handshake. `TableRecounts` adds to the invariant that an entry holds these
two of the messages that keep its transaction alive.

`DhcpInputProofs` is about what lies before the tracker, for frames and options of any
length and content.

* `FilterTypeCorrect`, `FilterIsExact`, `FilterFitsParser`, `SnifferSeesAllSenders`.
  The invariants `DhcpInv` and `TrafficInv` are annotations of the two programs:
  `DhcpKnows` and `TrafficKnows` say what is known of the frame, and what the registers
  hold, at each instruction. Each instruction is a step of the proof.
* `NoReadBeyondPayload` (`StaysInPayload`): the parser's offset stays between 1 and one
  beyond the last byte, and what it keeps are bytes.
* `OptionsAreParsedAsGiven` (`ParsedAsGiven`): the loop agrees with a definition that
  looks at the whole payload at once. `ReadInv` says how far the loop is: its offset is
  the place of a code, the codes before it have been passed without an end option
  among them, and the message is what these codes say. The definition, `Codes`, is a
  recursive function over the places. No induction is needed to reason about it: the
  least set of places that is closed under "the next code follows this one" solves
  the recursion (`CodesSolve`), and the code after a place is the least element beyond
  it (`AfterCode`).

### Runtime

`RuntimeProofs` proves `NothingOutlivesRun` and `FailureIsReported`. Both are read
off the same books: `MultiAccounts` and `AppAccounts` say that every part that has
returned is a result received or a result still in a channel, and `ErrorsAccounted`
that the same goes for every error. When `Run` has received two results, both
channels are empty and every part has returned (`AllAreAccountedFor`), so `appError`
is where the errors are. A step either leaves the books alone or is one of five kinds
(`StepKinds`).

`RuntimeImplementsFeed` proves the refinement of `AnnouncementFeed`, and
`NothingLiesBehind` the invariant `CaughtUp`. `FeedInv` says where each announcement
is: what has been accepted is what the pipeline has taken, followed by the bus
(`BusIsBacklog`); the n-th message published is the n-th piece of news among what was
taken, and the client holds one more at most (`SentInOrder`); and `DeviceState`
remembers the last announcement taken of each device (`MemoryIsCurrent`), so that what
it drops is no news. `Rank` counts the news up to a place; the lemmas on it say that
one more announcement changes no rank before it.

### Both wireless collectors

`WirelessProofs` proves `AgreementIsReached` (`AgreementIsBelieved`): whatever the
interleaving on the bus, once nothing is under way the subscriber believes what the
two collectors agree on. The invariant's core is `WordArrives`: hostapd's last word
about a station is in the log, or being emitted, or on the bus, and then the bus ends
on it, or on what the neighbour collector told last. When the two agree, either end is
the same. It needs the types, `PInv` of `DevicePresenceProofs`, which the composition
inherits because each of its steps is a step of `DevicePresence` or none
(`PresenceSteps`), and that one event is emitted at a time.

### Service

`ServiceProofs` has two invariants. `ProcdInv` is about the script and procd:
`InstanceInv` (an instance was started with a valid configuration, and has retries left
while it lives) and `AnswerInv` (between its two looks the script still holds the
configuration valid, unless an edit waits for an answer). From it follow
`ConfigurationIsObeyed` and `ReloadsDoNotStop`. `InsideInv` is about the
process and the broker: what is under way belongs to a process and to an open
connection (`LinkInv`), and at QoS 1 and 2 the subscriber is behind `DeviceState` by
the one message that is being published, which is kept until it is acknowledged
(`DeliveryInv`). From it follow `SubscriberFollows` and
`ServiceTypeCorrect`.

### Only model-checked

Liveness: `DepartureNoticed`, `StopsWhenCanceled`, `ShutdownCompletes`, `OneEndsAll`,
`NewsIsPublished`, `Served` and `StayingIsBelieved`. Each needs fairness, and with it
`ENABLED`, which the prover cannot treat. TLC checks them on the instances of section 4.
The violated properties of section 4 are shown by TLC's counterexamples.

## 6. Not modelled

* The contents of events, topics, JSON, logging and lease files: no decision
  depends on them.
* Netlink attributes, ARP replies byte by byte, and the lines of hostapd:
  represented by what is taken from them.
* What a tagged frame holds at the offsets the programs read, beyond its first tag:
  no program looks there. IP headers shorter than 5 words.
* The connection test (`TestConnection`, `mqtt-test`). It is a process of its own,
  connects once under a random client ID and leaves; should it ever take the
  service's ID, that is `ConnectionBreaks`.
* The order of table dump and notifications at the start of the neighbour
  collector (an arbitrary snapshot stands for it), and the errors of the
  collectors' set-up beyond "it fails".
* What ends the service for good. `Served` excuses an instance that procd has given
  up, after `Retry` short lives, and configurations the program refuses.
* procd's timing in seconds, a manual stop or start of the script, and options
  that neither reader refuses.
* The LuCI page, the status report of the rpcd adapter (its reload is the
  script's own), the control interface (which has no implementation),
  packaging and release scripts.

## 7. What could come next

Models: the start of the neighbour collector, with notifications that overtake the
dump of the table; several routers that publish about the same device. Proofs: what
remains are the safety parts of the liveness properties (that a step which is to be
taken fairly stays enabled until it is), an abstract specification of the service
that both the script and procd implement, and the refinement that would show it.
