--------------------------- MODULE NeighborProofs ---------------------------
(***************************************************************************)
(* The neighbour collector declares no disconnection before the offline    *)
(* timeout has passed, and implements DevicePresence, so that what         *)
(* DevicePresence promises of its announcements holds of the events; for   *)
(* any number of devices, any timing constants and any schedule.           *)
(***************************************************************************)
EXTENDS NeighborRefinement, SequenceTheorems, FiniteSetTheorems, TLAPS

-----------------------------------------------------------------------------
(***************************************************************************)
(* The queues.                                                             *)
(***************************************************************************)

\* An appended element joins those of the queue.
LEMMA AppendRange ==
  ASSUME NEW S, NEW s \in Seq(S), NEW e \in S
  PROVE  /\ Append(s, e) \in Seq(S)
         /\ Range(Append(s, e)) = Range(s) \cup {e}
  <1>1. /\ Append(s, e) \in Seq(S)
        /\ DOMAIN Append(s, e) = 1 .. Len(s) + 1
        /\ DOMAIN s = 1 .. Len(s) /\ Len(s) \in Nat
        /\ \A i \in 1 .. Len(s) : Append(s, e)[i] = s[i]
        /\ Append(s, e)[Len(s) + 1] = e
    BY AppendProperties, LenProperties
  <1> QED BY <1>1 DEF Range

\* The elements of a queue are its head and those of its tail.
LEMMA TailRange ==
  ASSUME NEW S, NEW s \in Seq(S), s # <<>>
  PROVE  /\ Tail(s) \in Seq(S)
         /\ Head(s) \in S
         /\ Range(s) = Range(Tail(s)) \cup {Head(s)}
  <1>1. /\ Tail(s) \in Seq(S) /\ Head(s) \in S
        /\ Len(s) \in Nat \ {0}
        /\ DOMAIN s = 1 .. Len(s)
        /\ DOMAIN Tail(s) = 1 .. Len(s) - 1
        /\ \A i \in 1 .. Len(s) - 1 : Tail(s)[i] = s[i + 1]
        /\ Head(s) = s[1]
    BY HeadTailProperties, LenProperties, EmptySeq
  <1>2. \A x \in Range(s) : x = s[1] \/ x \in Range(Tail(s))
    <2> TAKE x \in Range(s)
    <2>1. PICK i \in 1 .. Len(s) : x = s[i]
      BY <1>1 DEF Range
    <2>2. CASE i = 1
      BY <2>1, <2>2
    <2>3. CASE i # 1
      <3>1. i - 1 \in 1 .. Len(s) - 1 /\ Tail(s)[i - 1] = s[i]
        BY <1>1, <2>3
      <3> QED BY <3>1, <2>1, <1>1 DEF Range
    <2> QED BY <2>2, <2>3
  <1>3. s[1] \in Range(s) /\ Range(Tail(s)) \subseteq Range(s)
    BY <1>1 DEF Range
  <1> QED BY <1>1, <1>2, <1>3

\* The elements of a queue have the type of the queue.
LEMMA RangeType ==
  ASSUME NEW S, NEW s \in Seq(S)
  PROVE  Range(s) \subseteq S
  BY LenProperties, ElementOfSeq DEF Range

-----------------------------------------------------------------------------
(***************************************************************************)
(* What the tracker's operators do to an entry.                            *)
(***************************************************************************)

\* A new entry is an entry.
LEMMA NewDeviceStateType ==
  ASSUME NEW ip \in Addresses, NEW verified \in BOOLEAN, NEW now \in Time
  PROVE  NewDeviceState(ip, verified, now) \in DeviceState
  BY IdAssumption DEF NewDeviceState, DeviceState, Time, NoTime, Id

\* Counters stay in range.
LEMMA SuccessorType ==
  ASSUME NEW n \in Id
  PROVE  Successor(n) \in Id
  BY IdAssumption DEF Successor, Id

\* Fresh evidence never turns lastSeen back and withdraws the candidacy.
LEMMA MarkSeenProperties ==
  ASSUME NEW s \in DeviceState, NEW now \in Time
  PROVE  /\ MarkSeen(s, now) \in DeviceState
         /\ MarkSeen(s, now).online = s.online
         /\ MarkSeen(s, now).disconnectedAt = s.disconnectedAt
         /\ MarkSeen(s, now).offlineDeadline = NoTime
         /\ s.lastSeen <= MarkSeen(s, now).lastSeen
         /\ now <= MarkSeen(s, now).lastSeen
         /\ MarkSeen(s, now).lastSeen \in {s.lastSeen, now}
  <1> DEFINE m == MarkSeen(s, now)
  <1>1. /\ s.lastSeen \in Nat
        /\ s.generation \in Id
        /\ s.probeID \in Id
    BY DEF DeviceState, Time
  <1>2. Later(now, s.lastSeen) \in Time
    BY <1>1 DEF Later, Time
  <1>3. Successor(s.generation) \in Id /\ Successor(s.probeID) \in Id
    BY <1>1, SuccessorType
  <1>4. m \in DeviceState
    BY <1>2, <1>3 DEF MarkSeen, DeviceState
  <1>5. /\ m.online = s.online
        /\ m.disconnectedAt = s.disconnectedAt
        /\ m.offlineDeadline = NoTime
        /\ m.lastSeen = Later(now, s.lastSeen)
    BY DEF MarkSeen, DeviceState
  <1>6. /\ s.lastSeen <= Later(now, s.lastSeen)
        /\ now <= Later(now, s.lastSeen)
        /\ Later(now, s.lastSeen) \in {s.lastSeen, now}
    BY <1>1 DEF Later, Time
  <1> QED BY <1>4, <1>5, <1>6

\* What a message does to a known device.
LEMMA ObserveNeighborProperties ==
  ASSUME NEW s \in DeviceState, NEW ip \in Addresses, NEW confirmed \in BOOLEAN,
         NEW now \in Time
  PROVE  LET o == ObserveNeighbor(s, ip, confirmed, now) IN
         /\ o.state \in DeviceState
         /\ o.event \in {Silent, "connected"}
         /\ s.online => o.state.online
         /\ confirmed => o.state.online /\ now <= o.state.lastSeen
         /\ ~confirmed => o.state.online = s.online
         /\ s.lastSeen <= o.state.lastSeen
         /\ o.state.lastSeen \in {s.lastSeen, now}
         /\ o.state.disconnectedAt = s.disconnectedAt
         /\ o.state.offlineDeadline # NoTime =>
              /\ o.state.offlineDeadline = s.offlineDeadline
              /\ o.state.lastSeen = s.lastSeen
  <1> DEFINE moved == [s EXCEPT !.ip = ip]
             seen  == [moved EXCEPT !.verified = TRUE, !.online = TRUE]
  <1>1. moved \in DeviceState /\ seen \in DeviceState
    BY DEF DeviceState
  <1>2. seen.online /\ seen.lastSeen = s.lastSeen
        /\ seen.disconnectedAt = s.disconnectedAt
    BY DEF DeviceState
  <1>3. moved.online = s.online /\ moved.lastSeen = s.lastSeen
        /\ moved.disconnectedAt = s.disconnectedAt
        /\ moved.offlineDeadline = s.offlineDeadline
    BY DEF DeviceState
  <1>4. CASE confirmed
    <2>1. ObserveNeighbor(s, ip, confirmed, now).state = MarkSeen(seen, now)
      BY <1>4 DEF ObserveNeighbor, Outcome
    <2>2. ObserveNeighbor(s, ip, confirmed, now).event \in {Silent, "connected"}
      BY <1>4 DEF ObserveNeighbor, Outcome
    <2> HIDE DEF seen, moved
    <2>3. /\ MarkSeen(seen, now) \in DeviceState
          /\ MarkSeen(seen, now).online
          /\ MarkSeen(seen, now).disconnectedAt = s.disconnectedAt
          /\ MarkSeen(seen, now).offlineDeadline = NoTime
          /\ s.lastSeen <= MarkSeen(seen, now).lastSeen
          /\ now <= MarkSeen(seen, now).lastSeen
          /\ MarkSeen(seen, now).lastSeen \in {s.lastSeen, now}
      BY <1>1, <1>2, MarkSeenProperties
    <2> QED BY <2>1, <2>2, <2>3, <1>4
  <1>5. CASE ~confirmed
    <2>1. ObserveNeighbor(s, ip, confirmed, now) = Quiet(moved)
      BY <1>5 DEF ObserveNeighbor
    <2>2. /\ ObserveNeighbor(s, ip, confirmed, now).state = moved
          /\ ObserveNeighbor(s, ip, confirmed, now).event = Silent
      BY <2>1 DEF Quiet, Outcome
    <2> HIDE DEF seen, moved
    <2> QED BY <2>2, <1>1, <1>3, <1>5 DEF DeviceState, Time
  <1> QED BY <1>4, <1>5

\* What a frame does to a known device.
LEMMA ObserveTrafficProperties ==
  ASSUME NEW s \in DeviceState, NEW observedAt \in Time
  PROVE  LET o == ObserveTraffic(s, observedAt) IN
         /\ o.state \in DeviceState
         /\ o.event \in {Silent, "connected"}
         /\ s.online => o.state.online
         /\ s.lastSeen <= o.state.lastSeen
         /\ o.state.lastSeen \in {s.lastSeen, observedAt}
         /\ o.state.disconnectedAt = s.disconnectedAt
         /\ Outdated(s, observedAt) => o.state = s
         /\ ~Outdated(s, observedAt) => observedAt <= o.state.lastSeen
         /\ o.state.offlineDeadline # NoTime =>
              /\ o.state.offlineDeadline = s.offlineDeadline
              /\ o.state.lastSeen = s.lastSeen
  <1> DEFINE seen == [s EXCEPT !.verified = TRUE, !.online = @ \/ s.verified]
  <1>1. /\ seen \in DeviceState
        /\ s.online => seen.online
        /\ seen.lastSeen = s.lastSeen
        /\ seen.disconnectedAt = s.disconnectedAt
    BY DEF DeviceState
  <1>2. CASE Outdated(s, observedAt)
    <2>1. /\ ObserveTraffic(s, observedAt).state = s
          /\ ObserveTraffic(s, observedAt).event = Silent
      BY <1>2 DEF ObserveTraffic, Quiet, Outcome
    <2> QED BY <2>1, <1>2 DEF DeviceState, Time
  <1>3. CASE ~Outdated(s, observedAt)
    <2>1. /\ ObserveTraffic(s, observedAt).state = MarkSeen(seen, observedAt)
          /\ ObserveTraffic(s, observedAt).event \in {Silent, "connected"}
      BY <1>3 DEF ObserveTraffic, Outcome
    <2> HIDE DEF seen
    <2> QED BY <2>1, <1>1, <1>3, MarkSeenProperties
  <1> QED BY <1>2, <1>3

\* A device that is probed keeps everything a probe does not decide.
LEMMA BeginProbeProperties ==
  ASSUME NEW s \in DeviceState
  PROVE  /\ BeginProbe(s) \in DeviceState
         /\ BeginProbe(s).online = s.online
         /\ BeginProbe(s).lastSeen = s.lastSeen
         /\ BeginProbe(s).disconnectedAt = s.disconnectedAt
         /\ BeginProbe(s).offlineDeadline = s.offlineDeadline
  <1>1. s.probeID \in Id
    BY DEF DeviceState
  <1>2. Successor(s.probeID) \in Id
    BY <1>1, SuccessorType
  <1> QED BY <1>2 DEF BeginProbe, DeviceState

\* What the result of a probe does to the device it is about: only a failed
\* probe of a candidate whose deadline has passed takes the device offline.
LEMMA ApplyProbeProperties ==
  ASSUME NEW s \in DeviceState, NEW r \in Result
  PROVE  LET o == ApplyProbe(s, r) IN
         /\ o.state \in DeviceState
         /\ o.event \in {Silent, "disconnected"}
         /\ s.lastSeen <= o.state.lastSeen
         /\ o.state.lastSeen \in {s.lastSeen, r.checked}
         /\ o.state.disconnectedAt \in {s.disconnectedAt, r.checked}
         /\ ~s.online => ~o.state.online /\ o.state.disconnectedAt = s.disconnectedAt
         /\ s.online /\ ~o.state.online => BecomesOffline(s, r)
         /\ r.online /\ ~Superseded(s, r) => r.checked <= o.state.lastSeen
         /\ o.state.offlineDeadline # NoTime =>
              \/ o.state.offlineDeadline = o.state.lastSeen + OfflineTimeout
              \/ /\ o.state.offlineDeadline = s.offlineDeadline
                 /\ o.state.lastSeen = s.lastSeen
  <1> DEFINE released == Release(s, r)
             verified == [released EXCEPT !.verified = TRUE]
             o        == ApplyProbe(s, r)
  <1>1. /\ released \in DeviceState
        /\ released.online = s.online
        /\ released.lastSeen = s.lastSeen
        /\ released.disconnectedAt = s.disconnectedAt
        /\ released.offlineDeadline = s.offlineDeadline
        /\ released.generation = s.generation
    BY DEF Release, DeviceState
  <1>2. s.lastSeen \in Nat /\ r.checked \in Nat /\ r.online \in BOOLEAN
    BY DEF DeviceState, Result, Time
  <1> HIDE DEF released
  <1>3. CASE Superseded(s, r)
    <2>1. o.state = released /\ o.event = Silent
      BY <1>3 DEF ApplyProbe, Quiet, Outcome, released
    <2> QED BY <2>1, <1>1, <1>2, <1>3
  <1>4. CASE ~Superseded(s, r) /\ r.online
    <2>1. /\ verified \in DeviceState
          /\ verified.online = s.online
          /\ verified.lastSeen = s.lastSeen
          /\ verified.disconnectedAt = s.disconnectedAt
      BY <1>1 DEF DeviceState
    <2>2. o.state = MarkSeen(verified, r.checked) /\ o.event = Silent
      BY <1>4 DEF ApplyProbe, Quiet, Outcome, released
    <2> HIDE DEF verified
    <2>3. r.checked \in Time
      BY <1>2 DEF Time
    <2>4. /\ o.state \in DeviceState
          /\ o.state.online = s.online
          /\ o.state.disconnectedAt = s.disconnectedAt
          /\ o.state.offlineDeadline = NoTime
          /\ s.lastSeen <= o.state.lastSeen
          /\ r.checked <= o.state.lastSeen
          /\ o.state.lastSeen \in {s.lastSeen, r.checked}
      BY <2>1, <2>2, <2>3, MarkSeenProperties
    <2> HIDE DEF o
    <2> QED BY <2>2, <2>4 DEF o
  <1>5. CASE ~Superseded(s, r) /\ ~r.online /\ BecomesCandidate(s, r)
    <2>1. o.state = Candidate(released) /\ o.event = Silent
      BY <1>5 DEF ApplyProbe, Quiet, Outcome, released
    <2>2. /\ Candidate(released) \in DeviceState
          /\ Candidate(released).offlineDeadline = s.lastSeen + OfflineTimeout
          /\ Candidate(released).lastSeen = s.lastSeen
          /\ Candidate(released).online = s.online
          /\ Candidate(released).disconnectedAt = s.disconnectedAt
      BY <1>1, <1>2, TimingAssumption DEF Candidate, DeviceState, Time
    <2> QED BY <2>1, <2>2, <1>2, <1>5
  <1>6. CASE /\ ~Superseded(s, r) /\ ~r.online /\ ~BecomesCandidate(s, r)
             /\ BecomesOffline(s, r)
    <2>1. o.state = Offline(released, r) /\ o.event = "disconnected"
      BY <1>6 DEF ApplyProbe, Outcome, released
    <2>2. /\ Offline(released, r) \in DeviceState
          /\ Offline(released, r).offlineDeadline = NoTime
          /\ Offline(released, r).lastSeen = s.lastSeen
          /\ Offline(released, r).disconnectedAt = r.checked
      <3>1. released.generation \in Id
        BY <1>1 DEF DeviceState
      <3>2. Successor(released.generation) \in Id
        BY <3>1, SuccessorType
      <3> QED BY <1>1, <1>2, <3>2 DEF Offline, DeviceState, Time, NoTime
    <2>3. s.online
      BY <1>6 DEF BecomesOffline, Missed
    <2> QED BY <2>1, <2>2, <2>3, <1>2, <1>6
  <1>7. CASE /\ ~Superseded(s, r) /\ ~r.online /\ ~BecomesCandidate(s, r)
             /\ ~BecomesOffline(s, r)
    <2>1. o.state = released /\ o.event = Silent
      BY <1>7 DEF ApplyProbe, Quiet, Outcome, released
    <2> QED BY <2>1, <1>1, <1>2, <1>7
  <1> QED BY <1>2, <1>3, <1>4, <1>5, <1>6, <1>7
-----------------------------------------------------------------------------
(***************************************************************************)
(* Types, and that every probe is about an entry of the map.               *)
(***************************************************************************)

Shape == TypeOK /\ ProbesAreAboutEntries

\* The main loop replaces the entry of one device and leaves the others.
LEMMA ConcludeProperties ==
  ASSUME TypeOK, NEW d \in Devices, NEW o, NEW path \in Path,
         o.state \in DeviceState, o.event \in Event,
         Conclude(d, o, path)
  PROVE  /\ DOMAIN states' = DOMAIN states \cup {d}
         /\ DOMAIN states' \subseteq Devices
         /\ states' \in [DOMAIN states' -> DeviceState]
         /\ states'[d] = o.state
         /\ \A e \in DOMAIN states : e # d => states'[e] = states[e]
         /\ outgoing' \in SUBSET Emission
         /\ pc' \in {"async", "drain", "emit"}
  <1>1. /\ DOMAIN states' = DOMAIN states \cup {d}
        /\ states'[d] = o.state
        /\ \A e \in DOMAIN states : e # d => states'[e] = states[e]
        /\ states' = [e \in DOMAIN states' |-> states'[e]]
    BY DEF Conclude
  <1>2. \A e \in DOMAIN states' : states'[e] \in DeviceState
    BY <1>1 DEF TypeOK
  <1>3. outgoing' \in SUBSET Emission
    BY DEF Conclude, TypeOK, Emission
  <1>4. pc' \in {"async", "drain", "emit"}
    BY DEF Conclude, After
  <1> QED BY <1>1, <1>2, <1>3, <1>4 DEF TypeOK

\* The initial states satisfy the inductive invariant of the types.
LEMMA ShapeInit == Init => Shape
  <1> SUFFICES ASSUME Init PROVE Shape
    OBVIOUS
  <1>1. PICK known \in SUBSET Devices : \E address \in [known -> Addresses] :
               states = [d \in known |-> NewDeviceState(address[d], FALSE, 0)]
    BY DEF Init
  <1>2. PICK address \in [known -> Addresses] :
               states = [d \in known |-> NewDeviceState(address[d], FALSE, 0)]
    BY <1>1
  <1>3. /\ DOMAIN states \subseteq Devices
        /\ \A d \in DOMAIN states : states[d] \in DeviceState
    BY <1>2, NewDeviceStateType DEF Time
  <1>4. states \in [DOMAIN states -> DeviceState]
    BY <1>2, <1>3
  <1>5. /\ traffic \in Seq(Frame) /\ netlink \in Seq(Message)
        /\ probeResults \in Seq(Result)
    BY EmptySeq DEF Init
  <1>6. /\ heard \in [Devices -> Time \cup {NoTime}]
        /\ missed \in [Devices -> Time \cup {NoTime}]
        /\ announced \in [Devices -> Event]
    BY DEF Init, Event
  <1>7. /\ clock \in Time /\ inputs \in Nat /\ activeProbes \in Int
        /\ sniffer \in {"running", "failed", "stopped", "none"}
        /\ pc \in {"async", "drain", "recv", "emit"} \cup Returned
        /\ captured = {} /\ probes = {} /\ held = {} /\ outgoing = {}
    BY DEF Init, Time
  <1>8. ctxDone \in BOOLEAN /\ overrun \in BOOLEAN /\ tick \in BOOLEAN
    BY DEF Init
  <1>9. /\ captured \in SUBSET Frame /\ probes \in SUBSET Probe
        /\ held \in SUBSET Result /\ outgoing \in SUBSET Emission
    BY <1>7
  <1>10. TypeOK
    BY <1>3, <1>4, <1>5, <1>6, <1>7, <1>9, <1>8 DEF TypeOK
  <1>11. Outstanding = {}
    BY EmptySeq, LenProperties DEF Init, Outstanding, Range
  <1> QED BY <1>10, <1>11 DEF Shape, ProbesAreAboutEntries

\* Every step preserves the types and keeps every probe about an entry.
LEMMA ShapeStep == Shape /\ [Next]_vars => Shape'
  <1> SUFFICES ASSUME Shape, [Next]_vars PROVE Shape'
    OBVIOUS
  <1>0. TypeOK /\ ProbesAreAboutEntries
    BY DEF Shape
  <1> USE DEF environment, senses, probing, loop, history
  <1>1. CASE Tick
    BY <1>1, <1>0 DEF Tick, Shape, TypeOK, ProbesAreAboutEntries, Outstanding, Time
  <1>2. CASE Cancel
    BY <1>2, <1>0 DEF Cancel, Shape, TypeOK, ProbesAreAboutEntries, Outstanding
  <1>3. ASSUME NEW d \in Devices, NEW ip \in Addresses, NEW confirmed \in BOOLEAN,
               NeighborMessage(d, ip, confirmed)
        PROVE  Shape'
    <2>1. [mac |-> d, ip |-> ip, confirmed |-> confirmed] \in Message
      BY DEF Message
    <2> DEFINE m == [mac |-> d, ip |-> ip, confirmed |-> confirmed]
    <2>2. netlink \in Seq(Message) /\ overrun \in BOOLEAN
      BY <1>0 DEF TypeOK
    <2>3. \/ netlink' = Append(netlink, m) /\ overrun' = overrun
          \/ netlink' = netlink /\ overrun' = TRUE
      BY <1>3 DEF NeighborMessage
    <2> HIDE DEF m
    <2>4. Append(netlink, m) \in Seq(Message)
      BY <2>1, <2>2, AppendRange DEF m
    <2>5. netlink' \in Seq(Message) /\ overrun' \in BOOLEAN
      BY <2>2, <2>3, <2>4
    <2> QED BY <1>3, <1>0, <2>5
        DEF NeighborMessage, Input, Shape, TypeOK, ProbesAreAboutEntries, Outstanding
  <1>4. ASSUME NEW d \in Devices, Capture(d)
        PROVE  Shape'
    BY <1>4, <1>0
    DEF Capture, Input, Shape, TypeOK, ProbesAreAboutEntries, Outstanding, Frame
  <1>5. CASE Deliver
    <2>1. PICK f \in captured :
            IF Len(traffic) < TrafficCapacity
            THEN /\ traffic' = Append(traffic, f)
                 /\ heard' = [heard EXCEPT ![f.mac] = Later(@, f.observedAt)]
            ELSE UNCHANGED <<traffic, heard>>
      BY <1>5 DEF Deliver
    <2>2. f \in Frame /\ f.mac \in Devices /\ f.observedAt \in Time
      BY <1>0 DEF TypeOK, Frame
    <2>3. traffic' \in Seq(Frame)
      <3>1. traffic \in Seq(Frame)
        BY <1>0 DEF TypeOK
      <3>2. Append(traffic, f) \in Seq(Frame)
        BY <3>1, <2>2, AppendRange
      <3> QED BY <3>1, <3>2, <2>1
    <2>4. heard' \in [Devices -> Time \cup {NoTime}]
      BY <2>1, <2>2, <1>0 DEF TypeOK, Later
    <2> QED BY <1>5, <1>0, <2>3, <2>4
        DEF Deliver, Shape, TypeOK, ProbesAreAboutEntries, Outstanding
  <1>6. CASE SnifferEnds
    BY <1>6, <1>0 DEF SnifferEnds, Shape, TypeOK, ProbesAreAboutEntries, Outstanding
  <1>7. ASSUME NEW p \in probes, ProbeStart(p)
        PROVE  Shape'
    <2>1. /\ [p EXCEPT !.started = clock] \in Probe
          /\ [p EXCEPT !.started = clock].key = p.key
      BY <1>0 DEF TypeOK, Probe
    <2> QED BY <1>7, <1>0, <2>1
        DEF ProbeStart, Shape, TypeOK, ProbesAreAboutEntries, Outstanding
  <1>8. ASSUME NEW p \in probes, NEW online \in BOOLEAN, p.started # NoTime,
               ProbeReport(p, online), inputs' \in Nat,
               UNCHANGED <<clock, ctxDone, senses, loop, history>>
        PROVE  Shape'
    <2> DEFINE r == [key |-> p.key, ip |-> p.ip, generation |-> p.generation,
                     probeID |-> p.probeID, deadline |-> p.deadline,
                     started |-> p.started, online |-> online, checked |-> clock]
    <2>1. r \in Result /\ r.key = p.key
      BY <1>8, <1>0 DEF TypeOK, Probe, Result
    <2>2. /\ probeResults' = Append(probeResults, r)
          /\ probes' = probes \ {p}
      BY <1>8 DEF ProbeReport
    <2> HIDE DEF r
    <2>3. /\ probeResults' \in Seq(Result)
          /\ Range(probeResults') = Range(probeResults) \cup {r}
      BY <2>1, <2>2, <1>0, AppendRange DEF TypeOK
    <2> QED BY <1>8, <1>0, <2>1, <2>2, <2>3
        DEF Shape, TypeOK, ProbesAreAboutEntries, Outstanding
  <1>9. ASSUME NEW p \in probes, ProbeAnswered(p)
        PROVE  Shape'
    <2>1. /\ p.started # NoTime
          /\ ProbeReport(p, TRUE)
          /\ UNCHANGED <<clock, ctxDone, senses, loop, history>>
          /\ inputs' = inputs + 1
      BY <1>9 DEF ProbeAnswered, Input
    <2>2. inputs' \in Nat
      BY <2>1, <1>0 DEF TypeOK
    <2> QED BY <2>1, <2>2, <1>8
  <1>10. ASSUME NEW p \in probes, ProbeFailed(p)
         PROVE  Shape'
    BY <1>8, <1>10, <1>0 DEF ProbeFailed, TypeOK
  <1>11. ASSUME NEW p \in probes, ProbeAbandoned(p)
         PROVE  Shape'
    BY <1>11, <1>0
    DEF ProbeAbandoned, Shape, TypeOK, ProbesAreAboutEntries, Outstanding
  <1>12. CASE TakeTraffic
    <2> DEFINE f == Head(traffic)
    <2>1. /\ f \in Frame /\ f.mac \in Devices /\ f.observedAt \in Time
          /\ traffic' \in Seq(Frame)
      <3>1. traffic \in Seq(Frame) /\ traffic # <<>> /\ traffic' = Tail(traffic)
        BY <1>12, <1>0 DEF TakeTraffic, TypeOK
      <3>2. f \in Frame /\ traffic' \in Seq(Frame)
        BY <3>1, TailRange
      <3> QED BY <3>2 DEF Frame
    <2> HIDE DEF f
    <2>2. CASE f.mac \notin DOMAIN states
      BY <1>12, <1>0, <2>1, <2>2
      DEF TakeTraffic, f, Shape, TypeOK, ProbesAreAboutEntries, Outstanding
    <2>3. CASE f.mac \in DOMAIN states
      <3> DEFINE o == ObserveTraffic(states[f.mac], f.observedAt)
      <3>1. o.state \in DeviceState /\ o.event \in Event
        BY <2>1, <2>3, <1>0, ObserveTrafficProperties DEF TypeOK, Event
      <3>2. Conclude(f.mac, o, pc) /\ pc \in Path
        BY <1>12, <2>3 DEF TakeTraffic, f, Path
      <3>3. missed' \in [Devices -> Time \cup {NoTime}]
        BY <1>12, <1>0, <2>3 DEF TakeTraffic, f, TypeOK
      <3> HIDE DEF o
      <3>4. /\ DOMAIN states \subseteq DOMAIN states'
            /\ DOMAIN states' \subseteq Devices
            /\ states' \in [DOMAIN states' -> DeviceState]
            /\ outgoing' \in SUBSET Emission
            /\ pc' \in {"async", "drain", "emit"}
        BY <3>1, <3>2, <2>1, <1>0, ConcludeProperties
      <3> QED BY <1>12, <1>0, <2>1, <3>3, <3>4
          DEF TakeTraffic, Shape, TypeOK, ProbesAreAboutEntries, Outstanding
    <2> QED BY <2>2, <2>3
  <1>13. CASE TakeResult
    <2>1. /\ Head(probeResults) \in Result
          /\ probeResults' \in Seq(Result)
          /\ Range(probeResults) = Range(probeResults') \cup {Head(probeResults)}
      BY <1>13, <1>0, TailRange DEF TakeResult, TypeOK
    <2> QED BY <1>13, <1>0, <2>1
        DEF TakeResult, Shape, TypeOK, ProbesAreAboutEntries, Outstanding
  <1>14. CASE ApplyResult
    <2> DEFINE After14(r) ==
          /\ Conclude(r.key, ApplyProbe(states[r.key], r), "async")
          /\ heard' = IF r.online /\ ~Superseded(states[r.key], r)
                       THEN [heard EXCEPT ![r.key] = Later(@, r.checked)]
                       ELSE heard
    <2>1. PICK r \in held : After14(r)
      BY <1>14 DEF ApplyResult
    <2>2. /\ r \in Result /\ r.key \in Devices /\ r.key \in DOMAIN states
          /\ r.checked \in Time /\ states[r.key] \in DeviceState
      BY <1>0 DEF TypeOK, ProbesAreAboutEntries, Outstanding, Result
    <2> DEFINE o == ApplyProbe(states[r.key], r)
    <2>3. o.state \in DeviceState /\ o.event \in Event
      BY <2>2, ApplyProbeProperties DEF Event
    <2>4. Conclude(r.key, o, "async")
      BY <2>1
    <2>5. heard' \in [Devices -> Time \cup {NoTime}]
      BY <2>1, <2>2, <1>0 DEF TypeOK, Later
    <2>6. missed' \in [Devices -> Time \cup {NoTime}]
      BY <1>14, <1>0 DEF ApplyResult, TypeOK, ProbesAreAboutEntries, Result
    <2> HIDE DEF o
    <2>7. /\ DOMAIN states \subseteq DOMAIN states'
          /\ DOMAIN states' \subseteq Devices
          /\ states' \in [DOMAIN states' -> DeviceState]
          /\ outgoing' \in SUBSET Emission
          /\ pc' \in {"async", "drain", "emit"}
      BY <2>3, <2>4, <2>2, <1>0, ConcludeProperties DEF Path
    <2> QED BY <1>14, <1>0, <2>5, <2>6, <2>7
        DEF ApplyResult, Shape, TypeOK, ProbesAreAboutEntries, Outstanding
  <1>15. CASE TakeTick
    <2>1. CASE ~DetectOffline
      BY <1>15, <1>0, <2>1
      DEF TakeTick, Shape, TypeOK, ProbesAreAboutEntries, Outstanding
    <2>2. CASE DetectOffline
      <3>1. PICK chosen \in Selection(FreeProbes) :
              /\ states' = [d \in DOMAIN states |->
                              IF d \in chosen THEN BeginProbe(states[d])
                                              ELSE states[d]]
              /\ probes' = probes \cup {NewProbe(d) : d \in chosen}
              /\ activeProbes' = activeProbes + Cardinality(chosen)
        BY <1>15, <2>2 DEF TakeTick
      <3>2. chosen \subseteq DOMAIN states
        BY DEF Selection
      <3>3. Cardinality(chosen) \in Int
        <4>1. IsFiniteSet(chosen)
          BY <3>2, <1>0, CollectorAssumption, FS_Subset DEF TypeOK
        <4> QED BY <4>1, FS_CardinalityType
      <3>4. \A d \in DOMAIN states :
              BeginProbe(states[d]) \in DeviceState /\ states[d] \in DeviceState
        BY <1>0, BeginProbeProperties DEF TypeOK
      <3>5. /\ DOMAIN states' = DOMAIN states
            /\ states' \in [DOMAIN states' -> DeviceState]
        BY <3>1, <3>4
      <3>6. ASSUME NEW d \in DOMAIN states
            PROVE  NewProbe(d) \in Probe /\ NewProbe(d).key = d
        <4>1. /\ states[d].ip \in Addresses /\ states[d].generation \in Id
              /\ states[d].probeID \in Id /\ d \in Devices
              /\ states[d].lastSeen \in Nat
              /\ states[d].offlineDeadline \in Time \cup {NoTime}
          BY <3>4, <1>0 DEF DeviceState, TypeOK, Time
        <4>2. Successor(states[d].probeID) \in Id
          BY <4>1, SuccessorType
        <4>3. ProbeDeadline(states[d]) \in Time
          BY <4>1, TimingAssumption DEF ProbeDeadline, Time
        <4> QED BY <4>1, <4>2, <4>3 DEF NewProbe, Probe
      <3>7. /\ probes' \in SUBSET Probe
            /\ \A q \in probes' : q.key \in DOMAIN states
        BY <3>1, <3>2, <3>6, <1>0 DEF TypeOK, ProbesAreAboutEntries, Outstanding
      <3>8. activeProbes' \in Int
        BY <3>1, <3>3, <1>0 DEF TypeOK
      <3> QED BY <1>15, <1>0, <2>2, <3>5, <3>7, <3>8
          DEF TakeTick, Shape, TypeOK, ProbesAreAboutEntries, Outstanding
    <2> QED BY <2>1, <2>2
  <1>16. CASE TakeSnifferEnd
    BY <1>16, <1>0
    DEF TakeSnifferEnd, Shape, TypeOK, Returned, ProbesAreAboutEntries, Outstanding
  <1>17. CASE TakeDone
    BY <1>17, <1>0
    DEF TakeDone, OnDone, Shape, TypeOK, Returned, ProbesAreAboutEntries, Outstanding
  <1>18. CASE GoReceive
    BY <1>18, <1>0 DEF GoReceive, Shape, TypeOK, ProbesAreAboutEntries, Outstanding
  <1>19. CASE Receive
    <2> DEFINE m == Head(netlink)
    <2>1. /\ m \in Message /\ netlink' \in Seq(Message)
          /\ m.mac \in Devices /\ m.ip \in Addresses /\ m.confirmed \in BOOLEAN
      <3>1. netlink \in Seq(Message) /\ netlink # <<>> /\ netlink' = Tail(netlink)
        BY <1>19, <1>0 DEF Receive, TypeOK
      <3>2. m \in Message /\ netlink' \in Seq(Message)
        BY <3>1, TailRange
      <3> QED BY <3>2 DEF Message
    <2>2. clock \in Time
      BY <1>0 DEF TypeOK
    <2> HIDE DEF m
    <2>3. /\ heard' \in [Devices -> Time \cup {NoTime}]
          /\ missed' \in [Devices -> Time \cup {NoTime}]
      BY <1>19, <1>0, <2>1, <2>2 DEF Receive, TypeOK, Later, m
    <2>4. ASSUME NEW o, o.state \in DeviceState, o.event \in Event,
                 Conclude(m.mac, o, "netlink")
          PROVE  Shape'
      <3>1. /\ DOMAIN states \subseteq DOMAIN states'
            /\ DOMAIN states' \subseteq Devices
            /\ states' \in [DOMAIN states' -> DeviceState]
            /\ outgoing' \in SUBSET Emission
            /\ pc' \in {"async", "drain", "emit"}
        BY <2>1, <2>4, <1>0, ConcludeProperties DEF Path
      <3> QED BY <1>19, <1>0, <2>1, <2>3, <3>1
          DEF Receive, Shape, TypeOK, ProbesAreAboutEntries, Outstanding
    <2>5. CASE m.mac \in DOMAIN states
      <3> DEFINE o == ObserveNeighbor(states[m.mac], m.ip, m.confirmed, clock)
      <3>1. o.state \in DeviceState /\ o.event \in Event
        BY <2>1, <2>2, <2>5, <1>0, ObserveNeighborProperties DEF TypeOK, Event
      <3>2. Conclude(m.mac, o, "netlink")
        BY <1>19, <2>5 DEF Receive, m
      <3> HIDE DEF o
      <3> QED BY <3>1, <3>2, <2>4
    <2>6. CASE m.mac \notin DOMAIN states /\ m.confirmed
      <3> DEFINE o == Outcome(NewDeviceState(m.ip, TRUE, clock), "connected")
      <3>1. o.state \in DeviceState /\ o.event \in Event
        BY <2>1, <2>2, NewDeviceStateType DEF Outcome, Event
      <3>2. Conclude(m.mac, o, "netlink")
        BY <1>19, <2>6 DEF Receive, m
      <3> HIDE DEF o
      <3> QED BY <3>1, <3>2, <2>4
    <2>7. CASE m.mac \notin DOMAIN states /\ ~m.confirmed
      <3>1. pc' = "async" /\ UNCHANGED <<states, outgoing>>
        BY <1>19, <2>7 DEF Receive, m
      <3> QED BY <1>19, <1>0, <2>1, <2>3, <3>1
          DEF Receive, Shape, TypeOK, ProbesAreAboutEntries, Outstanding
    <2> QED BY <2>1, <2>5, <2>6, <2>7
  <1>20. CASE ReceiveNothing
    BY <1>20, <1>0
    DEF ReceiveNothing, Shape, TypeOK, Returned, ProbesAreAboutEntries, Outstanding
  <1>21. CASE ReceiveOverrun
    BY <1>21, <1>0
    DEF ReceiveOverrun, Shape, TypeOK, Returned, ProbesAreAboutEntries, Outstanding
  <1>22. CASE EmitAccepted
    BY <1>22, <1>0
    DEF EmitAccepted, After, Shape, TypeOK, Emission, ProbesAreAboutEntries, Outstanding
  <1>23. CASE EmitCanceled
    BY <1>23, <1>0
    DEF EmitCanceled, Shape, TypeOK, Returned, ProbesAreAboutEntries, Outstanding
  <1>24. CASE UNCHANGED vars
    BY <1>24, <1>0 DEF vars, Shape, TypeOK, ProbesAreAboutEntries, Outstanding
  <1> QED
    BY <1>1, <1>2, <1>3, <1>4, <1>5, <1>6, <1>7, <1>9, <1>10, <1>11, <1>12, <1>13,
       <1>14, <1>15, <1>16, <1>17, <1>18, <1>19, <1>20, <1>21, <1>22, <1>23, <1>24
    DEF Next, Environment, Sniffer, ProbeStep, MainLoop, Terminated

\* The collector's variables keep their types.
THEOREM TypeCorrect == Spec => []TypeOK
  <1>1. Init => Shape
    BY ShapeInit
  <1>2. Shape /\ [Next]_vars => Shape'
    BY ShapeStep
  <1>3. Shape => TypeOK
    BY DEF Shape
  <1> QED BY <1>1, <1>2, <1>3, PTL DEF Spec
-----------------------------------------------------------------------------
(***************************************************************************)
(* Every sign of life is accounted for.                                    *)
(***************************************************************************)

\* Steps that read the clock at most, and leave the tracker, the evidence and
\* the queue of frames alone.
LEMMA QuietStep ==
  ASSUME IInv, clock' \in Nat, clock <= clock',
         UNCHANGED <<states, heard, traffic>>,
         \A f \in captured' : f.observedAt <= clock',
         \A r \in held' \cup Range(probeResults') : r.checked <= clock'
  PROVE  ReadingsArePast' /\ DeadlineIsTotal' /\ HeardIsAccountedFor'
  <1>1. /\ \A d \in Devices : heard[d] <= clock /\ heard[d] \in Int
        /\ \A f \in Range(traffic) : f.observedAt <= clock /\ f.observedAt \in Nat
        /\ \A d \in DOMAIN states :
             /\ states[d].lastSeen <= clock /\ states[d].lastSeen \in Nat
             /\ states[d].disconnectedAt <= clock
             /\ states[d].disconnectedAt \in Int
        /\ clock \in Nat
    <2>1. Range(traffic) \subseteq Frame
      BY RangeType DEF IInv, TypeOK
    <2> QED BY <2>1 DEF IInv, ReadingsArePast, TypeOK, Frame, DeviceState, Time, NoTime
  <1>2. ReadingsArePast'
    BY <1>1 DEF ReadingsArePast
  <1>3. DeadlineIsTotal' /\ HeardIsAccountedFor'
    BY DEF IInv, DeadlineIsTotal, HeardIsAccountedFor
  <1> QED BY <1>2, <1>3

\* Steps that change what the tracker knows about one device.
LEMMA EntryStep ==
  ASSUME IInv, Shape', UNCHANGED clock,
         NEW d \in Devices,
         DOMAIN states' = DOMAIN states \cup {d},
         \A e \in DOMAIN states : e # d => states'[e] = states[e],
         \A e \in Devices : e # d => heard'[e] = heard[e],
         heard'[d] <= clock,
         UNCHANGED captured,
         held' \cup Range(probeResults') \subseteq held \cup Range(probeResults),
         Range(traffic') \subseteq Range(traffic),
         \A f \in Range(traffic) : f \in Range(traffic') \/ f.mac = d,
         states'[d].lastSeen <= clock,
         states'[d].disconnectedAt <= clock,
         states'[d].offlineDeadline # NoTime =>
           states'[d].offlineDeadline = states'[d].lastSeen + OfflineTimeout,
         \/ heard'[d] <= states'[d].lastSeen
         \/ ~states'[d].online /\ heard'[d] <= states'[d].disconnectedAt
         \/ \E f \in Range(traffic') : f.mac = d /\ heard'[d] <= f.observedAt
  PROVE  ReadingsArePast' /\ DeadlineIsTotal' /\ HeardIsAccountedFor'
  <1>1. DOMAIN states \subseteq Devices
    BY DEF IInv, TypeOK
  <1>2. ReadingsArePast'
    BY <1>1 DEF IInv, ReadingsArePast
  <1>3. DeadlineIsTotal'
    BY <1>1 DEF IInv, DeadlineIsTotal
  <1>4. HeardIsAccountedFor'
    <2> SUFFICES ASSUME NEW e \in DOMAIN states', e # d
                 PROVE  \/ heard'[e] <= states'[e].lastSeen
                        \/ ~states'[e].online /\ heard'[e] <= states'[e].disconnectedAt
                        \/ \E f \in Range(traffic') : f.mac = e /\ heard'[e] <= f.observedAt
      BY DEF HeardIsAccountedFor
    <2>1. e \in DOMAIN states /\ e \in Devices
      BY <1>1
    <2>2. states'[e] = states[e] /\ heard'[e] = heard[e]
      BY <2>1
    <2>3. \A f \in Range(traffic) : f.mac = e => f \in Range(traffic')
      OBVIOUS
    <2> QED BY <2>1, <2>2, <2>3 DEF IInv, HeardIsAccountedFor
  <1> QED BY <1>2, <1>3, <1>4

\* A frame that leaves the queue is in lastSeen, or came before a disconnection.
LEMMA TakeTrafficStep ==
  ASSUME IInv, Shape', TakeTraffic
  PROVE  ReadingsArePast' /\ DeadlineIsTotal' /\ HeardIsAccountedFor'
  <1> DEFINE f == Head(traffic)
             d == f.mac
  <1>1. /\ f \in Frame /\ d \in Devices /\ f.observedAt \in Nat
        /\ Range(traffic) = Range(traffic') \cup {f}
        /\ f.observedAt <= clock
    <2>1. traffic \in Seq(Frame) /\ traffic # <<>> /\ traffic' = Tail(traffic)
      BY DEF TakeTraffic, IInv, TypeOK
    <2>2. f \in Frame /\ Range(traffic) = Range(traffic') \cup {f}
      BY <2>1, TailRange
    <2> QED BY <2>2 DEF Frame, IInv, ReadingsArePast, Time
  <1>2. /\ UNCHANGED <<clock, heard, captured, held, probeResults>>
    BY DEF TakeTraffic, environment, probing
  <1>3. /\ clock \in Nat /\ heard[d] \in Int /\ heard[d] <= clock
    BY <1>1 DEF IInv, TypeOK, ReadingsArePast, Time, NoTime
  <1> HIDE DEF f
  <1>4. CASE d \notin DOMAIN states
    <2>1. UNCHANGED states
      BY <1>4 DEF TakeTraffic, f
    <2>2. ReadingsArePast'
      BY <1>1, <1>2, <2>1 DEF IInv, ReadingsArePast
    <2>3. DeadlineIsTotal'
      BY <2>1 DEF IInv, DeadlineIsTotal
    <2>4. HeardIsAccountedFor'
      BY <1>1, <1>2, <1>4, <2>1 DEF IInv, HeardIsAccountedFor
    <2> QED BY <2>2, <2>3, <2>4
  <1>5. CASE d \in DOMAIN states
    <2> DEFINE s == states[d]
               o == ObserveTraffic(s, f.observedAt)
    <2>1. s \in DeviceState /\ f.observedAt \in Time
      BY <1>1, <1>5 DEF IInv, TypeOK, Time
    <2>2. /\ o.state \in DeviceState /\ o.event \in Event
          /\ s.online => o.state.online
          /\ s.lastSeen <= o.state.lastSeen
          /\ o.state.lastSeen \in {s.lastSeen, f.observedAt}
          /\ o.state.disconnectedAt = s.disconnectedAt
          /\ Outdated(s, f.observedAt) => o.state = s
          /\ ~Outdated(s, f.observedAt) => f.observedAt <= o.state.lastSeen
          /\ o.state.offlineDeadline # NoTime =>
               /\ o.state.offlineDeadline = s.offlineDeadline
               /\ o.state.lastSeen = s.lastSeen
      BY <2>1, ObserveTrafficProperties DEF Event
    <2>3. Conclude(d, o, pc) /\ pc \in Path
      BY <1>5 DEF TakeTraffic, f, Path
    <2>4. /\ s.lastSeen \in Nat /\ s.disconnectedAt \in Int
          /\ s.online \in BOOLEAN
          /\ o.state.lastSeen \in Nat
          /\ s.lastSeen <= clock /\ s.disconnectedAt <= clock
      BY <2>1, <2>2, <1>5 DEF DeviceState, IInv, ReadingsArePast, Time, NoTime
    <2> HIDE DEF o
    <2>5. /\ DOMAIN states' = DOMAIN states \cup {d}
          /\ states'[d] = o.state
          /\ \A e \in DOMAIN states : e # d => states'[e] = states[e]
      BY <2>2, <2>3, <1>1, ConcludeProperties DEF IInv
    <2>6. o.state.offlineDeadline # NoTime =>
            o.state.offlineDeadline = o.state.lastSeen + OfflineTimeout
      BY <2>2, <1>5 DEF IInv, DeadlineIsTotal
    <2>7. \/ heard[d] <= s.lastSeen
          \/ ~s.online /\ heard[d] <= s.disconnectedAt
          \/ heard[d] <= f.observedAt
          \/ \E g \in Range(traffic') : g.mac = d /\ heard[d] <= g.observedAt
      BY <1>1, <1>5 DEF IInv, HeardIsAccountedFor
    <2>8. \/ heard[d] <= o.state.lastSeen
          \/ ~o.state.online /\ heard[d] <= o.state.disconnectedAt
          \/ \E g \in Range(traffic') : g.mac = d /\ heard[d] <= g.observedAt
      <3>1. CASE Outdated(s, f.observedAt)
        <4>1. o.state = s
          BY <2>2, <3>1
        <4>2. \/ f.observedAt <= s.lastSeen
              \/ ~s.online /\ f.observedAt <= s.disconnectedAt
          BY <3>1, <2>4, <1>1 DEF Outdated
        <4> QED BY <4>1, <4>2, <2>7, <2>4, <1>1, <1>3
      <3>2. CASE ~Outdated(s, f.observedAt)
        <4>1. f.observedAt <= o.state.lastSeen
          BY <2>2, <3>2
        <4>2. ~s.online => s.disconnectedAt < f.observedAt
          BY <3>2, <2>4, <1>1 DEF Outdated
        <4> QED BY <4>1, <4>2, <2>2, <2>7, <2>4, <1>1, <1>3
      <3> QED BY <3>1, <3>2
    <2>9. o.state.lastSeen <= clock /\ o.state.disconnectedAt <= clock
      BY <2>2, <2>4, <1>1
    <2> QED BY <1>1, <1>2, <1>3, <2>5, <2>6, <2>8, <2>9, EntryStep
  <1> QED BY <1>4, <1>5

\* The result of a probe moves one entry and leaves the evidence accounted for.
LEMMA ApplyResultStep ==
  ASSUME IInv, Shape', ApplyResult
  PROVE  ReadingsArePast' /\ DeadlineIsTotal' /\ HeardIsAccountedFor'
  <1>1. PICK r \in held :
          /\ Conclude(r.key, ApplyProbe(states[r.key], r), "async")
          /\ heard' = IF r.online /\ ~Superseded(states[r.key], r)
                      THEN [heard EXCEPT ![r.key] = Later(@, r.checked)]
                      ELSE heard
    BY DEF ApplyResult
  <1> DEFINE d == r.key
             s == states[d]
             o == ApplyProbe(s, r)
  <1>2. /\ r \in Result /\ d \in Devices /\ d \in DOMAIN states
        /\ r.checked \in Nat /\ r.checked <= clock
        /\ s \in DeviceState
    BY DEF IInv, TypeOK, ProbesAreAboutEntries, Outstanding, Result, Time, ReadingsArePast
  <1>3. /\ UNCHANGED <<clock, captured, traffic, probeResults>>
        /\ held' = {} /\ traffic = <<>>
    BY DEF ApplyResult, Drained, environment, senses, probing
  <1>4. /\ s.lastSeen \in Nat /\ s.disconnectedAt \in Int /\ s.online \in BOOLEAN
        /\ s.lastSeen <= clock /\ s.disconnectedAt <= clock
        /\ clock \in Nat /\ heard[d] \in Int /\ heard[d] <= clock
    BY <1>2 DEF DeviceState, IInv, TypeOK, ReadingsArePast, Time, NoTime
  <1>5. /\ o.state \in DeviceState /\ o.event \in Event
        /\ s.lastSeen <= o.state.lastSeen
        /\ o.state.lastSeen \in {s.lastSeen, r.checked}
        /\ o.state.disconnectedAt \in {s.disconnectedAt, r.checked}
        /\ ~s.online => ~o.state.online /\ o.state.disconnectedAt = s.disconnectedAt
        /\ r.online /\ ~Superseded(s, r) => r.checked <= o.state.lastSeen
        /\ o.state.offlineDeadline # NoTime =>
             \/ o.state.offlineDeadline = o.state.lastSeen + OfflineTimeout
             \/ /\ o.state.offlineDeadline = s.offlineDeadline
                /\ o.state.lastSeen = s.lastSeen
    BY <1>2, ApplyProbeProperties DEF Event
  <1>6. /\ DOMAIN states' = DOMAIN states \cup {d}
        /\ states'[d] = o.state
        /\ \A e \in DOMAIN states : e # d => states'[e] = states[e]
    BY <1>1, <1>2, <1>5, ConcludeProperties DEF IInv, Path
  <1>7. /\ \A e \in Devices : e # d => heard'[e] = heard[e]
        /\ heard'[d] \in {heard[d], r.checked}
        /\ heard'[d] # heard[d] => r.checked <= o.state.lastSeen
    BY <1>1, <1>2, <1>4, <1>5 DEF Later, IInv, TypeOK
  <1>8. \/ heard[d] <= s.lastSeen
        \/ ~s.online /\ heard[d] <= s.disconnectedAt
    BY <1>2, <1>3, EmptySeq, LenProperties DEF IInv, HeardIsAccountedFor, Range
  <1> HIDE DEF o
  <1>9. /\ o.state.lastSeen \in Nat /\ o.state.lastSeen <= clock
        /\ o.state.disconnectedAt <= clock
    BY <1>2, <1>4, <1>5
  <1>10. \/ heard'[d] <= o.state.lastSeen
         \/ ~o.state.online /\ heard'[d] <= o.state.disconnectedAt
    BY <1>2, <1>4, <1>5, <1>7, <1>8, <1>9
  <1>11. o.state.offlineDeadline # NoTime =>
           o.state.offlineDeadline = o.state.lastSeen + OfflineTimeout
    BY <1>2, <1>5 DEF IInv, DeadlineIsTotal
  <1>12. heard'[d] <= clock
    BY <1>2, <1>4, <1>7
  <1> QED BY <1>2, <1>3, <1>6, <1>7, <1>9, <1>10, <1>11, <1>12, EntryStep

\* A confirmed message is in lastSeen as soon as it is read.
LEMMA ReceiveStep ==
  ASSUME IInv, Shape', Receive
  PROVE  ReadingsArePast' /\ DeadlineIsTotal' /\ HeardIsAccountedFor'
  <1> DEFINE m == Head(netlink)
             d == m.mac
  <1>1. d \in Devices /\ m.ip \in Addresses /\ m.confirmed \in BOOLEAN
    <2>1. netlink \in Seq(Message) /\ netlink # <<>>
      BY DEF Receive, IInv, TypeOK
    <2>2. m \in Message
      BY <2>1, TailRange
    <2> QED BY <2>2 DEF Message
  <1>2. UNCHANGED <<clock, captured, traffic, held, probeResults>>
    BY DEF Receive, environment, probing
  <1>3. /\ clock \in Nat /\ heard[d] \in Int /\ heard[d] <= clock
    BY <1>1 DEF IInv, TypeOK, ReadingsArePast, Time, NoTime
  <1> HIDE DEF m
  <1>4. /\ \A e \in Devices : e # d => heard'[e] = heard[e]
        /\ heard'[d] = IF m.confirmed THEN clock ELSE heard[d]
    BY <1>1, <1>3 DEF Receive, m, Later, IInv, TypeOK
  <1>5. CASE d \in DOMAIN states
    <2> DEFINE s == states[d]
               o == ObserveNeighbor(s, m.ip, m.confirmed, clock)
    <2>1. /\ s \in DeviceState /\ clock \in Time
          /\ s.lastSeen \in Nat /\ s.disconnectedAt \in Int /\ s.online \in BOOLEAN
          /\ s.lastSeen <= clock /\ s.disconnectedAt <= clock
      BY <1>5, <1>3 DEF DeviceState, IInv, TypeOK, ReadingsArePast, Time, NoTime
    <2>2. /\ o.state \in DeviceState /\ o.event \in Event
          /\ m.confirmed => o.state.online /\ clock <= o.state.lastSeen
          /\ ~m.confirmed => o.state.online = s.online
          /\ s.lastSeen <= o.state.lastSeen
          /\ o.state.lastSeen \in {s.lastSeen, clock}
          /\ o.state.disconnectedAt = s.disconnectedAt
          /\ o.state.offlineDeadline # NoTime =>
               /\ o.state.offlineDeadline = s.offlineDeadline
               /\ o.state.lastSeen = s.lastSeen
      BY <1>1, <2>1, ObserveNeighborProperties DEF Event
    <2>3. Conclude(d, o, "netlink")
      BY <1>5 DEF Receive, m
    <2> HIDE DEF o
    <2>4. /\ DOMAIN states' = DOMAIN states \cup {d}
          /\ states'[d] = o.state
          /\ \A e \in DOMAIN states : e # d => states'[e] = states[e]
      BY <1>1, <2>2, <2>3, ConcludeProperties DEF IInv, Path
    <2>5. \/ heard[d] <= s.lastSeen
          \/ ~s.online /\ heard[d] <= s.disconnectedAt
          \/ \E f \in Range(traffic) : f.mac = d /\ heard[d] <= f.observedAt
      BY <1>5 DEF IInv, HeardIsAccountedFor
    <2>6. \/ heard'[d] <= o.state.lastSeen
          \/ ~o.state.online /\ heard'[d] <= o.state.disconnectedAt
          \/ \E f \in Range(traffic') : f.mac = d /\ heard'[d] <= f.observedAt
      <3>1. CASE m.confirmed
        BY <3>1, <1>4, <2>2
      <3>2. CASE ~m.confirmed
        <4>1. heard'[d] = heard[d] /\ traffic' = traffic
          BY <3>2, <1>4, <1>2
        <4>2. o.state.lastSeen \in Nat
          BY <2>1, <2>2, <1>3
        <4> QED BY <3>2, <4>1, <4>2, <2>1, <2>2, <2>5, <1>3
      <3> QED BY <3>1, <3>2, <1>1
    <2>7. o.state.offlineDeadline # NoTime =>
            o.state.offlineDeadline = o.state.lastSeen + OfflineTimeout
      BY <1>5, <2>2 DEF IInv, DeadlineIsTotal
    <2>8. /\ o.state.lastSeen <= clock /\ o.state.disconnectedAt <= clock
          /\ heard'[d] <= clock
      BY <2>1, <2>2, <1>1, <1>3, <1>4
    <2> QED BY <1>1, <1>2, <1>4, <2>4, <2>6, <2>7, <2>8, EntryStep
  <1>6. CASE d \notin DOMAIN states /\ m.confirmed
    <2> DEFINE o == Outcome(NewDeviceState(m.ip, TRUE, clock), "connected")
    <2>1. Conclude(d, o, "netlink")
      BY <1>6 DEF Receive, m
    <2>2. /\ o.state \in DeviceState /\ o.event \in Event
          /\ o.state.lastSeen = clock /\ o.state.disconnectedAt = NoTime
          /\ o.state.offlineDeadline = NoTime
      <3>1. clock \in Time
        BY <1>3 DEF Time
      <3> QED BY <1>1, <3>1, NewDeviceStateType DEF Outcome, Event, NewDeviceState
    <2> HIDE DEF o
    <2>3. /\ DOMAIN states' = DOMAIN states \cup {d}
          /\ states'[d] = o.state
          /\ \A e \in DOMAIN states : e # d => states'[e] = states[e]
      BY <1>1, <2>1, <2>2, ConcludeProperties DEF IInv, Path
    <2>4. heard'[d] = clock
      BY <1>4, <1>6
    <2>5. /\ o.state.lastSeen <= clock /\ o.state.disconnectedAt <= clock
          /\ heard'[d] <= clock /\ heard'[d] <= o.state.lastSeen
      BY <2>2, <2>4, <1>3 DEF NoTime
    <2> QED BY <1>1, <1>2, <1>4, <2>2, <2>3, <2>5, EntryStep
  <1>7. CASE d \notin DOMAIN states /\ ~m.confirmed
    <2>1. UNCHANGED states
      BY <1>7 DEF Receive, m
    <2>2. UNCHANGED heard
      BY <1>7 DEF Receive, m
    <2> QED BY <1>2, <1>3, <2>1, <2>2, QuietStep DEF IInv, ReadingsArePast
  <1> QED BY <1>1, <1>5, <1>6, <1>7

\* Beginning probes changes no evidence and no deadline.
LEMMA TakeTickStep ==
  ASSUME IInv, Shape', TakeTick
  PROVE  ReadingsArePast' /\ DeadlineIsTotal' /\ HeardIsAccountedFor'
  <1>1. UNCHANGED <<clock, heard, captured, traffic, held, probeResults>>
    BY DEF TakeTick, environment, history
  <1>2. /\ DOMAIN states' = DOMAIN states
        /\ \A d \in DOMAIN states :
             /\ states'[d].online = states[d].online
             /\ states'[d].lastSeen = states[d].lastSeen
             /\ states'[d].disconnectedAt = states[d].disconnectedAt
             /\ states'[d].offlineDeadline = states[d].offlineDeadline
    <2>1. CASE DetectOffline
      <3>1. PICK chosen \in Selection(FreeProbes) :
              states' = [d \in DOMAIN states |->
                           IF d \in chosen THEN BeginProbe(states[d]) ELSE states[d]]
        BY <2>1 DEF TakeTick
      <3>2. \A d \in DOMAIN states : states[d] \in DeviceState
        BY DEF IInv, TypeOK
      <3> QED BY <3>1, <3>2, BeginProbeProperties
    <2>2. CASE ~DetectOffline
      BY <2>2 DEF TakeTick
    <2> QED BY <2>1, <2>2
  <1>3. ReadingsArePast'
    BY <1>1, <1>2 DEF IInv, ReadingsArePast
  <1>4. DeadlineIsTotal'
    BY <1>2 DEF IInv, DeadlineIsTotal
  <1>5. HeardIsAccountedFor'
    BY <1>1, <1>2 DEF IInv, HeardIsAccountedFor
  <1> QED BY <1>3, <1>4, <1>5

\* A delivered frame is heard and queued in the same step.
LEMMA DeliverStep ==
  ASSUME IInv, Shape', Deliver
  PROVE  ReadingsArePast' /\ DeadlineIsTotal' /\ HeardIsAccountedFor'
  <1>1. PICK f \in captured :
          IF Len(traffic) < TrafficCapacity
          THEN /\ traffic' = Append(traffic, f)
               /\ heard' = [heard EXCEPT ![f.mac] = Later(@, f.observedAt)]
          ELSE UNCHANGED <<traffic, heard>>
    BY DEF Deliver
  <1>2. /\ f \in Frame /\ f.mac \in Devices /\ f.observedAt \in Nat
        /\ f.observedAt <= clock /\ clock \in Nat
        /\ \A e \in Devices : heard[e] \in Int /\ heard[e] <= clock
        /\ traffic \in Seq(Frame)
    BY DEF IInv, TypeOK, ReadingsArePast, Frame, Time, NoTime
  <1>3. /\ UNCHANGED <<clock, states, held, probeResults>>
        /\ captured' = {}
    BY DEF Deliver, environment, probing, loop
  <1>4. CASE Len(traffic) < TrafficCapacity
    <2>1. Range(traffic') = Range(traffic) \cup {f}
      <3>1. traffic' = Append(traffic, f)
        BY <1>1, <1>4
      <3>2. Range(Append(traffic, f)) = Range(traffic) \cup {f}
        BY <1>2, AppendRange
      <3> QED BY <3>1, <3>2
    <2>2. /\ \A e \in Devices : e # f.mac => heard'[e] = heard[e]
          /\ heard'[f.mac] \in {heard[f.mac], f.observedAt}
      BY <1>1, <1>2, <1>4 DEF Later, IInv, TypeOK
    <2>3. ReadingsArePast'
      <3>1. \A e \in Devices : heard'[e] <= clock
        BY <1>2, <2>2
      <3> QED BY <1>2, <1>3, <2>1, <3>1 DEF IInv, ReadingsArePast
    <2>4. DeadlineIsTotal'
      BY <1>3 DEF IInv, DeadlineIsTotal
    <2>5. ASSUME NEW e \in DOMAIN states
          PROVE  \/ heard'[e] <= states[e].lastSeen
                 \/ ~states[e].online /\ heard'[e] <= states[e].disconnectedAt
                 \/ \E g \in Range(traffic') : g.mac = e /\ heard'[e] <= g.observedAt
      <3>1. e \in Devices
        BY DEF IInv, TypeOK
      <3>2. CASE heard'[e] = heard[e]
        BY <3>2, <2>1 DEF IInv, HeardIsAccountedFor
      <3>3. CASE heard'[e] # heard[e]
        <4>1. e = f.mac /\ heard'[e] = f.observedAt
          BY <3>1, <3>3, <2>2
        <4>2. heard'[e] <= f.observedAt
          BY <4>1, <1>2
        <4> QED BY <4>1, <4>2, <2>1
      <3> QED BY <3>2, <3>3
    <2>6. HeardIsAccountedFor'
      BY <1>3, <2>5 DEF HeardIsAccountedFor
    <2> QED BY <2>3, <2>4, <2>6
  <1>5. CASE ~(Len(traffic) < TrafficCapacity)
    <2>1. UNCHANGED <<traffic, heard>>
      BY <1>1, <1>5
    <2> QED BY <1>2, <1>3, <2>1, QuietStep DEF IInv, ReadingsArePast
  <1> QED BY <1>4, <1>5

\* The strengthening of OfflineTimeElapsed is inductive.
LEMMA IInvStep == IInv /\ [Next]_vars => IInv'
  <1> SUFFICES ASSUME IInv, [Next]_vars PROVE IInv'
    OBVIOUS
  <1>9. Shape'
    BY ShapeStep DEF IInv, Shape
  <1>10. clock \in Nat /\ \A f \in captured : f.observedAt <= clock
    BY DEF IInv, TypeOK, ReadingsArePast, Time
  <1>11. \A f \in captured : f.observedAt \in Nat
    BY DEF IInv, TypeOK, Frame, Time
  <1>12. ASSUME NEW r \in held \cup Range(probeResults)
         PROVE  r.checked <= clock /\ r.checked \in Nat
    <2>1. held \subseteq Result /\ probeResults \in Seq(Result)
      BY DEF IInv, TypeOK
    <2>2. Range(probeResults) \subseteq Result
      BY <2>1, RangeType
    <2>3. r \in Result
      BY <2>1, <2>2
    <2> QED BY <2>3 DEF IInv, ReadingsArePast, Result, Time
  <1> SUFFICES ReadingsArePast' /\ DeadlineIsTotal' /\ HeardIsAccountedFor'
    BY <1>9 DEF IInv, Shape
  <1>1. CASE /\ clock' \in {clock, clock + 1}
             /\ UNCHANGED <<states, heard, traffic, captured, held, probeResults>>
    <2>1. clock' \in Nat /\ clock <= clock'
      BY <1>1, <1>10, <1>11, <1>12
    <2>2. \A f \in captured' : f.observedAt <= clock'
      BY <1>1, <1>10, <1>11, <1>12, <2>1
    <2>3. held' \cup Range(probeResults') = held \cup Range(probeResults)
      BY <1>1
    <2>4. \A r \in held' \cup Range(probeResults') : r.checked <= clock'
      BY <2>3, <1>10, <1>11, <1>12, <2>1
    <2> QED BY <1>1, <2>1, <2>2, <2>4, QuietStep
  <1>2. CASE Environment
    BY <1>1, <1>2
    DEF Environment, Tick, Cancel, NeighborMessage, Input, environment, senses,
        probing, loop, history
  <1>3. ASSUME NEW d \in Devices, Capture(d)
        PROVE  ReadingsArePast' /\ DeadlineIsTotal' /\ HeardIsAccountedFor'
    <2>1. /\ UNCHANGED <<clock, states, heard, traffic, held, probeResults>>
          /\ \A f \in captured' : f.observedAt = clock
      BY <1>3 DEF Capture, Input, probing, loop, history
    <2>2. /\ clock' \in Nat /\ clock <= clock'
          /\ \A f \in captured' : f.observedAt <= clock'
      BY <2>1, <1>10, <1>11, <1>12
    <2>3. held' \cup Range(probeResults') = held \cup Range(probeResults)
      BY <2>1
    <2>4. \A r \in held' \cup Range(probeResults') : r.checked <= clock'
      BY <2>1, <2>3, <1>10, <1>11, <1>12
    <2> QED BY <2>1, <2>2, <2>4, QuietStep
  <1>4. CASE SnifferEnds
    BY <1>1, <1>4 DEF SnifferEnds, environment, probing, loop, history
  <1>5. ASSUME NEW p \in probes, NEW online \in BOOLEAN, ProbeReport(p, online),
               UNCHANGED <<clock, senses, loop, history>>
        PROVE  ReadingsArePast' /\ DeadlineIsTotal' /\ HeardIsAccountedFor'
    <2> DEFINE r == [key |-> p.key, ip |-> p.ip, generation |-> p.generation,
                     probeID |-> p.probeID, deadline |-> p.deadline,
                     started |-> p.started, online |-> online, checked |-> clock]
    <2>1. probeResults' = Append(probeResults, r) /\ r.checked = clock
      BY <1>5 DEF ProbeReport
    <2>2. probeResults \in Seq(Result)
      BY DEF IInv, TypeOK
    <2> HIDE DEF r
    <2>3. probeResults' \in Seq(Result)
      BY <1>9 DEF Shape, TypeOK
    <2>4. \A x \in Range(probeResults') : x = r \/ x \in Range(probeResults)
      BY <2>1, <2>2, LenProperties, AppendProperties DEF Range
    <2>5. UNCHANGED <<clock, states, heard, traffic, captured, held>>
      BY <1>5 DEF senses, loop, history
    <2>6. /\ clock' \in Nat /\ clock <= clock'
          /\ \A f \in captured' : f.observedAt <= clock'
      BY <2>5, <1>10, <1>11, <1>12
    <2>7. \A x \in held' \cup Range(probeResults') : x.checked <= clock'
      <3>1. \A x \in held' \cup Range(probeResults') :
              x = r \/ x \in held \cup Range(probeResults)
        BY <2>4, <2>5
      <3> QED BY <3>1, <2>1, <2>5, <1>10, <1>11, <1>12
    <2> QED BY <2>5, <2>6, <2>7, QuietStep
  <1>6. ASSUME NEW p \in probes, ProbeStep(p)
        PROVE  ReadingsArePast' /\ DeadlineIsTotal' /\ HeardIsAccountedFor'
    <2>1. CASE ProbeStart(p)
      BY <1>1, <2>1 DEF ProbeStart, environment, senses, loop, history
    <2>2. CASE ProbeAnswered(p)
      BY <1>5, <2>2 DEF ProbeAnswered, Input
    <2>3. CASE ProbeFailed(p)
      BY <1>5, <2>3 DEF ProbeFailed, environment
    <2>4. CASE ProbeAbandoned(p)
      BY <1>1, <2>4 DEF ProbeAbandoned, environment, senses, loop, history
    <2> QED BY <1>6, <2>1, <2>2, <2>3, <2>4 DEF ProbeStep
  <1>7. CASE TakeResult
    <2>1. /\ UNCHANGED <<clock, states, heard, traffic, captured>>
          /\ held' = {Head(probeResults)} /\ probeResults' = Tail(probeResults)
          /\ probeResults # <<>> /\ probeResults \in Seq(Result)
      BY <1>7 DEF TakeResult, environment, senses, history, IInv, TypeOK
    <2>2. held' \cup Range(probeResults') = Range(probeResults)
      BY <2>1, TailRange
    <2>3. clock \in Nat /\ clock' \in Nat /\ clock <= clock'
      BY <2>1, <1>10, <1>11, <1>12
    <2>4. \A f \in captured' : f.observedAt <= clock'
      BY <2>1, <1>10, <1>11, <1>12
    <2>5. held' \cup Range(probeResults') \subseteq held \cup Range(probeResults)
      BY <2>2
    <2>6. ASSUME NEW r \in held' \cup Range(probeResults')
          PROVE  r.checked <= clock'
      <3>1. r \in held \cup Range(probeResults)
        BY <2>5
      <3>2. r.checked <= clock /\ r.checked \in Nat
        BY <3>1, <1>10, <1>11, <1>12
      <3> QED BY <3>2, <2>3
    <2> QED BY <2>1, <2>3, <2>4, <2>6, QuietStep
  <1>8. CASE \/ TakeSnifferEnd \/ TakeDone \/ GoReceive \/ ReceiveNothing
             \/ ReceiveOverrun \/ EmitAccepted \/ EmitCanceled \/ UNCHANGED vars
    BY <1>1, <1>8
    DEF TakeSnifferEnd, TakeDone, GoReceive, ReceiveNothing, ReceiveOverrun,
        EmitAccepted, EmitCanceled, vars, environment, senses, probing, loop, history
  <1> QED
    BY <1>2, <1>3, <1>4, <1>6, <1>7, <1>8, <1>9, DeliverStep, TakeTrafficStep,
       ApplyResultStep, ReceiveStep, TakeTickStep
    DEF Next, Sniffer, MainLoop, Terminated

\* The initial states have heard nothing.
LEMMA IInvInit == Init => IInv
  <1> SUFFICES ASSUME Init PROVE IInv
    OBVIOUS
  <1>1. TypeOK /\ ProbesAreAboutEntries
    BY ShapeInit DEF Shape
  <1>2. PICK known \in SUBSET Devices : \E address \in [known -> Addresses] :
               states = [d \in known |-> NewDeviceState(address[d], FALSE, 0)]
    BY DEF Init
  <1>3. /\ \A d \in DOMAIN states : /\ states[d].lastSeen = 0
                                    /\ states[d].offlineDeadline = NoTime
                                    /\ states[d].disconnectedAt = NoTime
    BY <1>2 DEF NewDeviceState
  <1>4. /\ clock = 0 /\ heard = [d \in Devices |-> NoTime]
        /\ captured = {} /\ held = {} /\ Range(traffic) = {}
        /\ Range(probeResults) = {}
    BY EmptySeq, LenProperties DEF Init, Range
  <1>5. ReadingsArePast
    BY <1>3, <1>4 DEF ReadingsArePast, NoTime
  <1>6. DeadlineIsTotal
    BY <1>3 DEF DeadlineIsTotal
  <1>7. HeardIsAccountedFor
    <2>1. \A d \in DOMAIN states : heard[d] = NoTime
      BY <1>1, <1>4 DEF TypeOK
    <2> QED BY <1>3, <2>1 DEF HeardIsAccountedFor, NoTime
  <1> QED BY <1>1, <1>5, <1>6, <1>7 DEF IInv

\* Every sign of life that reached the collector is in lastSeen, older than a
\* declared disconnection, or still queued; deadlines are total ones.
THEOREM EvidenceIsAccountedFor == Spec => []IInv
  BY IInvInit, IInvStep, PTL DEF Spec

\* Only ApplyResult takes a device offline, for a failed probe of a candidate.
LEMMA OfflineStep ==
  ASSUME IInv, Next, NEW d \in Devices, GoesOffline(d)
  PROVE  /\ ApplyResult
         /\ \E r \in held :
              /\ r \in Result /\ r.key = d
              /\ BecomesOffline(states[d], r) /\ ~Superseded(states[d], r)
  <1>1. /\ d \in DOMAIN states
        /\ states[d] \in DeviceState
        /\ states[d].online
        /\ ~states'[d].online
    BY DEF GoesOffline, IInv, TypeOK
  <1>2. UNCHANGED states => FALSE
    BY <1>1
  <1>3. CASE TakeTraffic
    <2> DEFINE f == Head(traffic)
    <2>1. f.mac \in Devices /\ f.observedAt \in Time
      <3>1. traffic \in Seq(Frame) /\ traffic # <<>>
        BY <1>3 DEF TakeTraffic, IInv, TypeOK
      <3>2. f \in Frame
        BY <3>1, TailRange
      <3> QED BY <3>2 DEF Frame
    <2> HIDE DEF f
    <2>2. f.mac \in DOMAIN states
      BY <1>2, <1>3 DEF TakeTraffic, f
    <2> DEFINE o == ObserveTraffic(states[f.mac], f.observedAt)
    <2>3. /\ o.state \in DeviceState /\ o.event \in Event
          /\ states[f.mac].online => o.state.online
      BY <2>1, <2>2, ObserveTrafficProperties DEF IInv, TypeOK, Event
    <2>4. Conclude(f.mac, o, pc) /\ pc \in Path
      BY <1>3, <2>2 DEF TakeTraffic, f, Path
    <2> HIDE DEF o
    <2>5. /\ states'[f.mac] = o.state
          /\ \A e \in DOMAIN states : e # f.mac => states'[e] = states[e]
      BY <2>1, <2>3, <2>4, ConcludeProperties DEF IInv
    <2> QED BY <1>1, <2>3, <2>5
  <1>4. CASE Receive
    <2> DEFINE m == Head(netlink)
    <2>1. m.mac \in Devices /\ m.ip \in Addresses /\ m.confirmed \in BOOLEAN
      <3>1. netlink \in Seq(Message) /\ netlink # <<>>
        BY <1>4 DEF Receive, IInv, TypeOK
      <3>2. m \in Message
        BY <3>1, TailRange
      <3> QED BY <3>2 DEF Message
    <2> HIDE DEF m
    <2>2. CASE m.mac \in DOMAIN states
      <3> DEFINE o == ObserveNeighbor(states[m.mac], m.ip, m.confirmed, clock)
      <3>1. /\ o.state \in DeviceState /\ o.event \in Event
            /\ states[m.mac].online => o.state.online
        BY <2>1, <2>2, ObserveNeighborProperties DEF IInv, TypeOK, Event
      <3>2. Conclude(m.mac, o, "netlink")
        BY <1>4, <2>2 DEF Receive, m
      <3> HIDE DEF o
      <3>3. /\ states'[m.mac] = o.state
            /\ \A e \in DOMAIN states : e # m.mac => states'[e] = states[e]
        BY <2>1, <3>1, <3>2, ConcludeProperties DEF IInv, Path
      <3> QED BY <1>1, <3>1, <3>3
    <2>3. CASE m.mac \notin DOMAIN states
      <3>1. states'[d] = states[d]
        BY <1>1, <1>4, <2>3 DEF Receive, Conclude, m
      <3> QED BY <1>1, <3>1
    <2> QED BY <2>2, <2>3
  <1>5. CASE TakeTick
    <2>1. DetectOffline
      BY <1>2, <1>5 DEF TakeTick
    <2>2. PICK chosen \in Selection(FreeProbes) :
            states' = [e \in DOMAIN states |->
                         IF e \in chosen THEN BeginProbe(states[e]) ELSE states[e]]
      BY <1>5, <2>1 DEF TakeTick
    <2> QED BY <1>1, <2>2, BeginProbeProperties
  <1>6. CASE ApplyResult
    <2>1. PICK r \in held : Conclude(r.key, ApplyProbe(states[r.key], r), "async")
      BY <1>6 DEF ApplyResult
    <2> DEFINE o == ApplyProbe(states[r.key], r)
    <2>2. /\ r \in Result /\ r.key \in Devices /\ r.key \in DOMAIN states
          /\ states[r.key] \in DeviceState
      BY DEF IInv, TypeOK, ProbesAreAboutEntries, Outstanding, Result
    <2>3. /\ o.state \in DeviceState /\ o.event \in Event
          /\ states[r.key].online /\ ~o.state.online
               => BecomesOffline(states[r.key], r)
      BY <2>2, ApplyProbeProperties DEF Event
    <2>4. Superseded(states[r.key], r) => o.state.online = states[r.key].online
      BY <2>2 DEF ApplyProbe, Quiet, Outcome, Release, DeviceState
    <2> HIDE DEF o
    <2>5. /\ states'[r.key] = o.state
          /\ \A e \in DOMAIN states : e # r.key => states'[e] = states[e]
      BY <2>1, <2>2, <2>3, ConcludeProperties DEF IInv, Path, o
    <2>6. r.key = d /\ BecomesOffline(states[d], r) /\ ~Superseded(states[d], r)
      BY <1>1, <2>3, <2>4, <2>5
    <2> QED BY <1>6, <2>2, <2>6
  <1>7. CASE \/ Environment \/ Sniffer \/ \E p \in probes : ProbeStep(p)
             \/ TakeResult \/ TakeSnifferEnd \/ TakeDone \/ GoReceive
             \/ ReceiveNothing \/ ReceiveOverrun \/ EmitAccepted \/ EmitCanceled
             \/ Terminated
    <2>1. UNCHANGED states
      BY <1>7
      DEF Environment, Tick, Cancel, NeighborMessage, Sniffer, Capture, Deliver,
          SnifferEnds, ProbeStep, ProbeStart, ProbeAnswered, ProbeFailed,
          ProbeAbandoned, TakeResult, TakeSnifferEnd, TakeDone, GoReceive,
          ReceiveNothing, ReceiveOverrun, EmitAccepted, EmitCanceled, Terminated,
          vars, loop
    <2> QED BY <1>2, <2>1
  <1> QED BY <1>3, <1>4, <1>5, <1>6, <1>7 DEF Next, MainLoop

\* It finds no frame queued: all the evidence is in lastSeen.
LEMMA DisconnectStep ==
  ASSUME IInv, Next, NEW d \in Devices, GoesOffline(d)
  PROVE  heard[d] + OfflineTimeout <= clock
  <1>1. PICK r \in held : r \in Result /\ BecomesOffline(states[d], r)
    BY OfflineStep
  <1>2. d \in DOMAIN states /\ states[d] \in DeviceState /\ states[d].online
    BY DEF GoesOffline, IInv, TypeOK
  <1>3. states[d].lastSeen + OfflineTimeout <= r.checked
    BY <1>1, <1>2 DEF BecomesOffline, IInv, DeadlineIsTotal
  <1>4. heard[d] <= states[d].lastSeen
    <2>1. Range(traffic) = {}
      BY OfflineStep, EmptySeq, LenProperties DEF ApplyResult, Drained, Range
    <2> QED BY <1>2, <2>1 DEF IInv, HeardIsAccountedFor
  <1>5. /\ heard[d] \in Int /\ states[d].lastSeen \in Nat /\ r.checked \in Nat
        /\ clock \in Nat /\ OfflineTimeout \in Nat /\ r.checked <= clock
    <2>1. heard[d] \in Int /\ clock \in Nat
      BY DEF IInv, TypeOK, Time, NoTime
    <2>2. states[d].lastSeen \in Nat
      BY <1>2 DEF DeviceState, Time
    <2>3. r.checked \in Nat
      BY <1>1 DEF Result, Time
    <2>4. r.checked <= clock
      BY <1>1 DEF IInv, ReadingsArePast
    <2> QED BY <2>1, <2>2, <2>3, <2>4, TimingAssumption
  <1> QED BY <1>3, <1>4, <1>5

\* No disconnection is declared before OfflineTimeout has passed since the last
\* sign of life that had reached the collector.
THEOREM NoEarlyDisconnection == Spec => OfflineTimeElapsed
  <1>1. IInv /\ [Next]_vars =>
          [\A d \in Devices :
             GoesOffline(d) => heard[d] + OfflineTimeout <= clock]_vars
    BY DisconnectStep
  <1> QED BY <1>1, EvidenceIsAccountedFor, PTL DEF Spec, OfflineTimeElapsed
-----------------------------------------------------------------------------
(***************************************************************************)
(* The invariant that the refinement needs.                                *)
(***************************************************************************)

\* Only a loop that is emitting has an event to emit.
EmittingOnlyAtEmit == pc # "emit" => outgoing = {}

\* An entry of the snapshot cannot go offline before it is confirmed.
UnconfirmedIsOnline ==
  \A d \in DOMAIN states : states[d].verified \/ states[d].online

\* A queued frame is a sign of its device.
FramesAreHeard ==
  \A f \in Range(traffic) : f.observedAt <= heard[f.mac]

RInv ==
  /\ IInv
  /\ EmittingOnlyAtEmit
  /\ UnconfirmedIsOnline
  /\ FramesAreHeard

BelievedOf(s) ==
  IF ~s.verified THEN "listed" ELSE IF s.online THEN "present" ELSE "absent"

StatusMap  == [d \in Devices |-> Believed(d)]
LostMap    == [d \in Devices |-> LostAt(d)]
PendingSet == {[key |-> o.key, type |-> o.type] : o \in outgoing}
-----------------------------------------------------------------------------
(***************************************************************************)
(* What the tracker's operators do to what is believed of a device.        *)
(***************************************************************************)

\* Fresh evidence leaves the confirmation of an entry alone.
LEMMA MarkSeenBelief ==
  ASSUME NEW s \in DeviceState, NEW now \in Time
  PROVE  /\ MarkSeen(s, now) \in DeviceState
         /\ MarkSeen(s, now).verified = s.verified
         /\ MarkSeen(s, now).online = s.online
         /\ MarkSeen(s, now).disconnectedAt = s.disconnectedAt
  <1>1. MarkSeen(s, now).verified = s.verified
    BY DEF MarkSeen, DeviceState
  <1> QED BY <1>1, MarkSeenProperties

\* A frame that is not outdated makes its device present.
LEMMA ObserveTrafficBelief ==
  ASSUME NEW s \in DeviceState, NEW observedAt \in Time, s.verified \/ s.online
  PROVE  LET o == ObserveTraffic(s, observedAt) IN
         /\ o.state \in DeviceState
         /\ o.event \in Event
         /\ o.state.disconnectedAt = s.disconnectedAt
         /\ Outdated(s, observedAt) => o.state = s /\ o.event = Silent
         /\ ~Outdated(s, observedAt) =>
              /\ o.state.verified /\ o.state.online
              /\ o.event = IF s.verified /\ ~s.online THEN "connected" ELSE Silent
  <1> DEFINE seen == [s EXCEPT !.verified = TRUE, !.online = @ \/ s.verified]
  <1>1. /\ seen \in DeviceState
        /\ seen.verified /\ seen.online
        /\ seen.disconnectedAt = s.disconnectedAt
    BY DEF DeviceState
  <1>2. CASE Outdated(s, observedAt)
    BY <1>2 DEF ObserveTraffic, Quiet, Outcome, Event
  <1>3. CASE ~Outdated(s, observedAt)
    <2>1. /\ ObserveTraffic(s, observedAt).state = MarkSeen(seen, observedAt)
          /\ ObserveTraffic(s, observedAt).event
               = IF s.verified /\ ~s.online THEN "connected" ELSE Silent
      BY <1>3 DEF ObserveTraffic, Outcome
    <2> HIDE DEF seen
    <2> QED BY <2>1, <1>1, <1>3, MarkSeenBelief DEF Event
  <1> QED BY <1>2, <1>3

\* A confirmed message makes its device present, another one changes nothing.
LEMMA ObserveNeighborBelief ==
  ASSUME NEW s \in DeviceState, NEW ip \in Addresses, NEW confirmed \in BOOLEAN,
         NEW now \in Time
  PROVE  LET o == ObserveNeighbor(s, ip, confirmed, now) IN
         /\ o.state \in DeviceState
         /\ o.event \in Event
         /\ o.state.disconnectedAt = s.disconnectedAt
         /\ confirmed =>
              /\ o.state.verified /\ o.state.online
              /\ o.event = IF s.online THEN Silent ELSE "connected"
         /\ ~confirmed =>
              /\ o.state.verified = s.verified /\ o.state.online = s.online
              /\ o.event = Silent
  <1> DEFINE moved == [s EXCEPT !.ip = ip]
             seen  == [moved EXCEPT !.verified = TRUE, !.online = TRUE]
  <1>1. /\ moved \in DeviceState /\ seen \in DeviceState
        /\ seen.verified /\ seen.online /\ seen.disconnectedAt = s.disconnectedAt
        /\ moved.verified = s.verified /\ moved.online = s.online
        /\ moved.disconnectedAt = s.disconnectedAt
    BY DEF DeviceState
  <1>2. CASE confirmed
    <2>1. /\ ObserveNeighbor(s, ip, confirmed, now).state = MarkSeen(seen, now)
          /\ ObserveNeighbor(s, ip, confirmed, now).event
               = IF s.online THEN Silent ELSE "connected"
      BY <1>2 DEF ObserveNeighbor, Outcome
    <2> HIDE DEF seen, moved
    <2> QED BY <2>1, <1>1, <1>2, MarkSeenBelief DEF Event
  <1>3. CASE ~confirmed
    <2>1. ObserveNeighbor(s, ip, confirmed, now) = Quiet(moved)
      BY <1>3 DEF ObserveNeighbor
    <2>2. /\ ObserveNeighbor(s, ip, confirmed, now).state = moved
          /\ ObserveNeighbor(s, ip, confirmed, now).event = Silent
      BY <2>1 DEF Quiet, Outcome
    <2> HIDE DEF seen, moved
    <2> QED BY <2>2, <1>1, <1>3 DEF Event
  <1> QED BY <1>2, <1>3

\* A probe takes a confirmed device offline, or confirms an entry, or nothing.
LEMMA ApplyProbeBelief ==
  ASSUME NEW s \in DeviceState, NEW r \in Result
  PROVE  LET o == ApplyProbe(s, r) IN
         /\ o.state \in DeviceState
         /\ o.event \in Event
         /\ \/ /\ o.event = Silent
               /\ o.state.online = s.online
               /\ o.state.disconnectedAt = s.disconnectedAt
               /\ \/ o.state.verified = s.verified
                  \/ o.state.verified /\ r.online /\ ~Superseded(s, r)
            \/ /\ o.event = "disconnected"
               /\ BecomesOffline(s, r)
               /\ s.verified /\ s.online /\ ~r.online
               /\ o.state.verified /\ ~o.state.online
               /\ o.state.disconnectedAt = r.checked
  <1> DEFINE released == Release(s, r)
             verified == [released EXCEPT !.verified = TRUE]
             o        == ApplyProbe(s, r)
  <1>1. /\ released \in DeviceState
        /\ released.online = s.online
        /\ released.verified = s.verified
        /\ released.disconnectedAt = s.disconnectedAt
    BY DEF Release, DeviceState
  <1>2. o.state \in DeviceState /\ o.event \in Event
    BY ApplyProbeProperties DEF Event
  <1> HIDE DEF released
  <1>3. CASE \/ Superseded(s, r)
             \/ ~r.online /\ ~BecomesCandidate(s, r) /\ ~BecomesOffline(s, r)
    <2>1. o.state = released /\ o.event = Silent
      BY <1>3 DEF ApplyProbe, Quiet, Outcome, released
    <2> QED BY <2>1, <1>1, <1>2
  <1>4. CASE ~Superseded(s, r) /\ r.online
    <2>1. /\ verified \in DeviceState
          /\ verified.verified
          /\ verified.online = s.online
          /\ verified.disconnectedAt = s.disconnectedAt
      BY <1>1 DEF DeviceState
    <2>2. o.state = MarkSeen(verified, r.checked) /\ o.event = Silent
      BY <1>4 DEF ApplyProbe, Quiet, Outcome, released
    <2>3. r.checked \in Time
      BY DEF Result
    <2> HIDE DEF verified
    <2>4. /\ o.state.verified
          /\ o.state.online = s.online
          /\ o.state.disconnectedAt = s.disconnectedAt
      BY <2>1, <2>2, <2>3, MarkSeenBelief
    <2> HIDE DEF o
    <2> QED BY <1>2, <1>4, <2>2, <2>4 DEF o
  <1>5. CASE ~Superseded(s, r) /\ ~r.online /\ BecomesCandidate(s, r)
    <2>1. o.state = Candidate(released) /\ o.event = Silent
      BY <1>5 DEF ApplyProbe, Quiet, Outcome, released
    <2>2. /\ Candidate(released).verified = s.verified
          /\ Candidate(released).online = s.online
          /\ Candidate(released).disconnectedAt = s.disconnectedAt
      BY <1>1 DEF Candidate, DeviceState
    <2> QED BY <1>2, <2>1, <2>2
  <1>6. CASE /\ ~Superseded(s, r) /\ ~r.online /\ ~BecomesCandidate(s, r)
             /\ BecomesOffline(s, r)
    <2>1. o.state = Offline(released, r) /\ o.event = "disconnected"
      BY <1>6 DEF ApplyProbe, Outcome, released
    <2>2. /\ Offline(released, r).verified = s.verified
          /\ ~Offline(released, r).online
          /\ Offline(released, r).disconnectedAt = r.checked
      BY <1>1 DEF Offline, DeviceState
    <2>3. s.verified /\ s.online
      BY <1>6 DEF BecomesOffline, Missed
    <2> QED BY <1>2, <1>6, <2>1, <2>2, <2>3
  <1> QED BY <1>3, <1>4, <1>5, <1>6
-----------------------------------------------------------------------------
(***************************************************************************)
(* What a step of the collector does to the abstract state.                *)
(***************************************************************************)

\* Where an entry is replaced, the beliefs about the other devices remain.
LEMMA ConcludeMaps ==
  ASSUME TypeOK, NEW d \in Devices, NEW o, NEW path \in Path,
         o.state \in DeviceState, o.event \in Event, outgoing = {},
         Conclude(d, o, path)
  PROVE  /\ StatusMap' = [StatusMap EXCEPT ![d] = BelievedOf(o.state)]
         /\ LostMap' = [LostMap EXCEPT ![d] = o.state.disconnectedAt]
         /\ PendingSet' = IF o.event = Silent THEN {}
                          ELSE {[key |-> d, type |-> o.event]}
         /\ PendingSet = {}
         /\ Running'
         /\ EmittingOnlyAtEmit'
  <1>1. /\ DOMAIN states' = DOMAIN states \cup {d}
        /\ DOMAIN states \subseteq Devices
        /\ states'[d] = o.state
        /\ \A e \in DOMAIN states : e # d => states'[e] = states[e]
    BY ConcludeProperties DEF TypeOK
  <1>2. \A e \in Devices : e # d =>
           Believed(e)' = Believed(e) /\ LostAt(e)' = LostAt(e)
    BY <1>1 DEF Believed, LostAt
  <1>3. Believed(d)' = BelievedOf(o.state) /\ LostAt(d)' = o.state.disconnectedAt
    BY <1>1 DEF Believed, LostAt, BelievedOf
  <1>4. /\ StatusMap' = [StatusMap EXCEPT ![d] = BelievedOf(o.state)]
        /\ LostMap' = [LostMap EXCEPT ![d] = o.state.disconnectedAt]
    BY <1>2, <1>3 DEF StatusMap, LostMap
  <1>5. CASE o.event = Silent
    <2>1. outgoing' = {} /\ pc' = After(path)
      BY <1>5 DEF Conclude
    <2> QED BY <1>4, <1>5, <2>1 DEF PendingSet, Running, Returned, After,
                                    EmittingOnlyAtEmit
  <1>6. CASE o.event # Silent
    <2>1. outgoing' = {[key |-> d, type |-> o.event, path |-> path]} /\ pc' = "emit"
      BY <1>6 DEF Conclude
    <2> QED BY <1>4, <1>6, <2>1 DEF PendingSet, Running, Returned, EmittingOnlyAtEmit
  <1> QED BY <1>5, <1>6

\* A step about one device is a step.
LEMMA DeviceMoves ==
  \A d \in Devices :
    /\ Presence!Hear(d)    => Presence!PresenceNext
    /\ Presence!Appear(d)  => Presence!PresenceNext
    /\ Presence!Confirm(d) => Presence!PresenceNext
    /\ Presence!Return(d)  => Presence!PresenceNext
    /\ Presence!Lose(d)    => Presence!PresenceNext
  BY DEF Presence!PresenceNext

\* Steps that leave the entries, the emission, the evidence and the time alone
\* change nothing in the abstract state, unless the collector returns.
LEMMA AbstractStutter ==
  ASSUME UNCHANGED <<states, outgoing, heard, announced, clock>>, Running' = Running
  PROVE  UNCHANGED Presence!presence
  BY DEF Presence!presence, Believed, LostAt

\* Entries are unconfirmed only while they are online, and frames are signs of
\* their devices, after every replacement of an entry that keeps to that.
LEMMA EntryKeepsRInv ==
  ASSUME RInv, NEW d \in Devices,
         DOMAIN states' = DOMAIN states \cup {d},
         \A e \in DOMAIN states : e # d => states'[e] = states[e],
         states'[d].verified \/ states'[d].online,
         Range(traffic') \subseteq Range(traffic),
         \A e \in Devices : heard[e] <= heard'[e],
         \A e \in Devices : heard'[e] \in Int
  PROVE  UnconfirmedIsOnline' /\ FramesAreHeard'
  <1>1. UnconfirmedIsOnline'
    BY DEF RInv, UnconfirmedIsOnline
  <1>2. Range(traffic) \subseteq Frame /\ heard \in [Devices -> Time \cup {NoTime}]
    BY RangeType DEF RInv, IInv, TypeOK
  <1>3. FramesAreHeard'
    <2> SUFFICES ASSUME NEW f \in Range(traffic') PROVE f.observedAt <= heard'[f.mac]
      BY DEF FramesAreHeard
    <2>1. f \in Range(traffic) /\ f \in Frame
      BY <1>2
    <2>2. /\ f.mac \in Devices /\ f.observedAt \in Nat
          /\ f.observedAt <= heard[f.mac]
          /\ heard[f.mac] \in Int
      BY <1>2, <2>1 DEF Frame, Time, NoTime, RInv, FramesAreHeard
    <2> QED BY <2>2
  <1> QED BY <1>1, <1>3

Refined ==
  /\ EmittingOnlyAtEmit' /\ UnconfirmedIsOnline' /\ FramesAreHeard'
  /\ Presence!PresenceNext \/ UNCHANGED Presence!presence

\* A frame confirms an entry of the snapshot, brings a device back, or is no news.
LEMMA TakeTrafficRefines ==
  ASSUME RInv, TakeTraffic
  PROVE  Refined
  <1> DEFINE f == Head(traffic)
  <1>0. /\ f \in Frame /\ f.mac \in Devices /\ f.observedAt \in Time
        /\ Range(traffic) = Range(traffic') \cup {f}
        /\ f.observedAt <= heard[f.mac]
    <2>1. traffic \in Seq(Frame) /\ traffic # <<>> /\ traffic' = Tail(traffic)
      BY DEF TakeTraffic, RInv, IInv, TypeOK
    <2>2. f \in Frame /\ Range(traffic) = Range(traffic') \cup {f}
      BY <2>1, TailRange
    <2> QED BY <2>2 DEF Frame, RInv, FramesAreHeard
  <1> PICK d \in Devices : d = f.mac
    BY <1>0
  <1>1. /\ f \in Frame /\ d \in Devices /\ f.observedAt \in Time
        /\ Range(traffic) = Range(traffic') \cup {f}
        /\ f.observedAt <= heard[d] /\ d = f.mac
    BY <1>0
  <1>2. /\ UNCHANGED <<clock, heard, announced>>
        /\ outgoing = {} /\ Running /\ pc \in Path /\ TypeOK /\ pc # "emit"
    BY DEF TakeTraffic, environment, RInv, IInv, EmittingOnlyAtEmit, Running, Returned,
           Path
  <1>3. /\ \A e \in Devices : heard[e] <= heard'[e] /\ heard'[e] \in Int
        /\ heard[d] \in Int /\ heard[d] <= clock /\ clock \in Nat
    BY <1>1, <1>2 DEF TypeOK, Time, NoTime, RInv, IInv, ReadingsArePast
  <1> HIDE DEF f
  <1>4. CASE d \notin DOMAIN states
    <2>1. UNCHANGED <<states, pc, outgoing>>
      BY <1>4 DEF TakeTraffic, f
    <2>2. UNCHANGED Presence!presence
      BY <2>1, <1>2, AbstractStutter DEF Running
    <2>3. FramesAreHeard' /\ UnconfirmedIsOnline' /\ EmittingOnlyAtEmit'
      BY <1>1, <1>2, <2>1 DEF RInv, FramesAreHeard, UnconfirmedIsOnline,
                              EmittingOnlyAtEmit
    <2> QED BY <2>2, <2>3 DEF Refined
  <1>5. CASE d \in DOMAIN states
    <2> DEFINE s == states[d]
               o == ObserveTraffic(s, f.observedAt)
    <2>1. s \in DeviceState /\ (s.verified \/ s.online)
      BY <1>2, <1>5 DEF TypeOK, RInv, UnconfirmedIsOnline
    <2>2. /\ o.state \in DeviceState /\ o.event \in Event
          /\ o.state.disconnectedAt = s.disconnectedAt
          /\ Outdated(s, f.observedAt) => o.state = s /\ o.event = Silent
          /\ ~Outdated(s, f.observedAt) =>
               /\ o.state.verified /\ o.state.online
               /\ o.event = IF s.verified /\ ~s.online THEN "connected" ELSE Silent
      BY <2>1, <1>1, ObserveTrafficBelief
    <2>3. Conclude(d, o, pc)
      BY <1>5 DEF TakeTraffic, f
    <2> HIDE DEF o
    <2>4. /\ StatusMap' = [StatusMap EXCEPT ![d] = BelievedOf(o.state)]
          /\ LostMap' = [LostMap EXCEPT ![d] = o.state.disconnectedAt]
          /\ PendingSet' = IF o.event = Silent THEN {}
                           ELSE {[key |-> d, type |-> o.event]}
          /\ PendingSet = {} /\ Running' /\ EmittingOnlyAtEmit'
      BY <1>1, <1>2, <2>2, <2>3, ConcludeMaps
    <2>5. /\ DOMAIN states' = DOMAIN states \cup {d}
          /\ states'[d] = o.state
          /\ \A e \in DOMAIN states : e # d => states'[e] = states[e]
      BY <1>1, <1>2, <2>2, <2>3, ConcludeProperties
    <2>6. UnconfirmedIsOnline' /\ FramesAreHeard'
      BY <1>1, <1>3, <2>1, <2>2, <2>5, EntryKeepsRInv
    <2>7. StatusMap[d] = BelievedOf(s) /\ LostMap[d] = s.disconnectedAt
      BY <1>1, <1>5 DEF StatusMap, LostMap, Believed, LostAt, BelievedOf
    <2>8. LostMap' = LostMap
      BY <2>2, <2>4, <2>7, <1>1 DEF LostMap
    <2>9. CASE o.event = Silent /\ BelievedOf(o.state) = BelievedOf(s)
      <3>1. StatusMap' = StatusMap /\ PendingSet' = PendingSet
        BY <2>4, <2>7, <2>9, <1>1 DEF StatusMap
      <3>2. UNCHANGED Presence!presence
        BY <3>1, <2>8, <2>4, <1>2 DEF Presence!presence, StatusMap, LostMap, PendingSet
      <3> QED BY <2>4, <2>6, <3>2 DEF Refined
    <2>10. heard'[d] # NoTime /\ \E t \in heard[d] .. clock : heard' = [heard EXCEPT ![d] = t]
      <3>1. heard = [heard EXCEPT ![d] = heard[d]]
        BY <1>1, <1>2 DEF TypeOK
      <3>2. f.observedAt \in Nat
        BY <1>1 DEF Time
      <3> QED BY <3>1, <3>2, <1>1, <1>2, <1>3 DEF NoTime
    <2>11. CASE ~Outdated(s, f.observedAt) /\ ~s.verified
      <3>1. /\ StatusMap[d] = "listed" /\ PendingSet' = {}
            /\ StatusMap' = [StatusMap EXCEPT ![d] = "present"]
        BY <2>2, <2>4, <2>7, <2>11 DEF BelievedOf
      <3>2. Presence!Confirm(d)
        BY <3>1, <2>4, <2>8, <2>10, <1>2
        DEF Presence!Confirm, Presence!Move, Presence!Heed, Presence!NoTime, NoTime,
            StatusMap, LostMap, PendingSet
      <3>3. Presence!PresenceNext
        BY <1>1, <3>2, DeviceMoves
      <3> QED BY <2>4, <2>6, <3>3 DEF Refined
    <2>12. CASE ~Outdated(s, f.observedAt) /\ s.verified /\ ~s.online
      <3>1. /\ StatusMap[d] = "absent"
            /\ PendingSet' = {[key |-> d, type |-> "connected"]}
            /\ StatusMap' = [StatusMap EXCEPT ![d] = "present"]
        BY <2>2, <2>4, <2>7, <2>12 DEF BelievedOf, Silent
      <3>2. LostMap[d] <= heard'[d]
        <4>1. s.disconnectedAt \in Int /\ f.observedAt \in Int
          BY <2>1, <1>1 DEF DeviceState, Time, NoTime
        <4>2. s.disconnectedAt < f.observedAt
          BY <2>12, <4>1 DEF Outdated
        <4> QED BY <4>1, <4>2, <2>7, <1>1, <1>2, <1>3
      <3>3. Presence!Return(d)
        BY <3>1, <3>2, <2>4, <2>8, <2>10, <1>2
        DEF Presence!Return, Presence!Move, Presence!Heed, Presence!News,
            StatusMap, LostMap, PendingSet
      <3>4. Presence!PresenceNext
        BY <1>1, <3>3, DeviceMoves
      <3> QED BY <2>4, <2>6, <3>4 DEF Refined
    <2>13. CASE ~Outdated(s, f.observedAt) /\ s.verified /\ s.online
      BY <2>2, <2>9, <2>13 DEF BelievedOf
    <2>14. CASE Outdated(s, f.observedAt)
      BY <2>2, <2>9, <2>14
    <2> QED BY <2>11, <2>12, <2>13, <2>14
  <1> QED BY <1>4, <1>5

\* A probe confirms an entry, takes a present device away, or is no news.
LEMMA ApplyResultRefines ==
  ASSUME RInv, ApplyResult
  PROVE  Refined
  <1>1. PICK r \in held :
          /\ Conclude(r.key, ApplyProbe(states[r.key], r), "async")
          /\ heard' = IF r.online /\ ~Superseded(states[r.key], r)
                      THEN [heard EXCEPT ![r.key] = Later(@, r.checked)]
                      ELSE heard
    BY DEF ApplyResult
  <1> DEFINE d == r.key
             s == states[d]
             o == ApplyProbe(s, r)
  <1>2. /\ UNCHANGED <<clock, announced, traffic>> /\ traffic = <<>>
        /\ outgoing = {} /\ Running /\ TypeOK
    BY DEF ApplyResult, environment, senses, RInv, IInv, EmittingOnlyAtEmit, Running,
           Returned, Drained
  <1>3. /\ r \in Result /\ d \in Devices /\ d \in DOMAIN states
        /\ r.checked \in Nat /\ r.checked <= clock
        /\ s \in DeviceState /\ (s.verified \/ s.online)
        /\ \A e \in Devices : heard[e] \in Int /\ heard[e] <= clock
        /\ clock \in Nat /\ heard \in [Devices -> Time \cup {NoTime}]
    BY DEF RInv, IInv, TypeOK, ProbesAreAboutEntries, Outstanding, Result, Time, NoTime,
           ReadingsArePast, UnconfirmedIsOnline
  <1>4. /\ o.state \in DeviceState
        /\ o.event \in Event
        /\ \/ /\ o.event = Silent
              /\ o.state.online = s.online
              /\ o.state.disconnectedAt = s.disconnectedAt
              /\ \/ o.state.verified = s.verified
                 \/ o.state.verified /\ r.online /\ ~Superseded(s, r)
           \/ /\ o.event = "disconnected"
              /\ BecomesOffline(s, r)
              /\ s.verified /\ s.online /\ ~r.online
              /\ o.state.verified /\ ~o.state.online
              /\ o.state.disconnectedAt = r.checked
    BY <1>3, ApplyProbeBelief
  <1>5. Conclude(d, o, "async") /\ "async" \in Path
    BY <1>1 DEF Path
  <1> HIDE DEF o
  <1>6. /\ StatusMap' = [StatusMap EXCEPT ![d] = BelievedOf(o.state)]
        /\ LostMap' = [LostMap EXCEPT ![d] = o.state.disconnectedAt]
        /\ PendingSet' = IF o.event = Silent THEN {}
                         ELSE {[key |-> d, type |-> o.event]}
        /\ PendingSet = {} /\ Running' /\ EmittingOnlyAtEmit'
    BY <1>2, <1>3, <1>4, <1>5, ConcludeMaps
  <1>7. /\ DOMAIN states' = DOMAIN states \cup {d}
        /\ states'[d] = o.state
        /\ \A e \in DOMAIN states : e # d => states'[e] = states[e]
    BY <1>2, <1>3, <1>4, <1>5, ConcludeProperties
  <1>8. /\ heard' = [heard EXCEPT ![d] = heard'[d]]
        /\ heard'[d] \in heard[d] .. clock
        /\ \A e \in Devices : heard[e] <= heard'[e] /\ heard'[e] \in Int
        /\ r.online /\ ~Superseded(s, r) => heard'[d] # NoTime
    <2>1. CASE r.online /\ ~Superseded(s, r)
      <3>1. heard' = [heard EXCEPT ![d] = Later(heard[d], r.checked)]
        BY <1>1, <2>1
      <3>2. /\ Later(heard[d], r.checked) \in heard[d] .. clock
            /\ Later(heard[d], r.checked) # NoTime
        BY <1>3 DEF Later, NoTime
      <3>3. /\ heard'[d] = Later(heard[d], r.checked)
            /\ \A e \in Devices : e # d => heard'[e] = heard[e]
        BY <1>3, <3>1
      <3>4. heard' = [heard EXCEPT ![d] = heard'[d]]
        BY <3>1, <3>3
      <3>5. \A e \in Devices : heard[e] <= heard'[e] /\ heard'[e] \in Int
        BY <1>3, <3>2, <3>3
      <3> QED BY <3>2, <3>3, <3>4, <3>5
    <2>2. CASE ~(r.online /\ ~Superseded(s, r))
      <3>1. heard' = heard
        BY <1>1, <2>2
      <3> QED BY <1>3, <2>2, <3>1
    <2> QED BY <2>1, <2>2
  <1>9. Presence!Heed(d)
    BY <1>8 DEF Presence!Heed
  <1>10. UnconfirmedIsOnline' /\ FramesAreHeard'
    <2>1. o.state.verified \/ o.state.online
      BY <1>3, <1>4
    <2>2. Range(traffic') \subseteq Range(traffic)
      BY <1>2
    <2> QED BY <1>3, <1>7, <1>8, <2>1, <2>2, EntryKeepsRInv
  <1>11. StatusMap[d] = BelievedOf(s) /\ LostMap[d] = s.disconnectedAt
    BY <1>3 DEF StatusMap, LostMap, Believed, LostAt, BelievedOf
  <1> SUFFICES Presence!PresenceNext
    BY <1>6, <1>10 DEF Refined
  <1>12. CASE o.event = Silent
    <2>1. /\ o.state.online = s.online
          /\ o.state.disconnectedAt = s.disconnectedAt
          /\ PendingSet' = PendingSet
      BY <1>4, <1>6, <1>12 DEF Silent
    <2>2. LostMap' = LostMap
      BY <2>1, <1>3, <1>6, <1>11 DEF LostMap
    <2>3. CASE o.state.verified = s.verified
      <3>1. StatusMap' = StatusMap
        BY <2>1, <2>3, <1>3, <1>6, <1>11 DEF StatusMap, BelievedOf
      <3>2. Presence!Hear(d)
        BY <3>1, <2>1, <2>2, <1>2, <1>6, <1>9
        DEF Presence!Hear, StatusMap, LostMap, PendingSet
      <3> QED BY <1>3, <3>2, DeviceMoves
    <2>4. CASE o.state.verified # s.verified
      <3>1. /\ ~s.verified /\ s.online /\ o.state.verified /\ o.state.online
            /\ heard'[d] # NoTime
        <4>1. s.verified \in BOOLEAN /\ o.state.verified \in BOOLEAN
          BY <1>3, <1>4 DEF DeviceState
        <4>2. o.state.verified /\ r.online /\ ~Superseded(s, r)
          BY <2>4, <1>4, <1>12 DEF Silent
        <4> QED BY <4>1, <4>2, <2>1, <2>4, <1>3, <1>8
      <3>2. /\ StatusMap[d] = "listed"
            /\ StatusMap' = [StatusMap EXCEPT ![d] = "present"]
        BY <3>1, <1>6, <1>11 DEF BelievedOf
      <3>3. Presence!Confirm(d)
        BY <3>1, <3>2, <2>1, <2>2, <1>2, <1>6, <1>9
        DEF Presence!Confirm, Presence!Move, Presence!NoTime, NoTime,
            StatusMap, LostMap, PendingSet
      <3> QED BY <1>3, <3>3, DeviceMoves
    <2> QED BY <2>3, <2>4
  <1>13. CASE o.event # Silent
    <2>1. /\ o.event = "disconnected" /\ BecomesOffline(s, r)
          /\ s.verified /\ s.online /\ ~r.online
          /\ o.state.verified /\ ~o.state.online
          /\ o.state.disconnectedAt = r.checked
      BY <1>4, <1>13
    <2>2. heard' = heard
      BY <1>1, <2>1
    <2>3. /\ StatusMap[d] = "present"
          /\ StatusMap' = [StatusMap EXCEPT ![d] = "absent"]
          /\ LostMap' = [LostMap EXCEPT ![d] = r.checked]
          /\ PendingSet' = {[key |-> d, type |-> "disconnected"]}
      BY <2>1, <1>6, <1>11 DEF BelievedOf, Silent
    <2>4. r.checked \in heard[d] + OfflineTimeout .. clock
      <3>1. s.lastSeen + OfflineTimeout <= r.checked
        BY <1>3, <2>1 DEF BecomesOffline, RInv, IInv, DeadlineIsTotal
      <3>2. heard[d] <= s.lastSeen
        <4>1. Range(traffic) = {}
          BY <1>2, EmptySeq, LenProperties DEF Range
        <4> QED BY <1>3, <2>1, <4>1 DEF RInv, IInv, HeardIsAccountedFor
      <3>3. s.lastSeen \in Nat /\ OfflineTimeout \in Nat
        BY <1>3, TimingAssumption DEF DeviceState, Time
      <3> QED BY <1>3, <3>1, <3>2, <3>3
    <2>5. Presence!Lose(d)
      BY <2>2, <2>3, <2>4, <1>2, <1>6
      DEF Presence!Lose, Presence!Move, Presence!News, StatusMap, LostMap, PendingSet
    <2> QED BY <1>3, <2>5, DeviceMoves
  <1> QED BY <1>12, <1>13

\* A message announces a device, confirms it, brings it back, or is no news.
LEMMA ReceiveRefines ==
  ASSUME RInv, Receive
  PROVE  Refined
  <1> DEFINE m == Head(netlink)
  <1>0. m.mac \in Devices /\ m.ip \in Addresses /\ m.confirmed \in BOOLEAN
    <2>1. netlink \in Seq(Message) /\ netlink # <<>>
      BY DEF Receive, RInv, IInv, TypeOK
    <2>2. m \in Message
      BY <2>1, TailRange
    <2> QED BY <2>2 DEF Message
  <1> PICK d \in Devices : d = m.mac
    BY <1>0
  <1>1. d = m.mac /\ m.ip \in Addresses /\ m.confirmed \in BOOLEAN
    BY <1>0
  <1>2. /\ UNCHANGED <<clock, announced, traffic>> /\ "netlink" \in Path
        /\ outgoing = {} /\ Running /\ TypeOK /\ pc = "recv"
    BY DEF Receive, environment, RInv, IInv, EmittingOnlyAtEmit, Running, Returned, Path
  <1>3. /\ clock \in Nat /\ \A e \in Devices : heard[e] \in Int /\ heard[e] <= clock
        /\ heard \in [Devices -> Time \cup {NoTime}]
    BY DEF RInv, IInv, TypeOK, ReadingsArePast, Time, NoTime
  <1> HIDE DEF m
  <1>4. heard' = [heard EXCEPT ![d] = IF m.confirmed THEN clock ELSE heard[d]]
    <2>1. Later(heard[d], clock) = clock
      BY <1>3 DEF Later
    <2>2. CASE m.confirmed
      <3>1. heard' = [heard EXCEPT ![d] = Later(heard[d], clock)]
        BY <2>2, <1>1 DEF Receive, m
      <3> QED BY <2>1, <2>2, <3>1
    <2>3. CASE ~m.confirmed
      <3>1. heard' = heard
        BY <2>3 DEF Receive, m
      <3> QED BY <2>3, <3>1, <1>3
    <2> QED BY <2>2, <2>3
  <1>5. /\ heard'[d] = IF m.confirmed THEN clock ELSE heard[d]
        /\ \A e \in Devices : heard[e] <= heard'[e] /\ heard'[e] \in Int
    BY <1>3, <1>4
  <1>6. Presence!Heed(d)
    <2>1. (IF m.confirmed THEN clock ELSE heard[d]) \in heard[d] .. clock
      BY <1>1, <1>3
    <2> QED BY <1>4, <2>1 DEF Presence!Heed
  <1>7. m.confirmed => heard'[d] # NoTime
    BY <1>3, <1>5 DEF NoTime
  <1>8. Range(traffic') \subseteq Range(traffic)
    BY <1>2
  <1>9. CASE d \in DOMAIN states
    <2> DEFINE s == states[d]
               o == ObserveNeighbor(s, m.ip, m.confirmed, clock)
    <2>1. s \in DeviceState /\ clock \in Time /\ (s.verified \/ s.online)
      BY <1>2, <1>3, <1>9 DEF TypeOK, Time, RInv, UnconfirmedIsOnline
    <2>2. /\ o.state \in DeviceState
          /\ o.event \in Event
          /\ o.state.disconnectedAt = s.disconnectedAt
          /\ m.confirmed =>
               /\ o.state.verified /\ o.state.online
               /\ o.event = IF s.online THEN Silent ELSE "connected"
          /\ ~m.confirmed =>
               /\ o.state.verified = s.verified /\ o.state.online = s.online
               /\ o.event = Silent
      BY <1>1, <2>1, ObserveNeighborBelief
    <2>3. Conclude(d, o, "netlink")
      BY <1>1, <1>9 DEF Receive, m
    <2> HIDE DEF o
    <2>4. /\ StatusMap' = [StatusMap EXCEPT ![d] = BelievedOf(o.state)]
          /\ LostMap' = [LostMap EXCEPT ![d] = o.state.disconnectedAt]
          /\ PendingSet' = IF o.event = Silent THEN {}
                           ELSE {[key |-> d, type |-> o.event]}
          /\ PendingSet = {} /\ Running' /\ EmittingOnlyAtEmit'
      BY <1>2, <2>2, <2>3, ConcludeMaps
    <2>5. /\ DOMAIN states' = DOMAIN states \cup {d}
          /\ states'[d] = o.state
          /\ \A e \in DOMAIN states : e # d => states'[e] = states[e]
      BY <1>2, <2>2, <2>3, ConcludeProperties
    <2>6. UnconfirmedIsOnline' /\ FramesAreHeard'
      <3>1. o.state.verified \/ o.state.online
        BY <2>1, <2>2, <1>1
      <3> QED BY <1>5, <1>8, <2>5, <3>1, EntryKeepsRInv
    <2>7. StatusMap[d] = BelievedOf(s) /\ LostMap[d] = s.disconnectedAt
      BY <1>9 DEF StatusMap, LostMap, Believed, LostAt, BelievedOf
    <2>8. LostMap' = LostMap
      BY <2>2, <2>4, <2>7 DEF LostMap
    <2> SUFFICES Presence!PresenceNext
      BY <2>4, <2>6 DEF Refined
    <2>9. CASE o.event = Silent /\ BelievedOf(o.state) = BelievedOf(s)
      <3>1. StatusMap' = StatusMap /\ PendingSet' = PendingSet
        BY <2>4, <2>7, <2>9 DEF StatusMap
      <3>2. Presence!Hear(d)
        BY <3>1, <2>4, <2>8, <1>2, <1>6
        DEF Presence!Hear, StatusMap, LostMap, PendingSet
      <3> QED BY <3>2, DeviceMoves
    <2>10. CASE m.confirmed /\ ~s.verified
      <3>1. /\ StatusMap[d] = "listed" /\ PendingSet' = {}
            /\ StatusMap' = [StatusMap EXCEPT ![d] = "present"]
        BY <2>1, <2>2, <2>4, <2>7, <2>10 DEF BelievedOf
      <3>2. Presence!Confirm(d)
        BY <3>1, <2>4, <2>8, <2>10, <1>2, <1>6, <1>7
        DEF Presence!Confirm, Presence!Move, Presence!NoTime, NoTime,
            StatusMap, LostMap, PendingSet
      <3> QED BY <3>2, DeviceMoves
    <2>11. CASE m.confirmed /\ s.verified /\ ~s.online
      <3>1. /\ StatusMap[d] = "absent"
            /\ PendingSet' = {[key |-> d, type |-> "connected"]}
            /\ StatusMap' = [StatusMap EXCEPT ![d] = "present"]
        BY <2>2, <2>4, <2>7, <2>11 DEF BelievedOf, Silent
      <3>2. LostMap[d] <= heard'[d]
        BY <1>5, <1>9, <2>7, <2>11 DEF RInv, IInv, ReadingsArePast
      <3>3. Presence!Return(d)
        BY <3>1, <3>2, <2>4, <2>8, <1>2, <1>6
        DEF Presence!Return, Presence!Move, Presence!News, StatusMap, LostMap, PendingSet
      <3> QED BY <3>3, DeviceMoves
    <2>12. CASE ~m.confirmed \/ (s.verified /\ s.online)
      <3>1. o.event = Silent /\ BelievedOf(o.state) = BelievedOf(s)
        BY <2>2, <2>12, <1>1 DEF BelievedOf
      <3> QED BY <2>9, <3>1
    <2>13. /\ m.confirmed \in BOOLEAN
           /\ s.verified \in BOOLEAN /\ s.online \in BOOLEAN
      BY <1>1, <2>1 DEF DeviceState
    <2> HIDE DEF s
    <2>14. \/ m.confirmed /\ ~s.verified
           \/ m.confirmed /\ s.verified /\ ~s.online
           \/ ~m.confirmed \/ (s.verified /\ s.online)
      BY <2>13
    <2> QED BY <2>10, <2>11, <2>12, <2>14
  <1>10. CASE d \notin DOMAIN states /\ m.confirmed
    <2> DEFINE o == Outcome(NewDeviceState(m.ip, TRUE, clock), "connected")
    <2>1. Conclude(d, o, "netlink")
      BY <1>1, <1>10 DEF Receive, m
    <2>2. /\ o.state \in DeviceState /\ o.event \in Event /\ o.event = "connected"
          /\ o.state.verified /\ o.state.online /\ o.state.disconnectedAt = NoTime
      <3>1. clock \in Time
        BY <1>3 DEF Time
      <3> QED BY <1>1, <3>1, NewDeviceStateType DEF Outcome, Event, NewDeviceState
    <2> HIDE DEF o
    <2>3. /\ StatusMap' = [StatusMap EXCEPT ![d] = "present"]
          /\ LostMap' = [LostMap EXCEPT ![d] = NoTime]
          /\ PendingSet' = {[key |-> d, type |-> "connected"]}
          /\ PendingSet = {} /\ Running' /\ EmittingOnlyAtEmit'
      <3>1. /\ StatusMap' = [StatusMap EXCEPT ![d] = BelievedOf(o.state)]
            /\ LostMap' = [LostMap EXCEPT ![d] = o.state.disconnectedAt]
            /\ PendingSet' = IF o.event = Silent THEN {}
                             ELSE {[key |-> d, type |-> o.event]}
            /\ PendingSet = {} /\ Running' /\ EmittingOnlyAtEmit'
        BY <1>2, <2>1, <2>2, ConcludeMaps
      <3> QED BY <2>2, <3>1 DEF BelievedOf, Silent
    <2>4. /\ DOMAIN states' = DOMAIN states \cup {d}
          /\ states'[d] = o.state
          /\ \A e \in DOMAIN states : e # d => states'[e] = states[e]
      BY <1>2, <2>1, <2>2, ConcludeProperties
    <2>5. UnconfirmedIsOnline' /\ FramesAreHeard'
      BY <1>5, <1>8, <2>2, <2>4, EntryKeepsRInv
    <2>6. StatusMap[d] = "unknown" /\ LostMap' = LostMap
      <3>1. StatusMap[d] = "unknown" /\ LostMap[d] = NoTime
        BY <1>10 DEF StatusMap, LostMap, Believed, LostAt
      <3> QED BY <3>1, <2>3 DEF LostMap
    <2>7. Presence!Appear(d)
      BY <2>3, <2>6, <1>2, <1>6, <1>7, <1>10
      DEF Presence!Appear, Presence!Move, Presence!News, Presence!NoTime, NoTime,
          StatusMap, LostMap, PendingSet
    <2> QED BY <2>3, <2>5, <2>7, DeviceMoves DEF Refined
  <1>11. CASE d \notin DOMAIN states /\ ~m.confirmed
    <2>1. UNCHANGED <<states, outgoing, heard>> /\ pc' = "async"
      BY <1>1, <1>11 DEF Receive, m
    <2>2. UNCHANGED Presence!presence
      BY <1>2, <2>1, AbstractStutter DEF Running, Returned
    <2>3. EmittingOnlyAtEmit' /\ UnconfirmedIsOnline' /\ FramesAreHeard'
      BY <1>2, <2>1 DEF RInv, EmittingOnlyAtEmit, UnconfirmedIsOnline, FramesAreHeard
    <2> QED BY <2>2, <2>3 DEF Refined
  <1> QED BY <1>1, <1>9, <1>10, <1>11

\* A delivered frame is a sign of its device.
LEMMA DeliverRefines ==
  ASSUME RInv, Deliver
  PROVE  Refined
  <1>1. PICK f \in captured :
          IF Len(traffic) < TrafficCapacity
          THEN /\ traffic' = Append(traffic, f)
               /\ heard' = [heard EXCEPT ![f.mac] = Later(@, f.observedAt)]
          ELSE UNCHANGED <<traffic, heard>>
    BY DEF Deliver
  <1>2. /\ f \in Frame /\ f.mac \in Devices /\ f.observedAt \in Nat
        /\ f.observedAt <= clock /\ clock \in Nat
        /\ \A e \in Devices : heard[e] \in Int /\ heard[e] <= clock
        /\ traffic \in Seq(Frame) /\ heard \in [Devices -> Time \cup {NoTime}]
    BY DEF RInv, IInv, TypeOK, ReadingsArePast, Frame, Time, NoTime
  <1>3. /\ UNCHANGED <<clock, states, outgoing, pc, announced>> /\ Running' = Running
    BY DEF Deliver, environment, loop, Running
  <1>4. EmittingOnlyAtEmit' /\ UnconfirmedIsOnline'
    BY <1>3 DEF RInv, EmittingOnlyAtEmit, UnconfirmedIsOnline
  <1>5. CASE Len(traffic) < TrafficCapacity
    <2> DEFINE t == Later(heard[f.mac], f.observedAt)
    <2>1. heard' = [heard EXCEPT ![f.mac] = t]
      BY <1>1, <1>5
    <2>2. t \in heard[f.mac] .. clock /\ f.observedAt <= t /\ t \in Int
      BY <1>2 DEF Later
    <2> HIDE DEF t
    <2>3. Presence!Hear(f.mac)
      BY <1>3, <2>1, <2>2 DEF Presence!Hear, Presence!Heed, Believed, LostAt
    <2>4. FramesAreHeard'
      <3>1. Range(traffic') = Range(traffic) \cup {f} /\ Range(traffic) \subseteq Frame
        <4>1. traffic' = Append(traffic, f)
          BY <1>1, <1>5
        <4>2. Range(Append(traffic, f)) = Range(traffic) \cup {f}
          BY <1>2, AppendRange
        <4>3. Range(traffic) \subseteq Frame
          BY <1>2, RangeType
        <4> QED BY <4>1, <4>2, <4>3
      <3>2. /\ heard'[f.mac] = t
            /\ \A e \in Devices : e # f.mac => heard'[e] = heard[e]
        BY <1>2, <2>1
      <3>3. ASSUME NEW g \in Range(traffic) PROVE g.observedAt <= heard'[g.mac]
        <4>1. /\ g.mac \in Devices /\ g.observedAt \in Nat
              /\ g.observedAt <= heard[g.mac]
          BY <3>1 DEF Frame, Time, RInv, FramesAreHeard
        <4> QED BY <1>2, <2>2, <3>2, <4>1
      <3> QED BY <2>2, <3>1, <3>2, <3>3 DEF FramesAreHeard
    <2> QED BY <1>2, <1>4, <2>3, <2>4, DeviceMoves DEF Refined
  <1>6. CASE ~(Len(traffic) < TrafficCapacity)
    <2>1. UNCHANGED <<traffic, heard>>
      BY <1>1, <1>6
    <2>2. UNCHANGED Presence!presence
      BY <1>3, <2>1, AbstractStutter
    <2>3. FramesAreHeard'
      BY <2>1 DEF RInv, FramesAreHeard
    <2> QED BY <1>4, <2>2, <2>3 DEF Refined
  <1> QED BY <1>5, <1>6

\* Beginning probes is no news.
LEMMA TakeTickRefines ==
  ASSUME RInv, TakeTick
  PROVE  Refined
  <1>1. UNCHANGED <<clock, heard, announced, outgoing, traffic, pc>> /\ Running' = Running
    BY DEF TakeTick, environment, history, Running
  <1>2. /\ DOMAIN states' = DOMAIN states
        /\ \A d \in DOMAIN states :
             /\ states'[d].online = states[d].online
             /\ states'[d].verified = states[d].verified
             /\ states'[d].disconnectedAt = states[d].disconnectedAt
    <2>1. CASE DetectOffline
      <3>1. PICK chosen \in Selection(FreeProbes) :
              states' = [d \in DOMAIN states |->
                           IF d \in chosen THEN BeginProbe(states[d]) ELSE states[d]]
        BY <2>1 DEF TakeTick
      <3>2. ASSUME NEW s \in DeviceState
            PROVE  /\ BeginProbe(s).online = s.online
                   /\ BeginProbe(s).verified = s.verified
                   /\ BeginProbe(s).disconnectedAt = s.disconnectedAt
        BY DEF BeginProbe, DeviceState
      <3>3. \A d \in DOMAIN states : states[d] \in DeviceState
        BY DEF RInv, IInv, TypeOK
      <3> QED BY <3>1, <3>2, <3>3
    <2>2. CASE ~DetectOffline
      BY <2>2 DEF TakeTick
    <2> QED BY <2>1, <2>2
  <1>3. \A d \in Devices : Believed(d)' = Believed(d) /\ LostAt(d)' = LostAt(d)
    BY <1>2 DEF Believed, LostAt
  <1>4. StatusMap' = StatusMap /\ LostMap' = LostMap
    BY <1>3 DEF StatusMap, LostMap
  <1>5. UNCHANGED Presence!presence
    BY <1>1, <1>4 DEF Presence!presence, StatusMap, LostMap
  <1>6. EmittingOnlyAtEmit' /\ UnconfirmedIsOnline' /\ FramesAreHeard'
    BY <1>1, <1>2 DEF RInv, EmittingOnlyAtEmit, UnconfirmedIsOnline, FramesAreHeard
  <1> QED BY <1>5, <1>6 DEF Refined

\* Steps that leave the entries, the queue of frames and the evidence alone keep
\* the invariant, if they empty the emission where they end it.
LEMMA LoopKeepsRInv ==
  ASSUME RInv, UNCHANGED <<states, heard, traffic>>,
         outgoing' = {} \/ UNCHANGED <<outgoing, pc>>
  PROVE  EmittingOnlyAtEmit' /\ UnconfirmedIsOnline' /\ FramesAreHeard'
  BY DEF RInv, EmittingOnlyAtEmit, UnconfirmedIsOnline, FramesAreHeard

\* The bus takes the event that was on its way.
LEMMA EmitAcceptedRefines ==
  ASSUME RInv, EmitAccepted
  PROVE  Refined
  <1>1. PICK o \in outgoing : /\ pc' = After(o.path)
                              /\ announced' = [announced EXCEPT ![o.key] = o.type]
    BY DEF EmitAccepted
  <1>2. /\ UNCHANGED <<clock, states, heard, traffic>>
        /\ outgoing' = {} /\ Running /\ Running'
    BY <1>1 DEF EmitAccepted, environment, senses, After, Running, Returned
  <1> DEFINE n == [key |-> o.key, type |-> o.type]
  <1>3. n \in PendingSet /\ announced' = [announced EXCEPT ![n.key] = n.type]
    BY <1>1 DEF PendingSet
  <1>4. PendingSet' = {} /\ StatusMap' = StatusMap /\ LostMap' = LostMap
    BY <1>2 DEF PendingSet, StatusMap, LostMap, Believed, LostAt
  <1> HIDE DEF n
  <1>5. Presence!Tell
    BY <1>2, <1>3, <1>4 DEF Presence!Tell, PendingSet, StatusMap, LostMap
  <1>6. EmittingOnlyAtEmit' /\ UnconfirmedIsOnline' /\ FramesAreHeard'
    BY <1>2, LoopKeepsRInv
  <1> QED BY <1>5, <1>6 DEF Refined, Presence!PresenceNext

\* The collector returns, or it does not and nothing is seen of the step.
LEMMA ReturnRefines ==
  ASSUME RInv, Running,
         UNCHANGED <<clock, states, heard, announced, traffic>>,
         \/ outgoing' = {} /\ ~Running'
         \/ UNCHANGED outgoing /\ pc # "emit"
  PROVE  Refined
  <1>1. outgoing' = {}
    BY DEF RInv, EmittingOnlyAtEmit
  <1>2. EmittingOnlyAtEmit' /\ UnconfirmedIsOnline' /\ FramesAreHeard'
    BY <1>1, LoopKeepsRInv
  <1>3. CASE Running'
    <2>1. UNCHANGED outgoing
      BY <1>3
    <2>2. Running' = Running
      BY <1>3 DEF Running
    <2> QED BY <1>2, <2>1, <2>2, AbstractStutter DEF Refined
  <1>4. CASE ~Running'
    <2>1. Running' = FALSE
      BY <1>4 DEF Running
    <2>2. PendingSet' = {} /\ StatusMap' = StatusMap /\ LostMap' = LostMap
      BY <1>1 DEF PendingSet, StatusMap, LostMap, Believed, LostAt
    <2>3. Presence!Stop
      BY <2>1, <2>2 DEF Presence!Stop, PendingSet, StatusMap, LostMap
    <2> QED BY <1>2, <2>3 DEF Refined, Presence!PresenceNext
  <1> QED BY <1>3, <1>4

\* Every step of the collector is a step or a stutter of DevicePresence.
LEMMA RefinementStep ==
  ASSUME RInv, [Next]_vars
  PROVE  Refined
  <1>1. CASE UNCHANGED vars
    BY <1>1, AbstractStutter, LoopKeepsRInv
    DEF vars, environment, senses, loop, history, Running, Refined
  <1>2. CASE Environment
    <2>1. CASE Tick
      <3>1. /\ UNCHANGED <<states, heard, traffic, outgoing, pc, announced>>
            /\ clock' = clock + 1 /\ Running' = Running
        BY <2>1 DEF Tick, loop, history, Running
      <3>2. StatusMap' = StatusMap /\ LostMap' = LostMap /\ PendingSet' = PendingSet
        BY <3>1 DEF PendingSet, StatusMap, LostMap, Believed, LostAt
      <3>3. Presence!Pass
        BY <3>1, <3>2 DEF Presence!Pass, PendingSet, StatusMap, LostMap
      <3> QED BY <3>1, <3>3, LoopKeepsRInv DEF Refined, Presence!PresenceNext
    <2>2. CASE Cancel
      BY <2>2, AbstractStutter, LoopKeepsRInv
      DEF Cancel, senses, loop, history, Running, Refined
    <2>3. CASE \E d \in Devices, ip \in Addresses, confirmed \in BOOLEAN :
                 NeighborMessage(d, ip, confirmed)
      BY <2>3, AbstractStutter, LoopKeepsRInv
      DEF NeighborMessage, Input, loop, history, Running, Refined
    <2> QED BY <1>2, <2>1, <2>2, <2>3 DEF Environment
  <1>3. CASE Sniffer
    <2>1. CASE \E d \in Devices : Capture(d)
      BY <2>1, AbstractStutter, LoopKeepsRInv
      DEF Capture, Input, loop, history, Running, Refined
    <2>2. CASE SnifferEnds
      BY <2>2, AbstractStutter, LoopKeepsRInv
      DEF SnifferEnds, environment, loop, history, Running, Refined
    <2> QED BY <1>3, <2>1, <2>2, DeliverRefines DEF Sniffer
  <1>4. CASE \E p \in probes : ProbeStep(p)
    <2>1. UNCHANGED <<clock, states, heard, traffic, outgoing, pc, announced>>
      BY <1>4 DEF ProbeStep, ProbeStart, ProbeAnswered, ProbeFailed, ProbeAbandoned,
                  Input, environment, senses, loop, history
    <2>2. Running' = Running
      BY <2>1 DEF Running
    <2> QED BY <2>1, <2>2, AbstractStutter, LoopKeepsRInv DEF Refined
  <1>5. CASE \/ TakeResult \/ TakeSnifferEnd \/ TakeDone \/ GoReceive
             \/ ReceiveNothing \/ ReceiveOverrun
    <2>1. /\ UNCHANGED <<clock, states, heard, announced, traffic, outgoing>>
          /\ Running /\ pc # "emit"
      BY <1>5 DEF TakeResult, TakeSnifferEnd, TakeDone, GoReceive, ReceiveNothing,
                  ReceiveOverrun, environment, senses, history, Running, Returned
    <2> QED BY <2>1, ReturnRefines
  <1>6. CASE EmitCanceled
    <2>1. /\ UNCHANGED <<clock, states, heard, announced, traffic>>
          /\ Running /\ outgoing' = {} /\ ~Running'
      BY <1>6 DEF EmitCanceled, environment, senses, history, Running, Returned
    <2> QED BY <2>1, ReturnRefines
  <1> QED BY <1>1, <1>2, <1>3, <1>4, <1>5, <1>6, TakeTrafficRefines, ApplyResultRefines,
             ReceiveRefines, TakeTickRefines, EmitAcceptedRefines
          DEF Next, MainLoop, Terminated
-----------------------------------------------------------------------------
(***************************************************************************)
(* The refinement, and what it says of the events.                         *)
(***************************************************************************)

\* The initial states of the collector map to initial states.
LEMMA RefinementInit == Init => RInv /\ Presence!PresenceInit
  <1> SUFFICES ASSUME Init PROVE RInv /\ Presence!PresenceInit
    OBVIOUS
  <1>1. IInv
    BY IInvInit
  <1>2. PICK known \in SUBSET Devices : \E address \in [known -> Addresses] :
               states = [d \in known |-> NewDeviceState(address[d], FALSE, 0)]
    BY DEF Init
  <1>3. \A d \in DOMAIN states : /\ ~states[d].verified /\ states[d].online
                                 /\ states[d].disconnectedAt = NoTime
    BY <1>2 DEF NewDeviceState
  <1>4. traffic = <<>> /\ outgoing = {} /\ pc = "async"
    BY DEF Init
  <1>5. RInv
    <2>1. Range(traffic) = {}
      BY <1>4, EmptySeq, LenProperties DEF Range
    <2> QED BY <1>1, <1>3, <1>4, <2>1
            DEF RInv, EmittingOnlyAtEmit, UnconfirmedIsOnline, FramesAreHeard
  <1>6. /\ StatusMap \in [Devices -> {"unknown", "listed"}]
        /\ LostMap = [d \in Devices |-> NoTime]
        /\ PendingSet = {} /\ Running = TRUE
    BY <1>3, <1>4 DEF StatusMap, LostMap, PendingSet, Believed, LostAt, Running, Returned
  <1>7. /\ clock = 0 /\ heard = [d \in Devices |-> NoTime]
        /\ announced = [d \in Devices |-> Silent]
    BY DEF Init
  <1>8. Presence!PresenceInit
    BY <1>6, <1>7 DEF Presence!PresenceInit, Presence!NoTime, Presence!Silent, NoTime,
                      Silent, StatusMap, LostMap, PendingSet
  <1> QED BY <1>5, <1>8

\* The invariant of the refinement is preserved, and every step is an abstract one.
LEMMA RefinementNext ==
  RInv /\ [Next]_vars => RInv' /\ [Presence!PresenceNext]_(Presence!presence)
  <1> SUFFICES ASSUME RInv, [Next]_vars
               PROVE  RInv' /\ [Presence!PresenceNext]_(Presence!presence)
    OBVIOUS
  <1>1. IInv'
    BY IInvStep DEF RInv
  <1> QED BY <1>1, RefinementStep DEF Refined, RInv

\* The collector implements DevicePresence: whatever the order of messages,
\* frames, probe results and ticks, what is believed of a device changes only on
\* the evidence DevicePresence asks for. (observeNeighbor, observeTraffic,
\* applyProbe, Start)
THEOREM CollectorImplementsPresence == Spec => ImplementsPresence
  BY RefinementInit, RefinementNext, PTL
  DEF Spec, ImplementsPresence, Presence!PresenceSpec

\* The invariant of the refinement holds of every behaviour.
LEMMA RefinementInvariant == Spec => []RInv
  BY RefinementInit, RefinementNext, PTL DEF Spec

Abstract == INSTANCE DevicePresenceProofs WITH
  running <- Running,
  status  <- [d \in Devices |-> Believed(d)],
  lostAt  <- [d \in Devices |-> LostAt(d)],
  pending <- {[key |-> o.key, type |-> o.type] : o \in outgoing},
  told    <- announced

\* What DevicePresence promises of its announcements holds of the collector.
LEMMA AbstractInvariant == Spec => []Abstract!PInv
  <1>1. Init => Abstract!PresenceInit
    BY RefinementInit
    DEF Presence!PresenceInit, Presence!NoTime, Presence!Silent,
        Abstract!PresenceInit, Abstract!NoTime, Abstract!Silent
  <1>2. [Presence!PresenceNext]_(Presence!presence)
          => [Abstract!PresenceNext]_(Abstract!presence)
    BY DEF Presence!PresenceNext, Presence!presence, Presence!Pass, Presence!Heed,
           Presence!Hear, Presence!Move, Presence!Appear, Presence!Confirm,
           Presence!Return, Presence!Lose, Presence!Tell, Presence!Stop, Presence!News,
           Presence!NoTime,
           Abstract!PresenceNext, Abstract!presence, Abstract!Pass, Abstract!Heed,
           Abstract!Hear, Abstract!Move, Abstract!Appear, Abstract!Confirm,
           Abstract!Return, Abstract!Lose, Abstract!Tell, Abstract!Stop, Abstract!News,
           Abstract!NoTime
  <1>3. OfflineTimeout \in Nat
    BY TimingAssumption
  <1>4. Abstract!PresenceInit => Abstract!PInv
    BY <1>3, Abstract!PInvInit
  <1>5. Abstract!PInv /\ [Abstract!PresenceNext]_(Abstract!presence) => Abstract!PInv'
    BY <1>3, Abstract!PInvStep
  <1> QED BY <1>1, <1>2, <1>4, <1>5, RefinementInit, RefinementNext, PTL DEF Spec

\* The last event about a device is the one on its way, or the last one accepted.
LEMMA LastEventProperties ==
  ASSUME NEW d \in Devices
  PROVE  \/ \E o \in outgoing : o.key = d /\ LastEvent(d) = o.type
         \/ (\A o \in outgoing : o.key # d) /\ LastEvent(d) = announced[d]
  <1>1. CASE \E o \in outgoing : o.key = d
    <2> DEFINE o == CHOOSE x \in outgoing : x.key = d
    <2>1. o \in outgoing /\ o.key = d
      BY <1>1
    <2>2. LastEvent(d) = o.type
      BY <1>1 DEF LastEvent
    <2> HIDE DEF o
    <2> QED BY <2>1, <2>2
  <1>2. CASE ~\E o \in outgoing : o.key = d
    BY <1>2 DEF LastEvent
  <1> QED BY <1>1, <1>2

\* The abstract invariant, read through the refinement mapping.
LEMMA EventsAreNews ==
  ASSUME RInv, Abstract!PInv
  PROVE  EventsFollowTracker /\ EventsAlternate /\ SnapshotIsSilent
  <1>1. /\ outgoing \in SUBSET Emission /\ DOMAIN states \subseteq Devices
        /\ states \in [DOMAIN states -> DeviceState]
        /\ announced \in [Devices -> Event]
    BY DEF RInv, IInv, TypeOK
  <1>2. \A o \in outgoing : /\ o.key \in Devices
                            /\ o.type \in {"connected", "disconnected"}
    BY <1>1 DEF Emission, Event, Silent
  <1>3. \A o \in outgoing : [key |-> o.key, type |-> o.type] \in PendingSet
    BY DEF PendingSet
  <1>4. \A d \in Devices : (\A o \in outgoing : o.key # d) =>
                             \A n \in PendingSet : n.key # d
    BY DEF PendingSet
  <1>5. /\ Running =>
             /\ \A n \in PendingSet :
                  StatusMap[n.key] = IF n.type = "connected" THEN "present" ELSE "absent"
             /\ \A d \in Devices : (\A n \in PendingSet : n.key # d) =>
                  /\ StatusMap[d] \in {"unknown", "listed"} => announced[d] = Silent
                  /\ StatusMap[d] = "present" => announced[d] # "disconnected"
                  /\ StatusMap[d] = "absent" => announced[d] = "disconnected"
        /\ \A n \in PendingSet : announced[n.key] # n.type
        /\ \A d \in Devices : \/ heard[d] # NoTime
                              \/ /\ announced[d] = Silent
                                 /\ \A n \in PendingSet : n.key # d
    BY DEF Abstract!PInv, Abstract!NewsFollowsStatus, Abstract!NewsAlternates,
           Abstract!NewsIsOfHeard, Abstract!Calm, Abstract!Silent, Abstract!NoTime,
           Silent, NoTime, StatusMap, PendingSet
  <1>6. ASSUME NEW o \in outgoing
        PROVE  /\ o.key \in Devices /\ announced[o.key] # o.type /\ heard[o.key] # NoTime
               /\ Running => StatusMap[o.key] =
                               IF o.type = "connected" THEN "present" ELSE "absent"
    <2> DEFINE n == [key |-> o.key, type |-> o.type]
    <2>1. n \in PendingSet /\ n.key = o.key /\ n.type = o.type /\ o.key \in Devices
      BY <1>2, <1>3
    <2> HIDE DEF n
    <2> QED BY <1>5, <2>1
  <1>7. EventsAlternate
    BY <1>6 DEF EventsAlternate
  <1>8. SnapshotIsSilent
    <2> SUFFICES ASSUME NEW d \in Devices, LastEvent(d) # Silent
                 PROVE  heard[d] # NoTime
      BY DEF SnapshotIsSilent
    <2>1. CASE \E o \in outgoing : o.key = d /\ LastEvent(d) = o.type
      BY <1>6, <2>1
    <2>2. CASE (\A o \in outgoing : o.key # d) /\ LastEvent(d) = announced[d]
      BY <1>5, <2>2
    <2> QED BY <2>1, <2>2, LastEventProperties
  <1>9. EventsFollowTracker
    <2> SUFFICES ASSUME Running, NEW d \in DOMAIN states
                 PROVE  LastEvent(d) \in IF states[d].online THEN {Silent, "connected"}
                                                             ELSE {"disconnected"}
      BY DEF EventsFollowTracker
    <2>1. d \in Devices /\ announced[d] \in {Silent, "connected", "disconnected"}
      BY <1>1 DEF Event
    <2>2. /\ states[d].verified \/ states[d].online
          /\ StatusMap[d] = IF ~states[d].verified THEN "listed"
                            ELSE IF states[d].online THEN "present" ELSE "absent"
      BY <2>1 DEF RInv, UnconfirmedIsOnline, StatusMap, Believed
    <2>3. CASE \E o \in outgoing : o.key = d /\ LastEvent(d) = o.type
      <3>1. PICK o \in outgoing : o.key = d /\ LastEvent(d) = o.type
        BY <2>3
      <3>2. /\ o.type \in {"connected", "disconnected"}
            /\ StatusMap[d] = IF o.type = "connected" THEN "present" ELSE "absent"
        BY <1>2, <1>6, <3>1
      <3> QED BY <2>2, <3>1, <3>2
    <2>4. CASE (\A o \in outgoing : o.key # d) /\ LastEvent(d) = announced[d]
      <3>1. /\ StatusMap[d] \in {"unknown", "listed"} => announced[d] = Silent
            /\ StatusMap[d] = "present" => announced[d] # "disconnected"
            /\ StatusMap[d] = "absent" => announced[d] = "disconnected"
        BY <1>4, <1>5, <2>1, <2>4
      <3> QED BY <2>1, <2>2, <2>4, <3>1
    <2> QED BY <2>1, <2>3, <2>4, LastEventProperties
  <1> QED BY <1>7, <1>8, <1>9

\* Whoever follows the events never stays behind the tracker. (observeNeighbor,
\* observeTraffic, applyProbe, emit)
THEOREM FollowersAreUpToDate == Spec => []EventsFollowTracker
  BY RefinementInvariant, AbstractInvariant, EventsAreNews, PTL

\* Connections and disconnections of a device alternate.
THEOREM NoEventIsRepeated == Spec => []EventsAlternate
  BY RefinementInvariant, AbstractInvariant, EventsAreNews, PTL

\* Nothing is announced about a device that nobody has heard. (loadSnapshot)
THEOREM SnapshotStaysSilent == Spec => []SnapshotIsSilent
  BY RefinementInvariant, AbstractInvariant, EventsAreNews, PTL
=============================================================================
