--------------------------- MODULE NeighborSafety ---------------------------
(***************************************************************************)
(* What the neighbour collector must never do: report a disconnection too  *)
(* early or on too little evidence, report the same thing twice, report    *)
(* anything about a device it has only read from the snapshot, lose track  *)
(* of a probe, or block a probe for ever.                                  *)
(***************************************************************************)
EXTENDS NeighborCollector, Functions

\* A step in which the tracker declares device d disconnected.
GoesOffline(d) ==
  /\ d \in DOMAIN states
  /\ states[d].online
  /\ ~states'[d].online

\* A disconnection is declared only when OfflineTimeout has passed since the
\* last trusted sign of the device that had reached the collector: a confirmed
\* message it had read, an answer it had applied, or a frame the sniffer had
\* delivered, even one still queued behind the result of the last probe.
\* (applyProbe, the drain in processAsync, observeTraffic)
OfflineTimeElapsed ==
  [][\A d \in Devices : GoesOffline(d) => heard[d] + OfflineTimeout <= clock]_vars

\* A disconnection takes two probes that failed one after the other, both of
\* them begun after the last sign of the device, the second one sent to the
\* address the device has now.  (beginProbes, runProbe, applyProbe)
TwoFailedProbes ==
  [][\A d \in Devices : GoesOffline(d) =>
       /\ states[d].lastSeen <= missed[d]
       /\ \E r \in held :
            /\ r.key = d /\ r.ip = states[d].ip
            /\ ~r.online
            /\ missed[d] <= r.started
            /\ r.deadline <= r.checked]_vars

\* The last event about d, counting the one the main loop is emitting.
LastEvent(d) ==
  IF \E o \in outgoing : o.key = d
  THEN (CHOOSE o \in outgoing : o.key = d).type
  ELSE announced[d]

\* Whatever the events went through, the last one about a device says what the
\* tracker believes: whoever follows the events never stays behind.  A device
\* of the snapshot starts online without an event.
EventsFollowTracker ==
  Running =>
    \A d \in DOMAIN states :
      LastEvent(d) \in IF states[d].online THEN {Silent, "connected"}
                                           ELSE {"disconnected"}

\* No event repeats the one before it: connections and disconnections of a
\* device alternate.
EventsAlternate ==
  \A o \in outgoing : announced[o.key] # o.type

\* Nothing is announced about a device nobody has heard: the entries of the
\* snapshot stay silent until they are confirmed.
SnapshotIsSilent ==
  \A d \in Devices : LastEvent(d) # Silent => heard[d] # NoTime

\* activeProbes covers every probe whose result has not been taken and never
\* exceeds the number of slots: no probe waits for a slot or for room in the
\* channel of results.  (beginProbes, runProbe, processAsync)
ProbeBudget ==
  /\ Cardinality(probes) + Len(probeResults) <= activeProbes
  /\ activeProbes <= MaxConcurrentProbes

\* No slot leaks away: until the context is cancelled, when probes may leave
\* without a result, activeProbes counts no probe but those still to be heard.
\* (runProbe, processAsync)
NoProbeForgotten ==
  ~ctxDone => Cardinality(probes) + Len(probeResults) = activeProbes

\* The probe requests whose result may still reach the tracker.
Outstanding ==
  probes \cup Range(probeResults) \cup held

Current(d) ==
  {q \in Outstanding : /\ q.key = d
                       /\ q.generation = states[d].generation
                       /\ q.probeID = states[d].probeID}

\* While the collector runs, a device that is marked as being probed has
\* exactly one probe whose result will be heard, and a device that is not
\* marked has none: it is never left waiting for a probe that is gone, and
\* never judged by two probes at once.
PendingHasProbe ==
  (Running /\ ~ctxDone) =>
    \A d \in DOMAIN states :
      Cardinality(Current(d)) = IF states[d].probePending THEN 1 ELSE 0
-----------------------------------------------------------------------------
(***************************************************************************)
(* Why OfflineTimeElapsed holds.                                           *)
(***************************************************************************)

\* A probe is only ever about a device of the map, and entries stay there.
ProbesAreAboutEntries ==
  \A q \in Outstanding : q.key \in DOMAIN states

\* No reading of the clock is later than the clock.
ReadingsArePast ==
  /\ \A d \in Devices : heard[d] <= clock
  /\ \A f \in captured \cup Range(traffic) : f.observedAt <= clock
  /\ \A r \in held \cup Range(probeResults) : r.checked <= clock
  /\ \A d \in DOMAIN states :
       states[d].lastSeen <= clock /\ states[d].disconnectedAt <= clock

\* The deadline of a candidate is the total one: it never outlives the sign of
\* life it was computed from.
DeadlineIsTotal ==
  \A d \in DOMAIN states :
    states[d].offlineDeadline # NoTime =>
      states[d].offlineDeadline = states[d].lastSeen + OfflineTimeout

\* A sign of life is in lastSeen, or it came too late for a disconnection that
\* was then declared, or it is still queued as a frame.
HeardIsAccountedFor ==
  \A d \in DOMAIN states :
    \/ heard[d] <= states[d].lastSeen
    \/ ~states[d].online /\ heard[d] <= states[d].disconnectedAt
    \/ \E f \in Range(traffic) : f.mac = d /\ heard[d] <= f.observedAt

IInv ==
  /\ TypeOK
  /\ ProbesAreAboutEntries
  /\ ReadingsArePast
  /\ DeadlineIsTotal
  /\ HeardIsAccountedFor
=============================================================================
