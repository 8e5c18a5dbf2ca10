-------------------------- MODULE PresenceTracker --------------------------
(***************************************************************************)
(* The presence tracker of internal/collector/neighbor: what one entry of  *)
(* presenceTracker.states becomes when the collector reports a neighbour   *)
(* message, a captured frame, a tick of the poll timer or the result of an *)
(* ARP probe, and which event the collector must then emit.                *)
(*                                                                         *)
(* The operators are pure: they take a deviceState (and the time) and      *)
(* return the new deviceState together with the event, which is Silent     *)
(* when the Go function returns the empty string.  NeighborCollector runs  *)
(* them concurrently with the goroutines that produce their inputs.        *)
(*                                                                         *)
(* A device is identified by its MAC address (the key of the Go map), so   *)
(* the field mac, always equal to the key, is left out; the field data is  *)
(* the payload of an event and no decision depends on it.                  *)
(***************************************************************************)
EXTENDS Integers

CONSTANTS
  Devices,              \* MAC addresses
  Addresses,            \* IPv4 addresses
  OfflineTimeout,       \* presenceTracker.offlineTimeout
  ConfirmationWindow,   \* offlineConfirmationWindow (5s)
  ProbeWindow,          \* probeWindow (2s)
  IdSpace               \* number of values of a uint64 (2^64 in the code)

\* The configuration refuses an offline timeout below 8s, which leaves room
\* for the confirmation window (5s) and for the first probe's window (2s).
ASSUME TimingAssumption ==
  /\ OfflineTimeout \in Nat
  /\ ConfirmationWindow \in Nat
  /\ ProbeWindow \in Nat
  /\ ConfirmationWindow + ProbeWindow <= OfflineTimeout

ASSUME IdAssumption == IdSpace \in Nat \ {0}

Time   == Nat
NoTime == -1          \* the zero time.Time, before every reading of the clock
Id     == 0 .. IdSpace - 1

Silent == ""
Event  == {Silent, "connected", "disconnected"}

DeviceState ==
  [ip              : Addresses,
   online          : BOOLEAN,
   verified        : BOOLEAN,
   lastSeen        : Time,
   offlineDeadline : Time \cup {NoTime},
   disconnectedAt  : Time \cup {NoTime},
   generation      : Id,
   probePending    : BOOLEAN,
   probeID         : Id]

\* The later of two instants.
Later(s, t) == IF s > t THEN s ELSE t

\* generation++ and probeID++ on a uint64.
Successor(n) == IF n + 1 = IdSpace THEN 0 ELSE n + 1

Outcome(s, e) == [state |-> s, event |-> e]
Quiet(s)      == Outcome(s, Silent)

NewDeviceState(ip, verified, now) ==
  [ip              |-> ip,
   online          |-> TRUE,
   verified        |-> verified,
   lastSeen        |-> now,
   offlineDeadline |-> NoTime,
   disconnectedAt  |-> NoTime,
   generation      |-> 0,
   probePending    |-> FALSE,
   probeID         |-> 0]
-----------------------------------------------------------------------------
(***************************************************************************)
(* Positive evidence.                                                      *)
(***************************************************************************)

\* Mutant: the pending mark survives fresh evidence.
MarkSeenStillPending(s, now) ==
  [s EXCEPT !.lastSeen        = Later(now, @),
            !.offlineDeadline = NoTime,
            !.generation      = Successor(@),
            !.probeID         = Successor(@)]

\* Fresh evidence withdraws the offline candidacy and invalidates every probe
\* that is still under way.
MarkSeen(s, now) ==
  [s EXCEPT !.lastSeen        = Later(now, @),
            !.offlineDeadline = NoTime,
            !.generation      = Successor(@),
            !.probeID         = Successor(@),
            !.probePending    = FALSE]

\* Mutant: a device that comes back is not announced.
ObserveNeighborQuietly(s, ip, confirmed, now) ==
  LET moved == [s EXCEPT !.ip = ip] IN
  IF confirmed
  THEN Quiet(MarkSeen([moved EXCEPT !.verified = TRUE, !.online = TRUE], now))
  ELSE Quiet(moved)

\* Mutant: every confirmed message announces the device.
ObserveNeighborLoudly(s, ip, confirmed, now) ==
  LET moved == [s EXCEPT !.ip = ip] IN
  IF confirmed
  THEN Outcome(MarkSeen([moved EXCEPT !.verified = TRUE, !.online = TRUE], now),
               "connected")
  ELSE Quiet(moved)

\* A message about a neighbour that is already in the map.  The address is
\* taken over even from an unconfirmed message.
ObserveNeighbor(s, ip, confirmed, now) ==
  LET moved == [s EXCEPT !.ip = ip] IN
  IF confirmed
  THEN Outcome(MarkSeen([moved EXCEPT !.verified = TRUE, !.online = TRUE], now),
               IF s.online THEN Silent ELSE "connected")
  ELSE Quiet(moved)

\* A frame is ignored when it is older than what the tracker already knows.
Outdated(s, observedAt) ==
  \/ observedAt < s.lastSeen
  \/ ~s.online /\ observedAt <= s.disconnectedAt

\* An entry of the start-up snapshot is confirmed by its first frame, silently.
ObserveTraffic(s, observedAt) ==
  IF Outdated(s, observedAt)
  THEN Quiet(s)
  ELSE Outcome(MarkSeen([s EXCEPT !.verified = TRUE,
                                  !.online   = @ \/ s.verified], observedAt),
               IF s.verified /\ ~s.online THEN "connected" ELSE Silent)
-----------------------------------------------------------------------------
(***************************************************************************)
(* Probes.  r is a probeResult: the request (ip, generation, probeID,      *)
(* deadline) and what the probe found (online, checked).                   *)
(***************************************************************************)

\* The instant by which the current phase wants its probe to have failed: the
\* candidate deadline, then the total deadline.
ProbeDeadline(s) ==
  IF s.offlineDeadline = NoTime
  THEN s.lastSeen + OfflineTimeout - ConfirmationWindow
  ELSE s.offlineDeadline

Due(s, now) ==
  /\ ~s.probePending
  /\ s.online
  /\ ProbeDeadline(s) <= now + ProbeWindow

BeginProbe(s) ==
  [s EXCEPT !.probePending = TRUE, !.probeID = Successor(@)]

\* Mutant: the mark is only withdrawn by fresh evidence.
ReleaseNever(s, r) == s

\* The result of the probe the device is waiting for clears probePending, even
\* when the result itself is then discarded.
Release(s, r) ==
  [s EXCEPT !.probePending = @ /\ s.probeID # r.probeID]

\* Mutant: a probe of the previous address counts.
SupersededAnyAddress(s, r) ==
  \/ s.generation # r.generation
  \/ s.probeID # r.probeID

Superseded(s, r) ==
  \/ s.generation # r.generation
  \/ s.probeID # r.probeID
  \/ s.ip # r.ip

\* Mutant: an unconfirmed entry of the snapshot can go offline.
MissedUnverified(s, r) ==
  /\ ~r.online
  /\ s.online
  /\ r.checked >= r.deadline

\* A failed probe that may move a device towards offline.
Missed(s, r) ==
  /\ ~r.online
  /\ s.verified
  /\ s.online
  /\ r.checked >= r.deadline

BecomesCandidate(s, r) ==
  Missed(s, r) /\ s.offlineDeadline = NoTime

BecomesOffline(s, r) ==
  /\ Missed(s, r)
  /\ s.offlineDeadline # NoTime
  /\ r.checked >= s.offlineDeadline

\* Mutant: the confirmation window is not part of the total.
CandidateWithoutConfirmation(s) ==
  [s EXCEPT !.offlineDeadline = s.lastSeen + OfflineTimeout - ConfirmationWindow]

Candidate(s) ==
  [s EXCEPT !.offlineDeadline = s.lastSeen + OfflineTimeout]

Offline(s, r) ==
  [s EXCEPT !.online          = FALSE,
            !.offlineDeadline = NoTime,
            !.disconnectedAt  = r.checked,
            !.generation      = Successor(@)]

ApplyProbe(s, r) ==
  LET released == Release(s, r) IN
  IF Superseded(s, r) THEN Quiet(released)
  ELSE IF r.online
       THEN Quiet(MarkSeen([released EXCEPT !.verified = TRUE], r.checked))
  ELSE IF BecomesCandidate(s, r) THEN Quiet(Candidate(released))
  ELSE IF BecomesOffline(s, r)
       THEN Outcome(Offline(released, r), "disconnected")
  ELSE Quiet(released)
=============================================================================
