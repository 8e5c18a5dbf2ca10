------------------------- MODULE NeighborRefinement -------------------------
(***************************************************************************)
(* The neighbour collector implements DevicePresence.                      *)
(***************************************************************************)
EXTENDS NeighborSafety

\* What an entry of the tracker, or its absence, says of a device.
Believed(d) ==
  IF d \notin DOMAIN states THEN "unknown"
  ELSE IF ~states[d].verified THEN "listed"
  ELSE IF states[d].online THEN "present" ELSE "absent"

LostAt(d) == IF d \in DOMAIN states THEN states[d].disconnectedAt ELSE NoTime

Presence == INSTANCE DevicePresence WITH
  running <- Running,
  status  <- [d \in Devices |-> Believed(d)],
  lostAt  <- [d \in Devices |-> LostAt(d)],
  pending <- {[key |-> o.key, type |-> o.type] : o \in outgoing},
  told    <- announced

\* Whatever the order in which messages, frames, probe results, ticks and the
\* bus come, what is believed of a device changes only on the evidence that
\* DevicePresence asks for, and each change that is news is announced before
\* the next: no probe, no stale frame and no queue breaks that.
\* (observeNeighbor, observeTraffic, applyProbe, Start)
ImplementsPresence == Presence!PresenceSpec
=============================================================================
