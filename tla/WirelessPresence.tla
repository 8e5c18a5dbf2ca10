-------------------------- MODULE WirelessPresence --------------------------
(***************************************************************************)
(* Two collectors that speak of the same devices: the hostapd collector,   *)
(* and the neighbour collector at the level of DevicePresence, which it    *)
(* implements (NeighborRefinement).  Both put what they announce on the    *)
(* bus; DeviceState drops repetitions, and the subscriber is told the rest *)
(* (Runtime shows how).  With both types of event enabled, what DeviceState *)
(* remembers is therefore what the subscriber was last told.               *)
(***************************************************************************)
EXTENDS HostapdCollector, DevicePresence

CONSTANTS
  BusCapacity,
  MaxTime      \* bound: the clock

ASSUME WirelessAssumption ==
  /\ LogCapacity \in Nat /\ MaxMoves \in Nat /\ MaxTime \in Nat
  /\ BusCapacity \in Nat \ {0}
  /\ Stations \subseteq Devices  \* the others are wired

VARIABLES bus, states

shared == <<bus, states>>
vars   == <<wireless, presence, shared>>

TypeOK ==
  /\ HostapdTypeOK
  /\ clock \in 0 .. MaxTime /\ running \in BOOLEAN
  /\ status \in [Devices -> Status]
  /\ heard \in [Devices -> NoTime .. MaxTime]
  /\ lostAt \in [Devices -> NoTime .. MaxTime]
  /\ pending \in SUBSET [key : Devices, type : Type]
  /\ told \in [Devices -> Type \cup {Silent}]
  /\ bus \in Seq([mac : Devices, type : Type]) /\ Len(bus) <= BusCapacity
  /\ DOMAIN states \subseteq Devices /\ states \in [DOMAIN states -> Type]

Init ==
  /\ HostapdInit
  /\ PresenceInit
  /\ bus = <<>> /\ states = [d \in {} |-> "connected"]
-----------------------------------------------------------------------------
\* Multi runs the collectors until the first of them returns.
Up == running /\ hostapd # "returned"

\* Mutant: the channel holds one event more.
HasRoomForOneMore == Len(bus) <= BusCapacity

HasRoom == Len(bus) < BusCapacity

StationsMove == StationStep /\ UNCHANGED <<presence, shared>>

\* A wired device comes and goes unseen.
There(d) == d \in Stations => at[d] # Nowhere

\* The neighbour collector hears only of devices that are there.
Listens ==
  /\ \/ clock < MaxTime /\ Pass
     \/ \E d \in Devices :
          \/ There(d) /\ (Hear(d) \/ Appear(d) \/ Confirm(d) \/ Return(d))
          \/ Lose(d)
  /\ UNCHANGED <<wireless, shared>>

NeighborAnnounces ==
  /\ HasRoom
  /\ Tell
  /\ \E n \in pending : bus' = Append(bus, [mac |-> n.key, type |-> n.type])
  /\ UNCHANGED <<wireless, states>>

\* Stop, by its own error or because the hostapd collector has returned.
NeighborReturns == Stop /\ UNCHANGED <<wireless, shared>>

HostapdReads == (LogreadStarts \/ ScanLine) /\ UNCHANGED <<presence, shared>>

HostapdAnnounces ==
  /\ HasRoom
  /\ Emitted
  /\ \E e \in emission : bus' = Append(bus, e)
  /\ UNCHANGED <<presence, states>>

HostapdEnds == HostapdReturns /\ UNCHANGED <<presence, shared>>

\* Mutant: a device is remembered once and for all.
RemembersFirst(e) ==
  [d \in DOMAIN states \cup {e.mac} |-> IF d \in DOMAIN states THEN states[d] ELSE e.type]

\* DeviceState.Process.
Remembers(e) ==
  [d \in DOMAIN states \cup {e.mac} |-> IF d = e.mac THEN e.type ELSE states[d]]

TakeEvent ==
  /\ Up
  /\ bus # <<>>
  /\ bus' = Tail(bus)
  /\ states' = Remembers(Head(bus))
  /\ UNCHANGED <<wireless, presence>>

Next ==
  \/ StationsMove
  \/ Listens
  \/ NeighborAnnounces
  \/ NeighborReturns
  \/ HostapdReads
  \/ HostapdAnnounces
  \/ HostapdEnds
  \/ TakeEvent

Spec == Init /\ [][Next]_vars
-----------------------------------------------------------------------------
Believed(d) == IF d \in DOMAIN states THEN states[d] ELSE "unheard of"

\* Nothing is under way.
Settled == log = <<>> /\ emission = {} /\ pending = {} /\ bus = <<>>

\* However the announcements of the two collectors interleave on the bus: once
\* nothing is under way, and if the two agree on a device, the subscriber believes
\* it.  (A device that was there from the start is announced by neither.)
AgreementIsBelieved ==
  Up /\ Settled =>
    \A d \in Stations :
      /\ status[d] = "present" /\ lastWord[d] = "connected" => Believed(d) = "connected"
      /\ status[d] = "absent" /\ lastWord[d] # "connected" => Believed(d) = "disconnected"

\* The collectors and the pipeline run, and a device that is there is heard again.
Fairness ==
  /\ WF_vars(HostapdReads) /\ WF_vars(HostapdAnnounces)
  /\ WF_vars(NeighborAnnounces)
  /\ WF_vars(TakeEvent)
  /\ \A d \in Devices :
       WF_vars(There(d) /\ Return(d) /\ UNCHANGED <<wireless, shared>>)

FairSpec == Spec /\ Fairness

\* A device that stays in the end is not believed gone for ever: however often the
\* neighbour collector loses and hears it again, the belief is corrected each time,
\* unless the last word about it is a departure logged late, from an access point it
\* had left before.  Nothing ever corrects that one: to the neighbour collector the
\* device was there all the time.
StayingIsBelieved ==
  \A d \in Stations :
    <>[](Up /\ at[d] # Nowhere) =>
      []<>(Believed(d) # "disconnected" \/ lastWord[d] = "disconnected")

\* The LuCI page calls offline_timeout the "Total time from the last trusted online
\* evidence until the device disconnection event is published."  At the least, a
\* device that is there, has been heard within that time, and is not gone for the
\* neighbour collector, which measures it, is not to be published as disconnected.
PublishedAfterOfflineTime ==
  [][\A d \in Stations :
       Believed(d) # "disconnected" /\ Believed(d)' = "disconnected" =>
         \/ ~There(d)
         \/ heard[d] + OfflineTimeout <= clock
         \/ told[d] = "disconnected"]_vars
=============================================================================
