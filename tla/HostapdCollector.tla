-------------------------- MODULE HostapdCollector --------------------------
(***************************************************************************)
(* The hostapd collector (internal/collector/hostapd): it starts logread,  *)
(* scans what logread prints, and announces every line that says that a    *)
(* station has joined or left an access point of this router.              *)
(*                                                                         *)
(* The stations, hostapd and logread are external.  Every access point     *)
(* reports for itself, so the departure of a station that has moved on may *)
(* be logged after its arrival elsewhere.  logread prints only what is     *)
(* logged while it runs (-l 0).  A MAC address stands for its spellings,   *)
(* which eventFields makes one; interface, lease and time stamp of an      *)
(* event are left out: nothing is decided by them.                         *)
(***************************************************************************)
EXTENDS Integers, Sequences

CONSTANTS
  Stations,     \* the wireless devices
  AccessPoints,
  LogCapacity,  \* bound: lines between logread and the collector
  MaxMoves      \* bound: arrivals and moves in a behaviour

Type  == {"connected", "disconnected"}
Event == [mac : Stations, type : Type]

Nowhere   == "nowhere"
Malformed == "malformed"

ASSUME HostapdAssumption == Nowhere \notin AccessPoints /\ Malformed \notin Stations

\* What a line of hostapd says: a marker, or something else, and an address.
Line == [marker : Type \cup {"other"}, mac : Stations \cup {Malformed}]

VARIABLES
  at,        \* the access point of each station
  leaving,   \* the departures that are yet to be logged
  moves,     \* how many arrivals and moves there have been
  log,       \* what logread has printed and the collector not yet scanned
  hostapd,   \* where the collector is
  emission,  \* the event it is emitting
  lastWord   \* history: the last line about each station that logread printed

stations == <<at, leaving, moves>>
scanner  == <<hostapd, emission>>
wireless == <<stations, log, scanner, lastWord>>

HostapdTypeOK ==
  /\ at \in [Stations -> AccessPoints \cup {Nowhere}]
  /\ leaving \subseteq Stations \X AccessPoints
  /\ moves \in 0 .. MaxMoves
  /\ log \in Seq(Line) /\ Len(log) <= LogCapacity
  /\ hostapd \in {"starting", "reading", "emitting", "returned"}
  /\ emission \in SUBSET Event
  /\ (emission # {}) <=> (hostapd = "emitting")
  /\ lastWord \in [Stations -> Type \cup {"none"}]

HostapdInit ==
  /\ at \in [Stations -> AccessPoints \cup {Nowhere}]
  /\ leaving = {} /\ moves = 0
  /\ log = <<>>
  /\ hostapd = "starting" /\ emission = {}
  /\ lastWord = [d \in Stations |-> "none"]
-----------------------------------------------------------------------------
(***************************************************************************)
(* The stations and the log.                                               *)
(***************************************************************************)

Logged(line) ==
  IF hostapd = "starting"
  THEN UNCHANGED <<log, lastWord>>
  ELSE /\ Len(log) < LogCapacity
       /\ log' = Append(log, line)
       /\ lastWord' = [d \in Stations |-> IF d = line.mac /\ line.marker \in Type
                                         THEN line.marker ELSE lastWord[d]]

\* Station d associates with ap, and is no longer where it was.
Join(d, ap) ==
  /\ moves < MaxMoves
  /\ at[d] # ap /\ <<d, ap>> \notin leaving
  /\ moves' = moves + 1
  /\ at' = [at EXCEPT ![d] = ap]
  /\ leaving' = IF at[d] = Nowhere THEN leaving ELSE leaving \cup {<<d, at[d]>>}
  /\ Logged([marker |-> "connected", mac |-> d])
  /\ UNCHANGED scanner

Leave(d) ==
  /\ at[d] # Nowhere
  /\ at' = [at EXCEPT ![d] = Nowhere]
  /\ leaving' = leaving \cup {<<d, at[d]>>}
  /\ UNCHANGED <<moves, log, scanner, lastWord>>

\* The access point notices that the station is gone.
Notice(d, ap) ==
  /\ <<d, ap>> \in leaving
  /\ leaving' = leaving \ {<<d, ap>>}
  /\ Logged([marker |-> "disconnected", mac |-> d])
  /\ UNCHANGED <<at, moves, scanner>>

\* hostapd has something else to say, or its line was cut off.
Mutter ==
  /\ \E line \in {[marker |-> "other", mac |-> Malformed],
                  [marker |-> "connected", mac |-> Malformed]} : Logged(line)
  /\ UNCHANGED <<stations, scanner>>
-----------------------------------------------------------------------------
(***************************************************************************)
(* Collector.Start.                                                        *)
(***************************************************************************)

LogreadStarts ==
  /\ hostapd = "starting"
  /\ hostapd' = "reading"
  /\ UNCHANGED <<stations, log, emission, lastWord>>

\* Mutant: the marker of arrivals is not looked for.
SpeaksOfDepartures(line) == line.marker = "disconnected" /\ line.mac # Malformed

\* parseLine makes an event of a line with a marker and a MAC address behind it.
Speaks(line) == line.marker \in Type /\ line.mac # Malformed

ScanLine ==
  /\ hostapd = "reading"
  /\ log # <<>>
  /\ log' = Tail(log)
  /\ LET line == Head(log) IN
       IF Speaks(line)
       THEN /\ hostapd' = "emitting"
            /\ emission' = {[mac |-> line.mac, type |-> line.marker]}
       ELSE UNCHANGED scanner
  /\ UNCHANGED <<stations, lastWord>>

\* Emit has put the event on the bus.
Emitted ==
  /\ hostapd = "emitting"
  /\ hostapd' = "reading" /\ emission' = {}
  /\ UNCHANGED <<stations, log, lastWord>>

\* Start returns: logread is not to be had, has ended, for whatever reason, or
\* has been killed with the context; or Emit was cancelled.
HostapdReturns ==
  /\ hostapd # "returned"
  /\ hostapd' = "returned" /\ emission' = {}
  /\ UNCHANGED <<stations, log, lastWord>>
-----------------------------------------------------------------------------
StationStep ==
  \/ \E d \in Stations, ap \in AccessPoints : Join(d, ap) \/ Notice(d, ap)
  \/ \E d \in Stations : Leave(d)
  \/ Mutter
=============================================================================
