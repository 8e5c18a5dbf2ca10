--------------------------- MODULE WirelessProofs ---------------------------
(***************************************************************************)
(* What two collectors that speak of the same stations make the subscriber *)
(* believe, for any number of stations, access points and wired devices,   *)
(* and any capacity of the bus and of the log.                             *)
(***************************************************************************)
EXTENDS WirelessPresence, DevicePresenceProofs, SequenceTheorems

BusEvent == [mac : Devices, type : Type]

\* The neighbour collector does what DevicePresence does, or nothing.
LEMMA PresenceSteps == [Next]_vars => [PresenceNext]_presence
  BY DEF Next, vars, StationsMove, Listens, NeighborAnnounces, NeighborReturns, HostapdReads,
         HostapdAnnounces, HostapdEnds, TakeEvent, PresenceNext

-----------------------------------------------------------------------------
(***************************************************************************)
(* Types.                                                                  *)
(***************************************************************************)

LEMMA LoggedType ==
  ASSUME HostapdTypeOK, NEW line \in Line, Logged(line)
  PROVE  /\ log' \in Seq(Line) /\ Len(log') <= LogCapacity
         /\ lastWord' \in [Stations -> Type \cup {"none"}]
  <1>1. CASE hostapd = "starting"
    BY <1>1 DEF Logged, HostapdTypeOK
  <1>2. CASE hostapd # "starting"
    <2>1. /\ Len(log) < LogCapacity /\ log' = Append(log, line)
          /\ lastWord' = [d \in Stations |-> IF d = line.mac /\ line.marker \in Type
                                            THEN line.marker ELSE lastWord[d]]
      BY <1>2 DEF Logged
    <2>2. log \in Seq(Line) /\ Len(log) \in Nat
      BY LenProperties DEF HostapdTypeOK
    <2>3. log' \in Seq(Line) /\ Len(log') = Len(log) + 1
      BY <2>1, <2>2, AppendProperties
    <2>4. lastWord' \in [Stations -> Type \cup {"none"}]
      BY <2>1 DEF HostapdTypeOK
    <2> QED BY <2>1, <2>2, <2>3, <2>4, WirelessAssumption
  <1> QED BY <1>1, <1>2

\* What a line that speaks says is an event.
LEMMA SpeakingLine ==
  ASSUME NEW line \in Line, Speaks(line)
  PROVE  [mac |-> line.mac, type |-> line.marker] \in Event
  BY DEF Line, Speaks, Event

LEMMA HostapdTypeStep ==
  ASSUME HostapdTypeOK,
         StationStep \/ LogreadStarts \/ ScanLine \/ Emitted \/ HostapdReturns
                     \/ UNCHANGED wireless
  PROVE  HostapdTypeOK'
  <1>1. ASSUME NEW d \in Stations, NEW ap \in AccessPoints, Join(d, ap)
        PROVE  HostapdTypeOK'
    <2>1. [marker |-> "connected", mac |-> d] \in Line
      BY DEF Line, Type
    <2>2. /\ log' \in Seq(Line) /\ Len(log') <= LogCapacity
          /\ lastWord' \in [Stations -> Type \cup {"none"}]
      BY <1>1, <2>1, LoggedType DEF Join
    <2>3. moves' \in 0 .. MaxMoves
      BY <1>1, WirelessAssumption DEF Join, HostapdTypeOK
    <2>4. at' \in [Stations -> AccessPoints \cup {Nowhere}]
      BY <1>1 DEF Join, HostapdTypeOK
    <2>5. leaving' \subseteq Stations \X AccessPoints
      BY <1>1 DEF Join, HostapdTypeOK
    <2> QED BY <1>1, <2>2, <2>3, <2>4, <2>5 DEF Join, HostapdTypeOK, scanner
  <1>2. ASSUME NEW d \in Stations, NEW ap \in AccessPoints, Notice(d, ap)
        PROVE  HostapdTypeOK'
    <2>1. [marker |-> "disconnected", mac |-> d] \in Line
      BY DEF Line, Type
    <2>2. /\ log' \in Seq(Line) /\ Len(log') <= LogCapacity
          /\ lastWord' \in [Stations -> Type \cup {"none"}]
      BY <1>2, <2>1, LoggedType DEF Notice
    <2> QED BY <1>2, <2>2 DEF Notice, HostapdTypeOK, scanner
  <1>3. ASSUME NEW d \in Stations, Leave(d)
        PROVE  HostapdTypeOK'
    BY <1>3 DEF Leave, HostapdTypeOK, scanner
  <1>4. CASE Mutter
    <2>1. PICK line \in {[marker |-> "other", mac |-> Malformed],
                         [marker |-> "connected", mac |-> Malformed]} : Logged(line)
      BY <1>4 DEF Mutter
    <2>2. line \in Line
      BY DEF Line, Type
    <2>3. /\ log' \in Seq(Line) /\ Len(log') <= LogCapacity
          /\ lastWord' \in [Stations -> Type \cup {"none"}]
      BY <2>1, <2>2, LoggedType
    <2> QED BY <1>4, <2>3 DEF Mutter, HostapdTypeOK, stations, scanner
  <1>5. CASE ScanLine
    <2>1. /\ hostapd = "reading" /\ emission = {} /\ log # <<>> /\ log' = Tail(log)
          /\ UNCHANGED <<at, leaving, moves, lastWord>>
      BY <1>5 DEF ScanLine, HostapdTypeOK, stations
    <2>2. log \in Seq(Line) /\ Len(log) <= LogCapacity /\ Len(log) \in Nat
      BY LenProperties DEF HostapdTypeOK
    <2>3. /\ Head(log) \in Line /\ log' \in Seq(Line) /\ Len(log') = Len(log) - 1
      BY <2>1, <2>2, HeadTailProperties
    <2>4. Len(log') <= LogCapacity
      BY <2>2, <2>3, WirelessAssumption
    <2>5. CASE Speaks(Head(log))
      <3>1. /\ hostapd' = "emitting"
            /\ emission' = {[mac |-> Head(log).mac, type |-> Head(log).marker]}
        BY <1>5, <2>5 DEF ScanLine
      <3>2. emission' \in SUBSET Event /\ emission' # {}
        BY <2>3, <2>5, <3>1, SpeakingLine
      <3> QED BY <2>1, <2>3, <2>4, <3>1, <3>2 DEF HostapdTypeOK
    <2>6. CASE ~Speaks(Head(log))
      <3>1. UNCHANGED <<hostapd, emission>>
        BY <1>5, <2>6 DEF ScanLine, scanner
      <3> QED BY <2>1, <2>3, <2>4, <3>1 DEF HostapdTypeOK
    <2> QED BY <2>5, <2>6
  <1>6. CASE LogreadStarts \/ Emitted \/ HostapdReturns \/ UNCHANGED wireless
    BY <1>6 DEF LogreadStarts, Emitted, HostapdReturns, HostapdTypeOK, wireless, stations,
                scanner
  <1> QED BY <1>1, <1>2, <1>3, <1>4, <1>5, <1>6 DEF StationStep

\* The neighbour collector's part of the types.
PresenceTypes ==
  /\ clock \in 0 .. MaxTime /\ running \in BOOLEAN
  /\ status \in [Devices -> Status]
  /\ heard \in [Devices -> NoTime .. MaxTime]
  /\ lostAt \in [Devices -> NoTime .. MaxTime]
  /\ pending \in SUBSET [key : Devices, type : Type]
  /\ told \in [Devices -> Type \cup {Silent}]

LEMMA PresenceTypeStep ==
  ASSUME PresenceTypes, [Next]_vars
  PROVE  PresenceTypes'
  <1>0. MaxTime \in Nat /\ OfflineTimeout \in Nat /\ clock \in 0 .. MaxTime
    BY WirelessAssumption, PresenceAssumption DEF PresenceTypes
  <1>1. CASE UNCHANGED presence
    BY <1>1 DEF presence, PresenceTypes
  <1>2. CASE clock < MaxTime /\ Pass
    <2>1. clock' \in 0 .. MaxTime
      BY <1>0, <1>2 DEF Pass
    <2> QED BY <1>2, <2>1 DEF Pass, PresenceTypes
  <1>3. ASSUME NEW d \in Devices, Heed(d)
        PROVE  heard' \in [Devices -> NoTime .. MaxTime]
    <2>1. PICK t \in heard[d] .. clock : heard' = [heard EXCEPT ![d] = t]
      BY <1>3 DEF Heed
    <2>2. heard[d] \in NoTime .. MaxTime
      BY DEF PresenceTypes
    <2>3. t \in NoTime .. MaxTime
      BY <1>0, <2>2 DEF NoTime
    <2> QED BY <2>1, <2>3 DEF PresenceTypes
  <1>4. ASSUME NEW d \in Devices, Hear(d)
        PROVE  PresenceTypes'
    BY <1>3, <1>4 DEF Hear, PresenceTypes
  <1>5. ASSUME NEW d \in Devices, NEW from \in Status, NEW to \in Status, Move(d, from, to),
               pending' \in SUBSET [key : Devices, type : Type],
               heard' \in [Devices -> NoTime .. MaxTime],
               lostAt' \in [Devices -> NoTime .. MaxTime]
        PROVE  PresenceTypes'
    BY <1>5 DEF Move, PresenceTypes
  <1>6. \A d \in Devices, type \in Type : {News(d, type)} \in SUBSET [key : Devices, type : Type]
    BY DEF News
  <1>7. "connected" \in Type /\ "disconnected" \in Type
    BY DEF Type
  <1>8. "unknown" \in Status /\ "listed" \in Status /\ "present" \in Status /\ "absent" \in Status
    BY DEF Status
  <1>9. ASSUME NEW d \in Devices, Appear(d) \/ Confirm(d) \/ Return(d)
        PROVE  PresenceTypes'
    <2>1. Heed(d) /\ UNCHANGED lostAt
      BY <1>9 DEF Appear, Confirm, Return
    <2>2. heard' \in [Devices -> NoTime .. MaxTime] /\ lostAt' \in [Devices -> NoTime .. MaxTime]
      BY <1>3, <2>1 DEF PresenceTypes
    <2>3. pending' \in SUBSET [key : Devices, type : Type]
      BY <1>6, <1>7, <1>9 DEF Appear, Confirm, Return, PresenceTypes
    <2>4. PICK from \in Status : Move(d, from, "present")
      BY <1>8, <1>9 DEF Appear, Confirm, Return
    <2> QED BY <1>5, <1>8, <2>2, <2>3, <2>4
  <1>10. ASSUME NEW d \in Devices, Lose(d)
         PROVE  PresenceTypes'
    <2>1. PICK t \in heard[d] + OfflineTimeout .. clock : lostAt' = [lostAt EXCEPT ![d] = t]
      BY <1>10 DEF Lose
    <2>2. heard[d] \in NoTime .. MaxTime
      BY DEF PresenceTypes
    <2>3. t \in NoTime .. MaxTime
      BY <1>0, <2>2 DEF NoTime
    <2>4. lostAt' \in [Devices -> NoTime .. MaxTime]
      BY <2>1, <2>3 DEF PresenceTypes
    <2>5. /\ pending' \in SUBSET [key : Devices, type : Type]
          /\ heard' \in [Devices -> NoTime .. MaxTime]
          /\ Move(d, "present", "absent")
      BY <1>6, <1>7, <1>10 DEF Lose, PresenceTypes
    <2> QED BY <1>5, <1>8, <2>4, <2>5
  <1>11. CASE Tell
    <2>1. PICK n \in pending : told' = [told EXCEPT ![n.key] = n.type]
      BY <1>11 DEF Tell
    <2>2. told' \in [Devices -> Type \cup {Silent}]
      BY <2>1 DEF PresenceTypes
    <2> QED BY <1>11, <2>2 DEF Tell, PresenceTypes
  <1>12. CASE Stop
    BY <1>12 DEF Stop, PresenceTypes
  <1> QED BY <1>1, <1>2, <1>4, <1>9, <1>10, <1>11, <1>12
          DEF Next, vars, StationsMove, Listens, NeighborAnnounces, NeighborReturns,
              HostapdReads, HostapdAnnounces, HostapdEnds, TakeEvent

\* The types of the bus and of DeviceState.
SharedTypes ==
  /\ bus \in Seq(BusEvent) /\ Len(bus) <= BusCapacity
  /\ DOMAIN states \subseteq Devices /\ states \in [DOMAIN states -> Type]

LEMMA SharedTypeStep ==
  ASSUME HostapdTypeOK, PresenceTypes, SharedTypes, [Next]_vars
  PROVE  SharedTypes'
  <1>0. Len(bus) \in Nat /\ bus \in Seq(BusEvent) /\ BusCapacity \in Nat
    BY LenProperties, WirelessAssumption DEF SharedTypes
  <1>1. ASSUME NEW e \in BusEvent, HasRoom, bus' = Append(bus, e), UNCHANGED states
        PROVE  SharedTypes'
    <2>1. bus' \in Seq(BusEvent) /\ Len(bus') = Len(bus) + 1
      BY <1>0, <1>1, AppendProperties
    <2> QED BY <1>0, <1>1, <2>1 DEF HasRoom, SharedTypes
  <1>2. CASE NeighborAnnounces
    <2>1. PICK n \in pending : bus' = Append(bus, [mac |-> n.key, type |-> n.type])
      BY <1>2 DEF NeighborAnnounces
    <2>2. [mac |-> n.key, type |-> n.type] \in BusEvent
      BY DEF PresenceTypes, BusEvent
    <2> QED BY <1>1, <1>2, <2>1, <2>2 DEF NeighborAnnounces
  <1>3. CASE HostapdAnnounces
    <2>1. PICK e \in emission : bus' = Append(bus, e)
      BY <1>3 DEF HostapdAnnounces
    <2>2. e \in BusEvent
      BY WirelessAssumption DEF HostapdTypeOK, Event, BusEvent
    <2> QED BY <1>1, <1>3, <2>1, <2>2 DEF HostapdAnnounces
  <1>4. CASE TakeEvent
    <2>1. bus # <<>> /\ bus' = Tail(bus) /\ states' = Remembers(Head(bus))
      BY <1>4 DEF TakeEvent
    <2>2. /\ Head(bus) \in BusEvent /\ bus' \in Seq(BusEvent)
          /\ Len(bus') = Len(bus) - 1
      BY <1>0, <2>1, HeadTailProperties
    <2>3. Head(bus).mac \in Devices /\ Head(bus).type \in Type
      BY <2>2 DEF BusEvent
    <2>4. DOMAIN states' \subseteq Devices /\ states' \in [DOMAIN states' -> Type]
      BY <2>1, <2>3 DEF Remembers, SharedTypes
    <2>5. Len(bus') <= BusCapacity
      BY <1>0, <2>2 DEF SharedTypes
    <2> QED BY <2>2, <2>4, <2>5 DEF SharedTypes
  <1>5. CASE UNCHANGED shared
    BY <1>5 DEF shared, SharedTypes
  <1> QED BY <1>2, <1>3, <1>4, <1>5
          DEF Next, vars, StationsMove, Listens, NeighborReturns, HostapdReads, HostapdEnds

LEMMA TypeParts == TypeOK <=> HostapdTypeOK /\ PresenceTypes /\ SharedTypes
  BY DEF TypeOK, PresenceTypes, SharedTypes, BusEvent

LEMMA WirelessTypeStep ==
  ASSUME TypeOK, [Next]_vars
  PROVE  TypeOK'
  <1>1. HostapdTypeOK /\ PresenceTypes /\ SharedTypes
    BY TypeParts
  <1>2. PresenceTypes' /\ SharedTypes'
    BY <1>1, PresenceTypeStep, SharedTypeStep
  <1>3. \/ StationStep \/ LogreadStarts \/ ScanLine \/ Emitted \/ HostapdReturns
        \/ UNCHANGED wireless
    BY DEF Next, vars, StationsMove, Listens, NeighborAnnounces, NeighborReturns, HostapdReads,
           HostapdAnnounces, HostapdEnds, TakeEvent
  <1>4. HostapdTypeOK'
    BY <1>1, <1>3, HostapdTypeStep
  <1>5. (HostapdTypeOK /\ PresenceTypes /\ SharedTypes)'
    BY <1>2, <1>4
  <1> QED BY <1>5 DEF TypeOK, PresenceTypes, SharedTypes, BusEvent

LEMMA WirelessTypeInit == Init => TypeOK
  <1> SUFFICES ASSUME Init PROVE HostapdTypeOK /\ PresenceTypes /\ SharedTypes
    BY TypeParts
  <1>1. HostapdTypeOK
    BY EmptySeq, WirelessAssumption DEF Init, HostapdInit, HostapdTypeOK
  <1>2. NoTime \in NoTime .. MaxTime /\ 0 \in 0 .. MaxTime
    BY WirelessAssumption DEF NoTime
  <1>3. PresenceTypes
    BY <1>2 DEF Init, PresenceInit, PresenceTypes, Status
  <1>4. SharedTypes
    <2>1. bus \in Seq(BusEvent) /\ Len(bus) <= BusCapacity
      BY EmptySeq, WirelessAssumption DEF Init
    <2>2. DOMAIN states = {} /\ states \in [DOMAIN states -> Type]
      BY DEF Init
    <2> QED BY <2>1, <2>2 DEF SharedTypes
  <1> QED BY <1>1, <1>3, <1>4

\* The variables of both collectors, of the bus and of DeviceState keep their types, and
\* the bus and the log stay within their capacities.
THEOREM WirelessTypeCorrect == Spec => []TypeOK
  BY WirelessTypeInit, WirelessTypeStep, PTL DEF Spec
-----------------------------------------------------------------------------
(***************************************************************************)
(* What is on its way about a device.                                      *)
(***************************************************************************)

\* Entry e is the last one of s that is about d.
About(s, d)     == {i \in 1 .. Len(s) : s[i].mac = d}
LastAbout(s, d, e) == \E i \in About(s, d) : s[i] = e /\ \A j \in About(s, d) : j <= i

LEMMA AboutAppended ==
  ASSUME NEW S, NEW s \in Seq(S), NEW x \in S, NEW d
  PROVE  /\ x.mac = d => LastAbout(Append(s, x), d, x)
         /\ x.mac # d => /\ \A e : LastAbout(s, d, e) => LastAbout(Append(s, x), d, e)
                         /\ About(s, d) = {} => About(Append(s, x), d) = {}
  <1> DEFINE g == Append(s, x)
             n == Len(s)
  <1>1. /\ n \in Nat /\ Len(g) = n + 1 /\ g[n + 1] = x
        /\ \A i \in 1 .. n : g[i] = s[i]
    BY AppendProperties, LenProperties
  <1> HIDE DEF g, n
  <1>2. About(s, d) \subseteq 1 .. n
    BY DEF About, n
  <1>3. x.mac = d => About(g, d) = About(s, d) \cup {n + 1}
    BY <1>1 DEF About, n
  <1>4. x.mac # d => About(g, d) = About(s, d)
    BY <1>1 DEF About, n
  <1>5. x.mac = d => LastAbout(g, d, x)
    BY <1>1, <1>2, <1>3 DEF LastAbout
  <1>6. x.mac # d => \A e : LastAbout(s, d, e) => LastAbout(g, d, e)
    BY <1>1, <1>2, <1>4 DEF LastAbout
  <1> QED BY <1>4, <1>5, <1>6 DEF g

LEMMA AboutTail ==
  ASSUME NEW S, NEW s \in Seq(S), s # <<>>, NEW d
  PROVE  /\ Head(s).mac # d => /\ \A e : LastAbout(s, d, e) => LastAbout(Tail(s), d, e)
                               /\ About(s, d) = {} => About(Tail(s), d) = {}
         /\ Head(s).mac = d => /\ About(s, d) # {}
                               /\ \A e : LastAbout(s, d, e) =>
                                    \/ LastAbout(Tail(s), d, e)
                                    \/ About(Tail(s), d) = {} /\ Head(s) = e
  <1> DEFINE g == Tail(s)
             n == Len(s)
  <1>1. /\ n \in Nat /\ n >= 1 /\ Len(g) = n - 1 /\ Head(s) = s[1]
        /\ \A i \in 1 .. n - 1 : g[i] = s[i + 1]
    BY HeadTailProperties, LenProperties, EmptySeq
  <1> HIDE DEF g, n
  <1>2. /\ About(s, d) = {i \in 1 .. n : s[i].mac = d}
        /\ About(g, d) = {i \in 1 .. n - 1 : s[i + 1].mac = d}
    BY <1>1 DEF About, n
  <1>6. \A j \in About(g, d) : j + 1 \in About(s, d) /\ j \in 1 .. n - 1
    BY <1>1, <1>2
  <1>3. About(s, d) = {} => About(g, d) = {}
    BY <1>6
  <1>4. Head(s).mac = d => 1 \in About(s, d)
    BY <1>1, <1>2
  <1>5. ASSUME NEW e, LastAbout(s, d, e)
        PROVE  \/ LastAbout(g, d, e)
               \/ About(g, d) = {} /\ Head(s) = e /\ Head(s).mac = d
    <2>1. PICK i \in About(s, d) : s[i] = e /\ \A j \in About(s, d) : j <= i
      BY <1>5 DEF LastAbout
    <2>3. CASE i = 1
      <3>1. About(g, d) = {}
        <4> SUFFICES ASSUME NEW j \in About(g, d) PROVE FALSE
          OBVIOUS
        <4>1. j + 1 <= 1 /\ j \in 1 .. n - 1
          BY <1>6, <2>1, <2>3
        <4> QED BY <1>1, <4>1
      <3> QED BY <1>1, <1>2, <2>1, <2>3, <3>1
    <2>4. CASE i # 1
      <3>1. i \in 1 .. n /\ i - 1 \in 1 .. n - 1 /\ i - 1 + 1 = i
        BY <1>1, <1>2, <2>1, <2>4
      <3>2. i - 1 \in About(g, d) /\ g[i - 1] = e
        BY <1>1, <1>2, <2>1, <3>1
      <3>3. \A j \in About(g, d) : j <= i - 1
        BY <1>1, <1>6, <2>1, <3>1
      <3> QED BY <3>2, <3>3 DEF LastAbout
    <2> QED BY <2>3, <2>4
  <1> QED BY <1>3, <1>4, <1>5 DEF g

-----------------------------------------------------------------------------
(***************************************************************************)
(* What the subscriber will be told.                                       *)
(***************************************************************************)

\* The subscriber believes w of d when everything on the bus has been taken.
Announced(d, w) ==
  \/ LastAbout(bus, d, [mac |-> d, type |-> w])
  \/ About(bus, d) = {} /\ Believed(d) = w

\* The last word of hostapd about d is in the log, or is being emitted, or has been put on
\* the bus, and then the bus ends on it, or on what the neighbour collector told last.
WordArrives(d) ==
  \/ LastAbout(log, d, [marker |-> lastWord[d], mac |-> d])
  \/ About(log, d) = {} /\ [mac |-> d, type |-> lastWord[d]] \in emission
  \/ /\ About(log, d) = {} /\ \A e \in emission : e.mac # d
     /\ \/ Announced(d, lastWord[d])
        \/ Announced(d, told[d])
        \/ Announced(d, "unheard of") /\ lastWord[d] = "none" /\ told[d] = Silent

\* Whatever names a station in the log is a word about it.
LinesSpeak == \A i \in 1 .. Len(log) : log[i].mac \in Stations => log[i].marker \in Type

AgreementInv ==
  /\ TypeOK
  /\ PInv
  /\ LinesSpeak
  /\ \A e, f \in emission : e = f
  /\ Up => \A d \in Stations : WordArrives(d)

\* One more line changes nothing for the stations it does not name.
LEMMA LoggedArrives ==
  ASSUME AgreementInv, NEW line \in Line, Logged(line),
         line.mac \in Stations => line.marker \in Type,
         UNCHANGED <<scanner, presence, shared>>
  PROVE  LinesSpeak' /\ (Up' => \A d \in Stations : WordArrives(d)')
  <1>0. /\ log \in Seq(Line) /\ Len(log) \in Nat
        /\ lastWord \in [Stations -> Type \cup {"none"}]
        /\ UNCHANGED <<hostapd, emission, bus, states, told, running>>
    BY LenProperties DEF AgreementInv, TypeOK, HostapdTypeOK, scanner, presence, shared
  <1>1. CASE hostapd = "starting"
    <2>1. UNCHANGED <<log, lastWord>>
      BY <1>1 DEF Logged
    <2>2. LinesSpeak'
      BY <2>1 DEF AgreementInv, LinesSpeak
    <2>3. Up' => Up
      BY <1>0 DEF Up
    <2>4. \A d \in Stations : WordArrives(d) => WordArrives(d)'
      BY <1>0, <2>1 DEF WordArrives, Announced, Believed
    <2> QED BY <2>2, <2>3, <2>4 DEF AgreementInv
  <1>2. CASE hostapd # "starting"
    <2>1. /\ log' = Append(log, line)
          /\ lastWord' = [d \in Stations |-> IF d = line.mac /\ line.marker \in Type
                                            THEN line.marker ELSE lastWord[d]]
      BY <1>2 DEF Logged
    <2>2. LinesSpeak'
      <3>1. /\ Len(log') = Len(log) + 1 /\ log'[Len(log) + 1] = line
            /\ \A i \in 1 .. Len(log) : log'[i] = log[i]
        BY <1>0, <2>1, AppendProperties
      <3> QED BY <1>0, <3>1 DEF AgreementInv, LinesSpeak
    <2>3. ASSUME Up', NEW d \in Stations
          PROVE  WordArrives(d)'
      <3>1. WordArrives(d)
        BY <1>0, <2>3 DEF AgreementInv, Up
      <3>2. CASE line.mac = d
        <4>1. LastAbout(log', d, line)
          BY <1>0, <2>1, <3>2, AboutAppended
        <4>2. lastWord'[d] = line.marker
          BY <2>1, <3>2
        <4>3. line = [marker |-> lastWord'[d], mac |-> d]
          BY <3>2, <4>2 DEF Line
        <4>4. LastAbout(log', d, [marker |-> lastWord'[d], mac |-> d])
          BY <4>1, <4>3
        <4> QED BY <4>4 DEF WordArrives
      <3>3. CASE line.mac # d
        <4>1. lastWord'[d] = lastWord[d]
          BY <2>1, <3>3
        <4>2. /\ \A e : LastAbout(log, d, e) => LastAbout(log', d, e)
              /\ About(log, d) = {} => About(log', d) = {}
          BY <1>0, <2>1, <3>3, AboutAppended
        <4>3. \A w : Announced(d, w) => Announced(d, w)'
          BY <1>0 DEF Announced, Believed
        <4> QED BY <1>0, <3>1, <4>1, <4>2, <4>3 DEF WordArrives
      <3> QED BY <3>2, <3>3
    <2> QED BY <2>2, <2>3
  <1> QED BY <1>1, <1>2

\* What is put on the bus is what the subscriber will believe; of the other devices it
\* will believe what it would have believed.
LEMMA AnnouncedAppended ==
  ASSUME TypeOK, NEW x \in BusEvent, bus' = Append(bus, x), UNCHANGED states, NEW d
  PROVE  /\ x.mac = d => Announced(d, x.type)'
         /\ x.mac # d => \A w : Announced(d, w) => Announced(d, w)'
  <1>1. bus \in Seq(BusEvent)
    BY DEF TypeOK, BusEvent
  <1>2. x.mac = d => x = [mac |-> d, type |-> x.type]
    BY DEF BusEvent
  <1>3. x.mac = d => LastAbout(bus', d, x)
    BY <1>1, AboutAppended
  <1>4. x.mac # d => /\ \A e : LastAbout(bus, d, e) => LastAbout(bus', d, e)
                     /\ About(bus, d) = {} => About(bus', d) = {}
    BY <1>1, AboutAppended
  <1>5. Believed(d)' = Believed(d)
    BY DEF Believed
  <1>6. x.mac = d => Announced(d, x.type)'
    BY <1>2, <1>3 DEF Announced
  <1>7. x.mac # d => \A w : Announced(d, w) => Announced(d, w)'
    BY <1>4, <1>5 DEF Announced
  <1> QED BY <1>6, <1>7

\* Taking an event from the bus changes nothing of what will be believed.
LEMMA AnnouncedTaken ==
  ASSUME TypeOK, TakeEvent, NEW d, NEW w, Announced(d, w)
  PROVE  Announced(d, w)'
  <1> DEFINE x == Head(bus)
  <1>1. /\ bus \in Seq(BusEvent) /\ bus # <<>> /\ bus' = Tail(bus)
        /\ states' = Remembers(x)
    BY DEF TypeOK, BusEvent, TakeEvent
  <1>2. CASE x.mac = d
    <2>1. LastAbout(bus, d, [mac |-> d, type |-> w])
      BY <1>1, <1>2, AboutTail DEF Announced
    <2>2. \/ LastAbout(bus', d, [mac |-> d, type |-> w])
          \/ About(bus', d) = {} /\ x = [mac |-> d, type |-> w]
      BY <1>1, <1>2, <2>1, AboutTail
    <2>3. x = [mac |-> d, type |-> w] => Believed(d)' = w
      <3>1. x = [mac |-> d, type |-> w] => x.mac = d /\ x.type = w
        OBVIOUS
      <3> HIDE DEF x
      <3> QED BY <1>1, <3>1 DEF Believed, Remembers
    <2> QED BY <2>2, <2>3 DEF Announced
  <1>3. CASE x.mac # d
    <2>1. /\ \A e : LastAbout(bus, d, e) => LastAbout(bus', d, e)
          /\ About(bus, d) = {} => About(bus', d) = {}
      BY <1>1, <1>3, AboutTail
    <2>2. Believed(d)' = Believed(d)
      <3> HIDE DEF x
      <3> QED BY <1>1, <1>3 DEF Believed, Remembers
    <2> QED BY <2>1, <2>2 DEF Announced
  <1> QED BY <1>2, <1>3

\* The last line about a station is not lost between the log and Emit.
LEMMA ScannedArrives ==
  ASSUME AgreementInv, ScanLine, UNCHANGED <<presence, shared>>
  PROVE  /\ LinesSpeak'
         /\ \A e, f \in emission' : e = f
         /\ Up' => \A d \in Stations : WordArrives(d)'
  <1>1. /\ log \in Seq(Line) /\ log # <<>> /\ log' = Tail(log)
        /\ hostapd = "reading" /\ emission = {}
        /\ UNCHANGED <<lastWord, bus, states, told, running>>
    BY DEF AgreementInv, TypeOK, HostapdTypeOK, ScanLine, presence, shared, stations
  <1>2. PICK line \in Line : line = Head(log)
    BY <1>1, HeadTailProperties
  <1>3. IF Speaks(line)
        THEN emission' = {[mac |-> line.mac, type |-> line.marker]}
        ELSE emission' = {}
    BY <1>1, <1>2 DEF ScanLine, scanner
  <1>4. LinesSpeak' /\ (line.mac \in Stations => line.marker \in Type)
    <2>1. /\ Len(log) \in Nat /\ Len(log) >= 1 /\ Len(log') = Len(log) - 1
          /\ line = log[1] /\ \A i \in 1 .. Len(log) - 1 : log'[i] = log[i + 1]
      BY <1>1, <1>2, HeadTailProperties, LenProperties, EmptySeq
    <2>2. 1 \in 1 .. Len(log) /\ \A i \in 1 .. Len(log) - 1 : i + 1 \in 1 .. Len(log)
      BY <2>1
    <2> QED BY <2>1, <2>2 DEF AgreementInv, LinesSpeak
  <1>5. Up' => Up
    BY <1>1 DEF Up
  <1>6. ASSUME NEW d \in Stations, WordArrives(d)
        PROVE  WordArrives(d)'
    <2>1. \A w : Announced(d, w) => Announced(d, w)'
      BY <1>1 DEF Announced, Believed
    <2>2. CASE line.mac # d
      <3>1. /\ \A e : LastAbout(log, d, e) => LastAbout(log', d, e)
            /\ About(log, d) = {} => About(log', d) = {}
        BY <1>1, <1>2, <2>2, AboutTail
      <3>2. \A e \in emission' : e.mac # d
        BY <1>3, <2>2
      <3> QED BY <1>1, <1>6, <2>1, <3>1, <3>2 DEF WordArrives
    <2>3. CASE line.mac = d
      <3>1. LastAbout(log, d, [marker |-> lastWord[d], mac |-> d])
        <4>1. About(log, d) # {}
          BY <1>1, <1>2, <2>3, AboutTail
        <4> QED BY <1>6, <4>1 DEF WordArrives
      <3>2. \/ LastAbout(log', d, [marker |-> lastWord[d], mac |-> d])
            \/ About(log', d) = {} /\ line = [marker |-> lastWord[d], mac |-> d]
        <4> DEFINE e == [marker |-> lastWord[d], mac |-> d]
        <4>1. LastAbout(log, d, e)
          BY <3>1
        <4>2. Head(log).mac = d
          BY <1>2, <2>3
        <4> HIDE DEF e
        <4>3. \/ LastAbout(Tail(log), d, e)
              \/ About(Tail(log), d) = {} /\ Head(log) = e
          <5>1. log \in Seq(Line) /\ log # <<>>
            BY <1>1
          <5> QED BY ONLY <4>1, <4>2, <5>1, AboutTail
        <4> QED BY <1>1, <1>2, <4>3 DEF e
      <3>3. line = [marker |-> lastWord[d], mac |-> d]
              => [mac |-> d, type |-> lastWord[d]] \in emission'
        <4>1. line.marker \in Type /\ line.mac # Malformed
          <5>1. line.mac \in Stations
            BY <2>3
          <5> QED BY <1>4, <5>1, HostapdAssumption
        <4>2. emission' = {[mac |-> line.mac, type |-> line.marker]}
          BY <1>3, <4>1 DEF Speaks
        <4> QED BY <4>2
      <3> QED BY <1>1, <3>2, <3>3 DEF WordArrives
    <2> QED BY <2>2, <2>3
  <1>7. \A e, f \in emission' : e = f
    BY <1>3
  <1> QED BY <1>4, <1>5, <1>6, <1>7 DEF AgreementInv

\* What hostapd said last about a station is what ends the bus once it is emitted.
LEMMA EmittedArrives ==
  ASSUME AgreementInv, HostapdAnnounces
  PROVE  \A d \in Stations : WordArrives(d) => WordArrives(d)'
  <1>1. PICK e \in emission : bus' = Append(bus, e)
    BY DEF HostapdAnnounces
  <1>2. /\ UNCHANGED <<log, lastWord, told, states>> /\ emission' = {} /\ emission = {e}
        /\ e \in BusEvent
    BY <1>1, WirelessAssumption
       DEF HostapdAnnounces, Emitted, presence, stations, AgreementInv, TypeOK, HostapdTypeOK, Event,
           BusEvent
  <1>3. TypeOK
    BY DEF AgreementInv
  <1> SUFFICES ASSUME NEW d \in Stations, WordArrives(d)
               PROVE  WordArrives(d)'
    OBVIOUS
  <1>4. CASE LastAbout(log, d, [marker |-> lastWord[d], mac |-> d])
    BY <1>2, <1>4 DEF WordArrives
  <1>5. CASE About(log, d) = {} /\ [mac |-> d, type |-> lastWord[d]] \in emission
    <2>1. e.mac = d /\ e.type = lastWord[d]
      BY <1>2, <1>5
    <2>2. Announced(d, e.type)'
      BY <1>1, <1>2, <1>3, <2>1, AnnouncedAppended
    <2>3. Announced(d, e.type)' => WordArrives(d)'
      BY <1>2, <1>5, <2>1 DEF WordArrives, Announced, Believed
    <2> QED BY <2>2, <2>3
  <1>6. CASE /\ About(log, d) = {} /\ \A f \in emission : f.mac # d
             /\ \/ Announced(d, lastWord[d])
                \/ Announced(d, told[d])
                \/ Announced(d, "unheard of") /\ lastWord[d] = "none" /\ told[d] = Silent
    <2>1. e.mac # d
      BY <1>6
    <2>2. \A w : Announced(d, w) => Announced(d, w)'
      BY <1>1, <1>2, <1>3, <2>1, AnnouncedAppended
    <2> QED BY <1>2, <1>6, <2>2 DEF WordArrives
  <1> QED BY <1>4, <1>5, <1>6 DEF WordArrives

\* So is what the neighbour collector tells, until something is emitted.
LEMMA ToldArrives ==
  ASSUME AgreementInv, NeighborAnnounces
  PROVE  \A d \in Stations : WordArrives(d) => WordArrives(d)'
  <1>1. PICK n \in pending : bus' = Append(bus, [mac |-> n.key, type |-> n.type])
    BY DEF NeighborAnnounces
  <1>2. told' = [told EXCEPT ![n.key] = n.type]
    <2>1. \A m \in pending : m = n
      BY <1>1 DEF AgreementInv, PInv, OneAtATime
    <2> QED BY <2>1 DEF NeighborAnnounces, Tell
  <1>3. n.key \in Devices /\ n.type \in Type /\ told \in [Devices -> Type \cup {Silent}]
    BY DEF AgreementInv, TypeOK
  <1>4. [mac |-> n.key, type |-> n.type] \in BusEvent
    BY <1>3 DEF BusEvent
  <1>5. UNCHANGED <<log, lastWord, emission, states>> /\ TypeOK
    BY DEF NeighborAnnounces, wireless, scanner, AgreementInv
  <1> SUFFICES ASSUME NEW d \in Stations, WordArrives(d)
               PROVE  WordArrives(d)'
    OBVIOUS
  <1>6. CASE n.key = d
    <2>1. Announced(d, n.type)'
      BY <1>1, <1>4, <1>5, <1>6, AnnouncedAppended
    <2>2. told'[d] = n.type
      BY <1>2, <1>3, <1>6
    <2>3. Announced(d, n.type)' => Announced(d, told[d])'
      BY <2>2 DEF Announced, Believed
    <2> QED BY <1>5, <2>1, <2>3 DEF WordArrives
  <1>7. CASE n.key # d
    <2>1. \A w : Announced(d, w) => Announced(d, w)'
      BY <1>1, <1>4, <1>5, <1>7, AnnouncedAppended
    <2>2. told'[d] = told[d]
      BY <1>2, <1>3, <1>7
    <2> QED BY <1>5, <2>1, <2>2 DEF WordArrives
  <1> QED BY <1>6, <1>7

\* Every step preserves the invariant.
LEMMA AgreementStep ==
  ASSUME AgreementInv, [Next]_vars
  PROVE  AgreementInv'
  <1>1. TypeOK'
    BY WirelessTypeStep DEF AgreementInv
  <1>2. PInv'
    BY PresenceSteps, PInvStep DEF AgreementInv
  <1> DEFINE Rest == /\ LinesSpeak'
                     /\ \A e, f \in emission' : e = f
                     /\ Up' => \A d \in Stations : WordArrives(d)'
  <1> SUFFICES Rest
    BY <1>1, <1>2 DEF AgreementInv
  <1>3. ASSUME UNCHANGED <<log, lastWord, emission>>,
               \A d \in Stations : WordArrives(d) => WordArrives(d)',
               Up' => Up
        PROVE  Rest
    BY <1>3 DEF AgreementInv, LinesSpeak
  <1>4. ASSUME UNCHANGED <<log, lastWord, emission, told, bus, states>>
        PROVE  \A d \in Stations : WordArrives(d) => WordArrives(d)'
    BY <1>4 DEF WordArrives, Announced, Believed
  <1> HIDE DEF Rest
  <1>5. CASE StationsMove
    <2>1. UNCHANGED <<scanner, presence, shared>>
      BY <1>5 DEF StationsMove, StationStep, Join, Notice, Leave, Mutter
    <2>2. /\ UNCHANGED emission /\ (Up' => Up)
          /\ UNCHANGED <<told, bus, states>>
      BY <2>1 DEF scanner, presence, shared, Up
    <2>3. ASSUME NEW line \in Line, Logged(line), line.mac \in Stations => line.marker \in Type
          PROVE  Rest
      BY <2>1, <2>2, <2>3, LoggedArrives DEF AgreementInv, Rest
    <2>4. ASSUME NEW d \in Stations, NEW ap \in AccessPoints, Join(d, ap) \/ Notice(d, ap)
          PROVE  Rest
      <3>1. PICK marker \in Type : Logged([marker |-> marker, mac |-> d])
        BY <2>4 DEF Join, Notice, Type
      <3>2. [marker |-> marker, mac |-> d] \in Line
        BY DEF Line
      <3> QED BY <2>3, <3>1, <3>2
    <2>5. ASSUME NEW d \in Stations, Leave(d)
          PROVE  Rest
      BY <1>3, <1>4, <2>2, <2>5 DEF Leave
    <2>6. CASE Mutter
      <3>1. PICK marker \in {"other", "connected"} :
              Logged([marker |-> marker, mac |-> Malformed])
        BY <2>6 DEF Mutter
      <3>2. [marker |-> marker, mac |-> Malformed] \in Line /\ Malformed \notin Stations
        BY HostapdAssumption DEF Line, Type
      <3> QED BY <2>3, <3>1, <3>2
    <2> QED BY <1>5, <2>4, <2>5, <2>6 DEF StationsMove, StationStep
  <1>6. CASE Listens
    <2>1. UNCHANGED <<log, lastWord, emission, hostapd, bus, states>>
      BY <1>6 DEF Listens, wireless, scanner, shared
    <2>2. UNCHANGED <<told, running>>
      BY <1>6 DEF Listens, Pass, Hear, Appear, Confirm, Return, Lose, Move
    <2> QED BY <1>3, <1>4, <2>1, <2>2 DEF Up
  <1>7. CASE NeighborAnnounces
    <2>1. UNCHANGED <<log, lastWord, emission, hostapd, running>>
      BY <1>7 DEF NeighborAnnounces, Tell, wireless, scanner
    <2> QED BY <1>3, <1>7, <2>1, ToldArrives DEF Up
  <1>8. CASE NeighborReturns
    <2>1. ~Up' /\ UNCHANGED <<log, emission>>
      BY <1>8 DEF NeighborReturns, Stop, Up, wireless, scanner
    <2> QED BY <2>1 DEF Rest, AgreementInv, LinesSpeak
  <1>9. CASE LogreadStarts /\ UNCHANGED <<presence, shared>>
    <2>1. /\ UNCHANGED <<log, lastWord, emission, told, bus, states, running>>
          /\ hostapd = "starting"
      BY <1>9 DEF LogreadStarts, presence, shared
    <2> QED BY <1>3, <1>4, <2>1 DEF Up
  <1>10. CASE ScanLine /\ UNCHANGED <<presence, shared>>
    BY <1>10, ScannedArrives DEF Rest
  <1>11. CASE HostapdAnnounces
    <2>1. /\ UNCHANGED <<log, running>> /\ emission' = {} /\ hostapd = "emitting"
      BY <1>11 DEF HostapdAnnounces, Emitted, presence
    <2>2. LinesSpeak' /\ (Up' => Up)
      BY <2>1 DEF AgreementInv, LinesSpeak, Up
    <2> QED BY <1>11, <2>1, <2>2, EmittedArrives DEF Rest, AgreementInv
  <1>12. CASE HostapdEnds
    <2>1. ~Up' /\ UNCHANGED log /\ emission' = {}
      BY <1>12 DEF HostapdEnds, HostapdReturns, Up
    <2> QED BY <2>1 DEF Rest, AgreementInv, LinesSpeak
  <1>13. CASE TakeEvent
    <2>1. UNCHANGED <<log, lastWord, emission, hostapd, told, running>>
      BY <1>13 DEF TakeEvent, wireless, scanner, presence
    <2>2. TypeOK
      BY DEF AgreementInv
    <2>3. \A d \in Stations : \A w : Announced(d, w) => Announced(d, w)'
      BY <1>13, <2>2, AnnouncedTaken
    <2>4. \A d \in Stations : WordArrives(d) => WordArrives(d)'
      BY <2>1, <2>3 DEF WordArrives
    <2> QED BY <1>3, <2>1, <2>4 DEF Up
  <1>14. CASE UNCHANGED vars
    <2>1. UNCHANGED <<log, lastWord, emission, hostapd, told, running, bus, states>>
      BY <1>14 DEF vars, wireless, scanner, presence, shared
    <2> QED BY <1>3, <1>4, <2>1 DEF Up
  <1> QED BY <1>5, <1>6, <1>7, <1>8, <1>9, <1>10, <1>11, <1>12, <1>13, <1>14
          DEF Next, HostapdReads

LEMMA AgreementInit == Init => AgreementInv
  <1> SUFFICES ASSUME Init PROVE AgreementInv
    OBVIOUS
  <1>1. TypeOK /\ PInv
    BY WirelessTypeInit, PInvInit DEF Init
  <1>2. /\ log = <<>> /\ emission = {} /\ bus = <<>> /\ DOMAIN states = {}
        /\ Len(log) = 0 /\ Len(bus) = 0
    BY EmptySeq DEF Init, HostapdInit
  <1>3. \A d : About(log, d) = {} /\ About(bus, d) = {}
    BY <1>2 DEF About
  <1>4. \A d \in Stations : lastWord[d] = "none" /\ told[d] = Silent
    BY WirelessAssumption DEF Init, HostapdInit, PresenceInit
  <1>5. \A d \in Stations : Announced(d, "unheard of")
    BY <1>2, <1>3 DEF Announced, Believed
  <1>6. \A d \in Stations : WordArrives(d)
    BY <1>2, <1>3, <1>4, <1>5 DEF WordArrives
  <1>7. LinesSpeak
    BY <1>2 DEF LinesSpeak
  <1> QED BY <1>1, <1>2, <1>6, <1>7 DEF AgreementInv

\* Once nothing is under way the subscriber believes the collector that spoke last.
LEMMA SettledBelief ==
  ASSUME AgreementInv, Up, Settled, NEW d \in Stations
  PROVE  /\ status[d] = "present" /\ lastWord[d] = "connected" => Believed(d) = "connected"
         /\ status[d] = "absent" /\ lastWord[d] # "connected" => Believed(d) = "disconnected"
  <1>1. \A e : /\ ~LastAbout(log, d, e) /\ ~LastAbout(bus, d, e)
               /\ [mac |-> d, type |-> lastWord[d]] \notin emission
    BY EmptySeq DEF Settled, LastAbout, About
  <1>2. \/ Believed(d) = lastWord[d]
        \/ Believed(d) = told[d]
        \/ Believed(d) = "unheard of" /\ lastWord[d] = "none" /\ told[d] = Silent
    BY <1>1 DEF AgreementInv, WordArrives, Announced
  <1>3. d \in Devices /\ Calm(d) /\ running
    BY WirelessAssumption DEF Settled, Calm, Up
  <1>4. /\ status[d] = "present" => told[d] # "disconnected"
        /\ status[d] = "absent" => told[d] = "disconnected"
    BY <1>3 DEF AgreementInv, PInv, NewsFollowsStatus
  <1>5. /\ told[d] \in Type \cup {Silent} /\ lastWord[d] \in Type \cup {"none"}
        /\ Believed(d) \in Type \cup {"unheard of"}
    BY <1>3 DEF AgreementInv, TypeOK, HostapdTypeOK, Believed
  <1> QED BY <1>2, <1>4, <1>5 DEF Type, Silent

\* However the announcements of the two collectors interleave on the bus: once nothing is
\* under way, the subscriber believes what the two agree on.
THEOREM AgreementIsReached == Spec => []AgreementIsBelieved
  <1>1. AgreementInv => AgreementIsBelieved
    BY SettledBelief DEF AgreementIsBelieved
  <1>2. AgreementInv /\ [Next]_vars => AgreementInv'
    BY AgreementStep
  <1> QED BY AgreementInit, <1>1, <1>2, PTL DEF Spec
=============================================================================
