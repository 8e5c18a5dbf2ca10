------------------------ MODULE DevicePresenceProofs ------------------------
(***************************************************************************)
(* What follows from DevicePresence alone, and hence holds of whatever     *)
(* implements it: the announcements about a device alternate, follow what  *)
(* is believed of it, and are only ever about devices that were heard.     *)
(***************************************************************************)
EXTENDS DevicePresence, TLAPS

Types ==
  /\ clock \in Nat
  /\ running \in BOOLEAN
  /\ status \in [Devices -> Status]
  /\ heard \in [Devices -> Nat \cup {NoTime}]
  /\ lostAt \in [Devices -> Int]
  /\ pending \in SUBSET [key : Devices, type : {"connected", "disconnected"}]
  /\ told \in [Devices -> {Silent, "connected", "disconnected"}]

OneAtATime == \A m, n \in pending : m = n

\* Nothing about d is on its way.
Calm(d) == \A n \in pending : n.key # d

\* The announcement on its way says what is believed, and so does the last one told
\* when none is on its way, unless nobody was told anything.
NewsFollowsStatus ==
  running =>
    /\ \A n \in pending :
         status[n.key] = IF n.type = "connected" THEN "present" ELSE "absent"
    /\ \A d \in Devices : Calm(d) =>
         /\ status[d] \in {"unknown", "listed"} => told[d] = Silent
         /\ status[d] = "present" => told[d] # "disconnected"
         /\ status[d] = "absent" => told[d] = "disconnected"

NewsAlternates == \A n \in pending : told[n.key] # n.type

NewsIsOfHeard ==
  \A d \in Devices :
    \/ heard[d] # NoTime
    \/ told[d] = Silent /\ Calm(d)

HeardUnlessUnconfirmed ==
  \A d \in Devices : status[d] \in {"present", "absent"} => heard[d] # NoTime

PInv ==
  /\ Types
  /\ OneAtATime
  /\ NewsFollowsStatus
  /\ NewsAlternates
  /\ NewsIsOfHeard
  /\ HeardUnlessUnconfirmed
-----------------------------------------------------------------------------
\* A sign of a device is never forgotten.
LEMMA HeedProperties ==
  ASSUME Types, NEW d \in Devices, Heed(d)
  PROVE  /\ heard' \in [Devices -> Nat \cup {NoTime}]
         /\ heard[d] # NoTime => heard'[d] # NoTime
         /\ \A e \in Devices : e # d => heard'[e] = heard[e]
  <1>1. PICK t \in heard[d] .. clock : heard' = [heard EXCEPT ![d] = t]
    BY DEF Heed
  <1>2. heard[d] \in Nat \cup {NoTime} /\ clock \in Nat
    BY DEF Types
  <1>3. t \in Nat \cup {NoTime} /\ (heard[d] # NoTime => t # NoTime)
    BY <1>2 DEF NoTime
  <1> QED BY <1>1, <1>3 DEF Types

\* A device moves, and that is announced.
LEMMA AnnouncedMove ==
  ASSUME PInv, NEW d \in Devices, NEW from \in Status, NEW to \in {"present", "absent"},
         NEW type \in {"connected", "disconnected"},
         type = "connected" <=> to = "present",
         Move(d, from, to), pending' = {News(d, type)}, told[d] # type,
         Types', heard'[d] # NoTime, \A e \in Devices : e # d => heard'[e] = heard[e]
  PROVE  PInv'
  <1>1. /\ pending = {} /\ running /\ running' = running /\ told' = told
        /\ status' = [status EXCEPT ![d] = to]
    BY DEF Move
  <1>2. status \in [Devices -> Status]
    BY DEF PInv, Types
  <1>3. /\ status'[d] = to
        /\ \A e \in Devices : e # d => status'[e] = status[e]
    BY <1>1, <1>2
  <1>4. \A n \in pending' : n.key = d /\ n.type = type
    BY DEF News
  <1>5. \A e \in Devices : Calm(e)
    BY <1>1 DEF Calm
  <1>6. \A e \in Devices : Calm(e)' => e # d
    BY DEF Calm, News
  <1>7. OneAtATime' /\ NewsAlternates'
    BY <1>1, <1>4 DEF OneAtATime, NewsAlternates
  <1>8. NewsFollowsStatus'
    <2>1. \A n \in pending' :
            status'[n.key] = IF n.type = "connected" THEN "present" ELSE "absent"
      BY <1>3, <1>4
    <2>2. ASSUME NEW e \in Devices, Calm(e)'
          PROVE  /\ status'[e] \in {"unknown", "listed"} => told'[e] = Silent
                 /\ status'[e] = "present" => told'[e] # "disconnected"
                 /\ status'[e] = "absent" => told'[e] = "disconnected"
      BY <1>1, <1>3, <1>5, <1>6, <2>2 DEF PInv, NewsFollowsStatus
    <2> QED BY <2>1, <2>2 DEF NewsFollowsStatus
  <1>9. NewsIsOfHeard'
    BY <1>1, <1>4 DEF PInv, NewsIsOfHeard, Calm
  <1>10. HeardUnlessUnconfirmed'
    BY <1>3 DEF PInv, HeardUnlessUnconfirmed
  <1> QED BY <1>7, <1>8, <1>9, <1>10 DEF PInv

\* The initial states satisfy the invariant.
LEMMA PInvInit == PresenceInit => PInv
  <1> SUFFICES ASSUME PresenceInit PROVE PInv
    OBVIOUS
  <1>1. NoTime \in Int
    BY DEF NoTime
  <1>2. Types
    BY <1>1 DEF PresenceInit, Types, Status
  <1>3. OneAtATime /\ NewsFollowsStatus /\ NewsAlternates
    BY DEF PresenceInit, OneAtATime, NewsFollowsStatus, NewsAlternates, Calm, Silent
  <1>4. NewsIsOfHeard /\ HeardUnlessUnconfirmed
    BY DEF PresenceInit, NewsIsOfHeard, HeardUnlessUnconfirmed, Calm
  <1> QED BY <1>2, <1>3, <1>4 DEF PInv

\* Every step preserves the invariant.
LEMMA PInvStep == PInv /\ [PresenceNext]_presence => PInv'
  <1> SUFFICES ASSUME PInv, [PresenceNext]_presence PROVE PInv'
    OBVIOUS
  <1> USE DEF PInv, OneAtATime, NewsFollowsStatus, NewsAlternates,
              NewsIsOfHeard, HeardUnlessUnconfirmed, Calm
  <1>1. CASE UNCHANGED presence
    BY <1>1 DEF presence, Types
  <1>2. CASE Pass
    BY <1>2 DEF Pass, Types
  <1>3. ASSUME NEW d \in Devices, Hear(d) PROVE PInv'
    BY <1>3, HeedProperties DEF Hear, Types
  <1>4. ASSUME NEW d \in Devices, Appear(d) PROVE PInv'
    <2>1. /\ heard' \in [Devices -> Nat \cup {NoTime}]
          /\ heard[d] # NoTime => heard'[d] # NoTime
          /\ \A e \in Devices : e # d => heard'[e] = heard[e]
      BY <1>4, HeedProperties DEF Appear
    <2>2. Types'
      BY <2>1, <1>4 DEF Appear, Move, News, Types, Status
    <2>3. told[d] = Silent
      BY <1>4 DEF Appear, Move
    <2>4. heard'[d] # NoTime
      BY <2>1, <1>4 DEF Appear, Move
    <2>5. /\ Move(d, "unknown", "present") /\ pending' = {News(d, "connected")}
          /\ \A e \in Devices : e # d => heard'[e] = heard[e]
      BY <2>1, <1>4 DEF Appear
    <2> QED BY <2>2, <2>3, <2>4, <2>5, AnnouncedMove DEF Status, Silent
  <1>5. ASSUME NEW d \in Devices, Confirm(d) PROVE PInv'
    <2>1. /\ heard' \in [Devices -> Nat \cup {NoTime}]
          /\ heard[d] # NoTime => heard'[d] # NoTime
          /\ \A e \in Devices : e # d => heard'[e] = heard[e]
      BY <1>5, HeedProperties DEF Confirm
    <2>2. Types'
      BY <2>1, <1>5 DEF Confirm, Move, News, Types, Status
    <2>3. OneAtATime' /\ NewsAlternates'
      BY <1>5 DEF Confirm, Move, News, Types, Silent
    <2>4. NewsFollowsStatus'
      BY <1>5 DEF Confirm, Move, News, Types, Silent, Status
    <2>5. NewsIsOfHeard' /\ HeardUnlessUnconfirmed'
      BY <2>1, <1>5 DEF Confirm, Move, News, Types, Silent, Status
    <2> QED BY <2>2, <2>3, <2>4, <2>5
  <1>6. ASSUME NEW d \in Devices, Return(d) PROVE PInv'
    <2>1. /\ heard' \in [Devices -> Nat \cup {NoTime}]
          /\ heard[d] # NoTime => heard'[d] # NoTime
          /\ \A e \in Devices : e # d => heard'[e] = heard[e]
      BY <1>6, HeedProperties DEF Return
    <2>2. Types'
      BY <2>1, <1>6 DEF Return, Move, News, Types, Status
    <2>3. told[d] = "disconnected"
      BY <1>6 DEF Return, Move
    <2>4. heard'[d] # NoTime
      BY <2>1, <1>6 DEF Return, Move
    <2>5. /\ Move(d, "absent", "present") /\ pending' = {News(d, "connected")}
          /\ \A e \in Devices : e # d => heard'[e] = heard[e]
      BY <2>1, <1>6 DEF Return
    <2> QED BY <2>2, <2>3, <2>4, <2>5, AnnouncedMove DEF Status, Silent
  <1>7. ASSUME NEW d \in Devices, Lose(d) PROVE PInv'
    <2>1. /\ Move(d, "present", "absent") /\ pending' = {News(d, "disconnected")}
          /\ heard' = heard /\ heard[d] # NoTime
      BY <1>7 DEF Lose, Move
    <2>2. Types'
      <3>1. PICK t \in heard[d] + OfflineTimeout .. clock : lostAt' = [lostAt EXCEPT ![d] = t]
        BY <1>7 DEF Lose
      <3>2. lostAt' \in [Devices -> Int]
        BY <3>1 DEF Types
      <3> QED BY <3>2, <2>1 DEF Move, News, Types, Status
    <2>3. told[d] # "disconnected"
      BY <2>1 DEF Move
    <2> QED BY <2>1, <2>2, <2>3, AnnouncedMove DEF Status
  <1>8. CASE Tell
    <2>1. PICK n \in pending : told' = [told EXCEPT ![n.key] = n.type]
      BY <1>8 DEF Tell
    <2>2. /\ n.key \in Devices /\ n.type \in {"connected", "disconnected"}
          /\ pending = {n} /\ pending' = {} /\ running
          /\ UNCHANGED <<clock, running, status, heard, lostAt>>
      BY <1>8 DEF Tell, Types
    <2>3. /\ told'[n.key] = n.type
          /\ \A e \in Devices : e # n.key => told'[e] = told[e]
      BY <2>1, <2>2 DEF Types
    <2>4. Types'
      BY <2>1, <2>2 DEF Types
    <2>5. OneAtATime' /\ NewsAlternates' /\ HeardUnlessUnconfirmed'
      BY <2>2
    <2>6. NewsFollowsStatus'
      BY <2>2, <2>3
    <2>7. NewsIsOfHeard'
      BY <2>2, <2>3
    <2> QED BY <2>4, <2>5, <2>6, <2>7
  <1>9. CASE Stop
    BY <1>9 DEF Stop, Types
  <1> QED BY <1>1, <1>2, <1>3, <1>4, <1>5, <1>6, <1>7, <1>8, <1>9 DEF PresenceNext

\* The invariant holds of every behaviour.
THEOREM PresenceInvariant == PresenceSpec => []PInv
  BY PInvInit, PInvStep, PTL DEF PresenceSpec
=============================================================================
