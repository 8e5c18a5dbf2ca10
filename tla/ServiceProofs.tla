---------------------------- MODULE ServiceProofs ----------------------------
(***************************************************************************)
(* What the service promises, whatever the configurations that users save, *)
(* the devices, and how often procd starts a process again.                *)
(***************************************************************************)
EXTENDS ServiceProperties, SequenceTheorems, TLAPS

-----------------------------------------------------------------------------
(***************************************************************************)
(* The configuration and its two readers.                                  *)
(***************************************************************************)

LEMMA LoadedType == \A c \in Config : Loaded(c) \in Config
  <1> SUFFICES ASSUME NEW c \in Config PROVE Loaded(c) \in Config
    OBVIOUS
  <1> DEFINE c1 == [c  EXCEPT !.routerID       = OrDefault(@, SystemHostname)]
             c2 == [c1 EXCEPT !.busCapacity    = OrDefault(@, "128")]
             c3 == [c2 EXCEPT !.offlineTimeout = OrDefault(@, "8s")]
             c4 == [c3 EXCEPT !.qos            = OrDefault(@, "0")]
             c5 == [c4 EXCEPT !.timeout        = OrDefault(@, "10s")]
  <1>1. Loaded(c) = c5
    BY DEF Loaded
  <1>2. c1 \in Config
    BY ConfigurationAssumption DEF Config, OrDefault
  <1> HIDE DEF c1
  <1>3. c2 \in Config
    BY <1>2 DEF Config, OrDefault, Capacity
  <1> HIDE DEF c2
  <1>4. c3 \in Config
    BY <1>3 DEF Config, OrDefault, Duration
  <1> HIDE DEF c3
  <1>5. c4 \in Config
    BY <1>4 DEF Config, OrDefault
  <1> HIDE DEF c4
  <1>6. c5 \in Config
    <2>1. OrDefault(c4.timeout, "10s") \in Duration
      BY <1>5 DEF Config, OrDefault, Duration
    <2> QED BY <1>5, <2>1 DEF Config
  <1> QED BY <1>1, <1>6

LEMMA MigratedType == \A c \in Config : Migrated(c) \in Config
  <1> SUFFICES ASSUME NEW c \in Config PROVE Migrated(c) \in Config
    OBVIOUS
  <1>1. Migrated(c) = c \/ Migrated(c) = [c EXCEPT !.offlineTimeout = "8s"]
    BY DEF Migrated
  <1>2. "8s" \in Duration
    BY DEF Duration
  <1>3. [c EXCEPT !.offlineTimeout = "8s"] \in Config
    BY <1>2 DEF Config
  <1> QED BY <1>1, <1>3
-----------------------------------------------------------------------------
(***************************************************************************)
(* What the service's actions leave alone.                                 *)
(***************************************************************************)

\* The steps that neither start nor end a process.
Inner ==
  \/ StartIdle \/ StartConnecting \/ StartRunning
  \/ (\E e \in Event : Announce(e)) \/ TakeEvent \/ FinishPublication \/ World

\* The steps in which a process ends by itself.
Ends ==
  /\ process # "none"
  /\ \E lived \in {"short", "long"} : Exits(lived)

LEMMA StepKinds ==
  ASSUME [ServiceNext]_service
  PROVE  \/ \E c \in Configs : Edit(c)
         \/ Reload \/ StopService \/ StartService \/ Respawn
         \/ Ends
         \/ Inner
         \/ UNCHANGED service
  BY DEF ServiceNext, Ends, Inner, RefuseEnvironment, GiveUpConnecting, Fail

LEMMA InnerLeaves ==
  ASSUME Inner
  PROVE  UNCHANGED <<saved, procd>>
  BY DEF Inner, StartIdle, StartConnecting, StartRunning, Announce,
         TakeEvent, FinishPublication, World
-----------------------------------------------------------------------------
(***************************************************************************)
(* The instance and its configuration.                                     *)
(***************************************************************************)

\* procd's part of the types.
InstanceTypes ==
  /\ config \in Config /\ env \in Config
  /\ reloadDue \in BOOLEAN /\ edits \in 0 .. MaxEdits
  /\ script \in {"idle", "stopping", "starting"}
  /\ instance \in {"none", "up", "waiting", "failed"}
  /\ respawns \in 0 .. Retry + 1
  /\ process # "none" <=> instance = "up"

\* An instance has been started with a valid configuration, and procd starts its process
\* again as long as it has retries left.
InstanceInv ==
  /\ script = "starting" => instance = "none"
  /\ instance \in {"up", "waiting"} => respawns <= Retry
  /\ instance # "none" => Valid(env)

\* Between its two looks the script still holds the configuration valid, unless an edit
\* waits for an answer, or the router has just booted.
AnswerInv == script # "idle" /\ ~reloadDue /\ edits # 0 => Validates(config)

ProcdInv ==
  /\ InstanceTypes
  /\ InstanceInv
  /\ AnswerInv
  /\ ServiceMatchesConfig

LEMMA ProcdInit == ServiceInit => ProcdInv
  <1> SUFFICES ASSUME ServiceInit PROVE ProcdInv
    OBVIOUS
  <1>1. Configs \subseteq Config /\ Retry \in Nat /\ MaxEdits \in Nat
    BY ServiceAssumption
  <1>2. InstanceTypes
    <2>1. config \in Config /\ env \in Config
      BY <1>1, MigratedType DEF ServiceInit
    <2>2. 0 \in 0 .. MaxEdits /\ 0 \in 0 .. Retry + 1
      BY <1>1
    <2> QED BY <2>1, <2>2 DEF ServiceInit, InstanceTypes
  <1>3. InstanceInv /\ AnswerInv /\ ServiceMatchesConfig
    BY <1>1 DEF ServiceInit, InstanceInv, AnswerInv, ServiceMatchesConfig, Settled
  <1> QED BY <1>2, <1>3 DEF ProcdInv

LEMMA ProcdStep ==
  ASSUME ProcdInv, [ServiceNext]_service
  PROVE  ProcdInv'
  <1> USE DEF saved, procd
  <1>0. /\ Configs \subseteq Config /\ Retry \in Nat \ {0} /\ MaxEdits \in Nat
        /\ edits \in Nat /\ respawns \in Nat
    BY ServiceAssumption DEF ProcdInv, InstanceTypes
  <1>1. ASSUME NEW c \in Configs, Edit(c)
        PROVE  ProcdInv'
    <2>1. /\ UNCHANGED <<script, instance, env, respawns, process>>
          /\ config' = c /\ reloadDue' = TRUE /\ edits' = edits + 1 /\ edits < MaxEdits
      BY <1>1 DEF Edit, inside
    <2>2. edits' \in 0 .. MaxEdits
      BY <1>0, <2>1
    <2> QED BY <1>0, <2>1, <2>2 DEF ProcdInv, InstanceTypes, InstanceInv, AnswerInv,
                                    ServiceMatchesConfig, Settled
  <1>2. CASE Reload
    <2>1. /\ UNCHANGED <<config, edits, instance, env, respawns, process>>
          /\ reloadDue' = FALSE /\ script = "idle"
          /\ script' = IF Validates(config) THEN "stopping" ELSE "idle"
      BY <1>2 DEF Reload, ReloadGoesOn, inside
    <2>2. Validates(config)' <=> Validates(config)
      BY <2>1
    <2> QED BY <2>1, <2>2 DEF ProcdInv, InstanceTypes, InstanceInv, AnswerInv,
                              ServiceMatchesConfig, Settled
  <1>3. CASE StopService
    <2>1. /\ UNCHANGED <<config, reloadDue, edits, env, respawns>>
          /\ script = "stopping" /\ script' = "starting" /\ instance' = "none"
          /\ process' = "none"
      BY <1>3 DEF StopService, ProcessEnds
    <2>2. Validates(config)' <=> Validates(config)
      BY <2>1
    <2> QED BY <2>1, <2>2 DEF ProcdInv, InstanceTypes, InstanceInv, AnswerInv,
                              ServiceMatchesConfig, Settled
  <1>4. CASE StartService
    <2>1. /\ UNCHANGED <<config, reloadDue, edits>>
          /\ script = "starting" /\ script' = "idle" /\ instance = "none"
      BY <1>4 DEF StartService, ProcdInv, InstanceInv
    <2>2. /\ Validates(config)' <=> Validates(config)
          /\ Loaded(config)' = Loaded(config)
      BY <2>1
    <2>3. CASE Starts(config)
      <3>1. /\ instance' = "up" /\ process' = "starting"
            /\ env' = Loaded(config) /\ respawns' = 0
        BY <1>4, <2>3 DEF StartService
      <3>2. config.enabled /\ Valid(Loaded(config)) /\ Loaded(config) \in Config
        BY <2>3, LoadedType DEF Starts, Validates, ProcdInv, InstanceTypes
      <3>3. Valid(env') /\ env' \in Config
        BY <3>1, <3>2
      <3>4. InstanceTypes'
        BY <1>0, <2>1, <3>1, <3>3 DEF ProcdInv, InstanceTypes
      <3>5. InstanceInv'
        BY <1>0, <2>1, <3>1, <3>3 DEF InstanceInv
      <3>6. AnswerInv' /\ ServiceMatchesConfig'
        BY <2>1, <2>2, <3>1, <3>2 DEF AnswerInv, ServiceMatchesConfig
      <3> QED BY <3>4, <3>5, <3>6 DEF ProcdInv
    <2>4. CASE ~Starts(config)
      <3>1. UNCHANGED <<instance, process, env, respawns>>
        BY <1>4, <2>4 DEF StartService
      <3>2. Validates(config) => ~config.enabled
        BY <2>4 DEF Starts
      <3> QED BY <2>1, <2>2, <3>1, <3>2 DEF ProcdInv, InstanceTypes, InstanceInv,
                                            AnswerInv, ServiceMatchesConfig, Settled
    <2> QED BY <2>3, <2>4
  <1>5. CASE Respawn
    <2>1. /\ UNCHANGED <<config, reloadDue, edits, script, env, respawns>>
          /\ instance = "waiting" /\ instance' = "up" /\ process' = "starting"
      BY <1>5 DEF Respawn
    <2> QED BY <2>1 DEF ProcdInv, InstanceTypes, InstanceInv, AnswerInv,
                        ServiceMatchesConfig, Settled
  <1>6. CASE Ends
    <2>1. /\ UNCHANGED <<config, reloadDue, edits, script, env>>
          /\ process # "none" /\ process' = "none"
          /\ respawns' = 0 \/ respawns' = respawns + 1
          /\ instance' = IF respawns' > Retry THEN "failed" ELSE "waiting"
      BY <1>6 DEF Ends, Exits, ProcessEnds
    <2>2. instance = "up" /\ respawns <= Retry
      BY <2>1 DEF ProcdInv, InstanceTypes, InstanceInv
    <2>3. PICK r \in 0 .. Retry + 1 : respawns' = r
      BY <1>0, <2>1, <2>2
    <2>4. /\ instance' \in {"failed", "waiting"}
          /\ instance' = "waiting" => r <= Retry
      BY <1>0, <2>1, <2>3
    <2>5. InstanceTypes'
      BY <2>1, <2>3, <2>4 DEF ProcdInv, InstanceTypes
    <2>6. InstanceInv'
      BY <2>1, <2>2, <2>3, <2>4 DEF ProcdInv, InstanceInv
    <2>7. AnswerInv' /\ ServiceMatchesConfig'
      BY <2>1, <2>2, <2>4 DEF ProcdInv, AnswerInv, ServiceMatchesConfig, Settled
    <2> QED BY <2>5, <2>6, <2>7 DEF ProcdInv
  <1>7. CASE Inner
    <2>1. UNCHANGED <<config, reloadDue, edits, script, instance, env, respawns>>
      BY <1>7, InnerLeaves
    <2>2. process' # "none" <=> process # "none"
      BY <1>7 DEF Inner, StartIdle, StartConnecting, StartRunning,
                  Announce, TakeEvent, FinishPublication, World, inside
    <2> QED BY <2>1, <2>2 DEF ProcdInv, InstanceTypes, InstanceInv, AnswerInv,
                              ServiceMatchesConfig, Settled
  <1>8. CASE UNCHANGED service
    BY <1>8 DEF service, inside, ProcdInv, InstanceTypes, InstanceInv, AnswerInv,
                ServiceMatchesConfig, Settled
  <1> QED BY <1>1, <1>2, <1>3, <1>4, <1>5, <1>6, <1>7, <1>8, StepKinds

LEMMA ProcdHolds == ServiceSpec => []ProcdInv
  BY ProcdInit, ProcdStep, PTL DEF ServiceSpec

\* A valid configuration that has been answered is the one that counts, whatever edits
\* come between the steps of reload_service, and however often the process dies.
THEOREM ConfigurationIsObeyed == ServiceSpec => []ServiceMatchesConfig
  <1>1. ProcdInv => ServiceMatchesConfig
    BY DEF ProcdInv
  <1> QED BY <1>1, ProcdHolds, PTL

\* A reload does not leave an enabled service stopped, unless an edit came in between.
THEOREM ReloadsDoNotStop == ServiceSpec => StopsOnlyWhenTold
  <1>1. ProcdInv /\ [ServiceNext]_service =>
          [script = "starting" /\ script' = "idle" /\ instance' = "none" =>
             ~config.enabled \/ reloadDue \/ edits = 0]_service
    <2> SUFFICES ASSUME ProcdInv, [ServiceNext]_service,
                        script = "starting", script' = "idle", instance' = "none"
                 PROVE  ~config.enabled \/ reloadDue \/ edits = 0
      OBVIOUS
    <2>1. StartService
      BY StepKinds, InnerLeaves
      DEF procd, Edit, Reload, StopService, Respawn, Ends, Exits, service
    <2>2. ~Starts(config)
      BY <2>1 DEF StartService
    <2> QED BY <2>2 DEF Starts, ProcdInv, AnswerInv
  <1> QED BY <1>1, ProcdHolds, PTL DEF ServiceSpec, StopsOnlyWhenTold
-----------------------------------------------------------------------------
(***************************************************************************)
(* The process and the subscriber.                                         *)
(***************************************************************************)

\* The types of the process, and of its connection with the broker.
InsideTypes ==
  /\ MqttTypeOK
  /\ process \in {"none", "starting", "connecting", "idle", "running"}
  /\ bus \in Seq(Event) /\ Len(bus) <= BusCapacity
  /\ DOMAIN states \subseteq Devices /\ states \in [DOMAIN states -> Type]
  /\ announced \in 0 .. MaxAnnouncements

\* Nothing is being published.
Quiet == publishing = {} /\ ~done /\ store = {} /\ wire = <<>> /\ ~acked

\* What DeviceState remembers and the connection belong to a process, and what is under
\* way to an open connection.
LinkInv ==
  /\ process \in {"none", "starting", "idle"} => client = "none" /\ Quiet
  /\ process = "connecting" => client = "connecting" /\ Quiet
  /\ IF process = "running" THEN client \in {"open", "reconnecting"} ELSE DOMAIN states = {}
  /\ client # "open" => wire = <<>> /\ ~acked
  /\ done => store = {}

\* The subscriber believes of the devices ds what DeviceState remembers.
Told(ds) == \A d \in ds : Enabled(states[d]) => belief[d] = states[d]

\* The message e is being published: it is kept, and on its way; or it has arrived, and
\* its acknowledgement is on its way; or it has been acknowledged.
UnderWay(e) ==
  /\ publishing = {e}
  /\ e.mac \in DOMAIN states /\ states[e.mac] = e.type
  /\ Told(DOMAIN states \ {e.mac})
  /\ \/ store = {e} /\ ~done /\ ~acked /\ wire \in {<<>>, <<e>>}
     \/ store = {e} /\ ~done /\ acked /\ wire = <<>> /\ belief[e.mac] = e.type
     \/ store = {} /\ done /\ ~acked /\ wire = <<>> /\ belief[e.mac] = e.type

\* At QoS 1 and 2 the subscriber is one message behind DeviceState at most.
DeliveryInv ==
  process = "running" /\ env.qos # "0" =>
    \/ Quiet /\ Told(DOMAIN states)
    \/ \E e \in Event : UnderWay(e)

InsideInv == InsideTypes /\ LinkInv /\ DeliveryInv

LEMMA InsideInit == ServiceInit => InsideInv
  <1> SUFFICES ASSUME ServiceInit PROVE InsideInv
    OBVIOUS
  <1>1. MqttTypeOK
    BY EmptySeq DEF ServiceInit, MqttInit, NoClient, MqttTypeOK
  <1>2. bus \in Seq(Event) /\ Len(bus) <= BusCapacity
    BY EmptySeq, ServiceAssumption DEF ServiceInit
  <1>3. DOMAIN states = {} /\ states \in [DOMAIN states -> Type]
    BY DEF ServiceInit, Nothing
  <1>4. announced \in 0 .. MaxAnnouncements
    BY ServiceAssumption DEF ServiceInit
  <1>5. process = "none" /\ client = "none" /\ Quiet
    BY DEF ServiceInit, MqttInit, NoClient, Quiet
  <1> QED BY <1>1, <1>2, <1>3, <1>4, <1>5
          DEF InsideInv, InsideTypes, LinkInv, DeliveryInv, Quiet

\* A process that has ended leaves nothing under way.
LEMMA EndStep ==
  ASSUME InsideInv, ProcessEnds, UNCHANGED announced
  PROVE  InsideInv'
  <1>1. /\ UNCHANGED <<broker, belief>>
        /\ process' = "none" /\ bus' = <<>> /\ states' = Nothing
        /\ client' = "none" /\ Quiet'
        /\ done' = FALSE /\ acked' = FALSE
    BY DEF ProcessEnds, Disconnects, Quiet
  <1>2. bus' \in Seq(Event) /\ Len(bus') <= BusCapacity
    BY <1>1, EmptySeq, ServiceAssumption
  <1>3. DOMAIN states' = {} /\ states' \in [DOMAIN states' -> Type]
    BY <1>1 DEF Nothing
  <1>4. MqttTypeOK'
    BY <1>1, EmptySeq DEF MqttTypeOK, Quiet, InsideInv, InsideTypes
  <1>5. InsideTypes'
    BY <1>1, <1>2, <1>3, <1>4 DEF InsideInv, InsideTypes
  <1> QED BY <1>1, <1>3, <1>5 DEF InsideInv, LinkInv, DeliveryInv, Quiet

\* The steps of the broker, the network and the client library.
LEMMA WorldStep ==
  ASSUME InsideInv, World
  PROVE  InsideInv'
  <1>1. UNCHANGED <<process, bus, states, announced, env>>
    BY DEF World, procd, inside
  <1>2. /\ MqttTypeOK /\ LinkInv /\ DeliveryInv
        /\ UNCHANGED publishing
        /\ \A t : Enabled(t)' = Enabled(t)
    BY <1>1 DEF InsideInv, InsideTypes, Enabled, World, BrokerGoes, ConnectionBreaks,
                BrokerComes, Arrive, Acknowledge, Reconnect, link
  <1>3. MqttTypeOK' /\ LinkInv' /\ DeliveryInv' => InsideInv'
    BY <1>1 DEF InsideInv, InsideTypes
  <1>4. CASE BrokerGoes \/ ConnectionBreaks
    <2>1. /\ broker' \in BOOLEAN
          /\ client' = IF client = "open" THEN "reconnecting" ELSE client
          /\ wire' = <<>> /\ ~acked' /\ acked' \in BOOLEAN
          /\ UNCHANGED <<publishing, done, store, belief>>
      BY <1>2, <1>4 DEF BrokerGoes, ConnectionBreaks, Loses, MqttTypeOK
    <2>2. MqttTypeOK'
      BY <1>2, <2>1, EmptySeq DEF MqttTypeOK
    <2>3. LinkInv'
      BY <1>1, <1>2, <2>1 DEF LinkInv, Quiet
    <2>4. DeliveryInv'
      BY <1>1, <1>2, <2>1 DEF DeliveryInv, Quiet, UnderWay, Told
    <2> QED BY <1>3, <2>2, <2>3, <2>4
  <1>5. CASE BrokerComes
    <2>1. /\ broker' \in BOOLEAN
          /\ UNCHANGED <<client, publishing, done, store, wire, acked, belief>>
      BY <1>5 DEF BrokerComes, link
    <2>2. MqttTypeOK'
      BY <1>2, <2>1 DEF MqttTypeOK
    <2>3. LinkInv'
      BY <1>1, <1>2, <2>1 DEF LinkInv, Quiet
    <2>4. DeliveryInv'
      BY <1>1, <1>2, <2>1 DEF DeliveryInv, Quiet, UnderWay, Told
    <2> QED BY <1>3, <2>2, <2>3, <2>4
  <1>6. CASE Arrive
    <2> DEFINE e == Head(wire)
    <2>1. /\ client = "open" /\ wire # <<>>
          /\ belief' = [belief EXCEPT ![e.mac] = e.type]
          /\ wire' = Tail(wire)
          /\ acked' = (store # {})
          /\ UNCHANGED <<broker, client, publishing, done, store>>
      BY <1>6 DEF Arrive
    <2>2. e \in Event /\ Tail(wire) \in Seq(Event)
      BY <1>2, <2>1, HeadTailProperties DEF MqttTypeOK
    <2>3. MqttTypeOK'
      <3>1. e.type \in Type
        BY <2>2 DEF Event
      <3>2. belief' \in [Devices -> Type \cup {Unknown}]
        BY <1>2, <2>1, <3>1 DEF MqttTypeOK
      <3> QED BY <1>2, <2>1, <2>2, <3>2 DEF MqttTypeOK
    <2>4. LinkInv'
      BY <1>1, <1>2, <2>1 DEF LinkInv, Quiet
    <2>5. DeliveryInv'
      <3> SUFFICES ASSUME process = "running", env.qos # "0"
                   PROVE  \E f \in Event : UnderWay(f)'
        BY <1>1 DEF DeliveryInv
      <3>1. PICK f \in Event : UnderWay(f)
        BY <1>2, <2>1 DEF DeliveryInv, Quiet
      <3>2. wire = <<f>> /\ store = {f} /\ ~done
        BY <2>1, <3>1 DEF UnderWay
      <3>3. e = f /\ Tail(wire) = <<>>
        BY <3>2
      <3>4. /\ belief'[f.mac] = f.type
            /\ \A d \in Devices \ {f.mac} : belief'[d] = belief[d]
        BY <1>2, <2>1, <3>3 DEF MqttTypeOK, Event
      <3>5. DOMAIN states \subseteq Devices
        BY DEF InsideInv, InsideTypes
      <3> HIDE DEF e
      <3>6. Told(DOMAIN states \ {f.mac})'
        BY <1>1, <1>2, <3>1, <3>4, <3>5 DEF Told, UnderWay
      <3>7. UnderWay(f)'
        BY <1>1, <2>1, <3>1, <3>2, <3>3, <3>4, <3>6 DEF UnderWay
      <3> QED BY <3>7
    <2> QED BY <1>3, <2>3, <2>4, <2>5
  <1>7. CASE Acknowledge
    <2>1. /\ acked /\ acked' = FALSE /\ store' = {} /\ done' = TRUE
          /\ UNCHANGED <<broker, client, publishing, wire, belief>>
      BY <1>7 DEF Acknowledge
    <2>2. MqttTypeOK'
      BY <1>2, <2>1 DEF MqttTypeOK
    <2>3. LinkInv'
      BY <1>1, <1>2, <2>1 DEF LinkInv, Quiet
    <2>4. DeliveryInv'
      BY <1>1, <1>2, <2>1 DEF DeliveryInv, Quiet, UnderWay, Told
    <2> QED BY <1>3, <2>2, <2>3, <2>4
  <1>8. CASE Reconnect
    <2>1. /\ client = "reconnecting" /\ client' = "open"
          /\ wire' = IF store = {} THEN <<>> ELSE <<CHOOSE e \in store : TRUE>>
          /\ UNCHANGED <<broker, publishing, done, store, acked, belief>>
      BY <1>8 DEF Reconnect
    <2>2. MqttTypeOK'
      <3>1. wire' \in Seq(Event)
        <4>1. store \subseteq Event
          BY <1>2 DEF MqttTypeOK
        <4>2. store # {} => (CHOOSE e \in store : TRUE) \in Event
          BY <4>1
        <4> HIDE DEF Event
        <4> QED BY <2>1, <4>2, EmptySeq
      <3> QED BY <1>2, <2>1, <3>1 DEF MqttTypeOK
    <2>3. LinkInv'
      BY <1>1, <1>2, <2>1 DEF LinkInv, Quiet
    <2>4. DeliveryInv'
      <3> SUFFICES ASSUME process = "running", env.qos # "0"
                   PROVE  (Quiet /\ Told(DOMAIN states))' \/ \E f \in Event : UnderWay(f)'
        BY <1>1 DEF DeliveryInv
      <3>1. CASE Quiet /\ Told(DOMAIN states)
        BY <1>1, <1>2, <2>1, <3>1 DEF Quiet, Told
      <3>2. CASE \E f \in Event : UnderWay(f)
        <4>1. PICK f \in Event : UnderWay(f)
          BY <3>2
        <4>2. ~acked
          BY <1>2, <2>1 DEF LinkInv
        <4>3. wire' = IF store = {} THEN <<>> ELSE <<f>>
          <5>1. store \in {{}, {f}}
            BY <4>1 DEF UnderWay
          <5> QED BY <2>1, <5>1
        <4>4. Told(DOMAIN states \ {f.mac})'
          BY <1>1, <1>2, <2>1, <4>1 DEF Told, UnderWay
        <4>5. UnderWay(f)'
          BY <1>1, <2>1, <4>1, <4>2, <4>3, <4>4 DEF UnderWay
        <4> QED BY <4>5
      <3>3. process = "running" /\ env.qos # "0"
        OBVIOUS
      <3> QED BY <1>2, <3>1, <3>2, <3>3 DEF DeliveryInv
    <2> QED BY <1>3, <2>2, <2>3, <2>4
  <1> QED BY <1>4, <1>5, <1>6, <1>7, <1>8 DEF World

\* DeviceState takes the oldest event of the bus, and the publisher what is news.
LEMMA TakeStep ==
  ASSUME InsideInv, TakeEvent
  PROVE  InsideInv'
  <1>0. bus # <<>> /\ bus \in Seq(Event) /\ Len(bus) <= BusCapacity /\ Len(bus) \in Nat
    BY LenProperties DEF TakeEvent, InsideInv, InsideTypes
  <1>1. PICK e \in Event : e = Head(bus)
    BY <1>0, HeadTailProperties
  <1>2. /\ process = "running" /\ publishing = {}
        /\ bus' = Tail(bus)
        /\ states' = [d \in DOMAIN states \cup {e.mac} |->
                        IF d = e.mac THEN e.type ELSE states[d]]
        /\ IF ~KnownAlready(e) /\ Enabled(e.type)
           THEN Publish(e, env.qos)
           ELSE UNCHANGED mqtt
        /\ UNCHANGED <<process, announced, env>>
    BY <1>1 DEF TakeEvent, procd
  <1>3. bus' \in Seq(Event) /\ Len(bus') <= BusCapacity
    <2>1. Tail(bus) \in Seq(Event) /\ Len(Tail(bus)) = Len(bus) - 1
      BY <1>0, HeadTailProperties
    <2> QED BY <1>0, <1>2, <2>1, ServiceAssumption
  <1>4. e.mac \in Devices /\ e.type \in Type
    BY DEF Event
  <1>5. DOMAIN states' \subseteq Devices /\ states' \in [DOMAIN states' -> Type]
    BY <1>2, <1>4 DEF InsideInv, InsideTypes
  <1>6. \A t : Enabled(t)' = Enabled(t)
    BY <1>2 DEF Enabled
  <1>7. MqttTypeOK /\ LinkInv /\ DeliveryInv
    BY DEF InsideInv, InsideTypes
  <1>8. env.qos # "0" => Quiet /\ Told(DOMAIN states)
    BY <1>2, <1>7 DEF DeliveryInv, UnderWay
  <1>9. CASE ~KnownAlready(e) /\ Enabled(e.type)
    <2>1. /\ publishing' = {e}
          /\ store' = IF env.qos # "0" THEN {e} ELSE {}
          /\ wire' = IF client = "open" THEN Append(wire, e) ELSE wire
          /\ done' = ~(env.qos # "0")
          /\ UNCHANGED <<broker, client, acked, belief>>
      BY <1>2, <1>9 DEF Publish, Keeps
    <2>2. MqttTypeOK'
      <3>1. wire' \in Seq(Event)
        BY <1>7, <2>1, AppendProperties DEF MqttTypeOK
      <3> QED BY <1>7, <2>1, <3>1 DEF MqttTypeOK
    <2>3. LinkInv'
      BY <1>2, <1>7, <2>1 DEF LinkInv
    <2>4. DeliveryInv'
      <3> SUFFICES ASSUME env.qos # "0"
                   PROVE  UnderWay(e)'
        BY <1>2 DEF DeliveryInv
      <3>1. wire' \in {<<>>, <<e>>}
        BY <1>8, <2>1 DEF Quiet
      <3>2. Told(DOMAIN states \ {e.mac})'
        BY <1>2, <1>6, <1>8, <2>1 DEF Told
      <3>3. e.mac \in DOMAIN states' /\ states'[e.mac] = e.type
        BY <1>2
      <3>4. store' = {e} /\ ~done' /\ ~acked'
        BY <1>8, <2>1 DEF Quiet
      <3> QED BY <2>1, <3>1, <3>2, <3>3, <3>4 DEF UnderWay
    <2> QED BY <1>2, <1>3, <1>5, <2>2, <2>3, <2>4 DEF InsideInv, InsideTypes
  <1>10. CASE ~(~KnownAlready(e) /\ Enabled(e.type))
    <2>1. UNCHANGED <<broker, client, publishing, done, store, wire, acked, belief>>
      BY <1>2, <1>10 DEF mqtt, link
    <2>2. MqttTypeOK' /\ LinkInv'
      BY <1>2, <1>7, <2>1 DEF MqttTypeOK, LinkInv, Quiet
    <2>3. DeliveryInv'
      <3> SUFFICES ASSUME env.qos # "0"
                   PROVE  Quiet' /\ Told(DOMAIN states)'
        BY <1>2 DEF DeliveryInv
      <3>1. Quiet'
        BY <1>8, <2>1 DEF Quiet
      <3>2. ASSUME NEW d \in DOMAIN states', Enabled(states'[d])
            PROVE  belief[d] = states'[d]
        <4>1. CASE d = e.mac
          <5>1. states'[d] = e.type /\ KnownAlready(e)
            BY <1>2, <1>10, <3>2, <4>1
          <5> QED BY <1>8, <3>2, <4>1, <5>1 DEF Told, KnownAlready
        <4>2. CASE d # e.mac
          BY <1>2, <1>8, <3>2, <4>2 DEF Told
        <4> QED BY <4>1, <4>2
      <3>3. Told(DOMAIN states)'
        BY <1>6, <2>1, <3>2 DEF Told
      <3> QED BY <3>1, <3>3
    <2> QED BY <1>2, <1>3, <1>5, <2>2, <2>3 DEF InsideInv, InsideTypes
  <1> QED BY <1>9, <1>10

\* waitToken returns.
LEMMA FinishStep ==
  ASSUME InsideInv, FinishPublication
  PROVE  InsideInv'
  <1>1. /\ process = "running" /\ publishing # {} /\ done
        /\ publishing' = {} /\ done' = FALSE
        /\ UNCHANGED <<broker, client, store, wire, acked, belief>>
        /\ UNCHANGED <<process, bus, states, announced, env>>
    BY DEF FinishPublication, Published, inside, procd
  <1>2. MqttTypeOK /\ LinkInv /\ DeliveryInv
    BY DEF InsideInv, InsideTypes
  <1>3. MqttTypeOK' /\ LinkInv'
    BY <1>1, <1>2 DEF MqttTypeOK, LinkInv
  <1>4. DeliveryInv'
    <2> SUFFICES ASSUME env.qos # "0"
                 PROVE  Quiet' /\ Told(DOMAIN states)'
      BY <1>1 DEF DeliveryInv
    <2>1. PICK f \in Event : UnderWay(f)
      BY <1>1, <1>2 DEF DeliveryInv, Quiet
    <2>2. store = {} /\ ~acked /\ wire = <<>> /\ belief[f.mac] = f.type
      BY <1>1, <2>1 DEF UnderWay
    <2>3. Quiet'
      BY <1>1, <2>2 DEF Quiet
    <2>4. Told(DOMAIN states)
      BY <2>1, <2>2 DEF Told, UnderWay
    <2>5. Told(DOMAIN states)'
      BY <1>1, <2>4 DEF Told, Enabled
    <2> QED BY <2>3, <2>5
  <1> QED BY <1>1, <1>3, <1>4 DEF InsideInv, InsideTypes

LEMMA InsideStep ==
  ASSUME ProcdInv, InsideInv, [ServiceNext]_service
  PROVE  InsideInv'
  <1>1. CASE UNCHANGED <<process, bus, states, announced, mqtt>> /\ UNCHANGED env
    BY <1>1 DEF mqtt, link, InsideInv, InsideTypes, MqttTypeOK, LinkInv, Quiet,
                DeliveryInv, UnderWay, Told, Enabled
  <1>2. CASE (\E c \in Configs : Edit(c)) \/ Reload \/ UNCHANGED service
    BY <1>1, <1>2 DEF Edit, Reload, service, procd, inside
  <1>3. CASE StopService \/ Ends
    BY <1>3, EndStep DEF StopService, Ends, Exits
  <1>4. CASE StartService \/ Respawn
    <2>1. /\ process = "none"
          /\ \/ process' = "starting"
             \/ UNCHANGED <<process, env>>
          /\ UNCHANGED <<bus, states, announced, mqtt>>
      BY <1>4 DEF StartService, Respawn, ProcdInv, InstanceTypes, InstanceInv
    <2>2. process' \in {"none", "starting"}
      BY <2>1
    <2> QED BY <2>1, <2>2 DEF mqtt, link, InsideInv, InsideTypes, MqttTypeOK, LinkInv,
                              Quiet, DeliveryInv
  <1>5. CASE StartIdle
    <2>1. /\ process = "starting" /\ process' = "idle"
          /\ UNCHANGED <<bus, states, announced, mqtt>>
      BY <1>5 DEF StartIdle
    <2> QED BY <2>1 DEF mqtt, link, InsideInv, InsideTypes, MqttTypeOK, LinkInv, Quiet,
                        DeliveryInv
  <1>6. CASE StartConnecting
    <2>1. /\ process = "starting" /\ process' = "connecting" /\ client' = "connecting"
          /\ UNCHANGED <<bus, states, announced, broker, publishing, done, store, wire,
                         acked, belief>>
      BY <1>6 DEF StartConnecting, Connect
    <2> QED BY <2>1 DEF InsideInv, InsideTypes, MqttTypeOK, LinkInv, Quiet, DeliveryInv
  <1>7. CASE StartRunning
    <2>1. /\ process = "connecting" /\ process' = "running"
          /\ client = "connecting" /\ client' = "open"
          /\ UNCHANGED <<bus, states, announced, broker, publishing, done, store, wire,
                         acked, belief>>
      BY <1>7 DEF StartRunning, Connected
    <2> QED BY <2>1 DEF InsideInv, InsideTypes, MqttTypeOK, LinkInv, Quiet, DeliveryInv, Told
  <1>8. ASSUME NEW e \in Event, Announce(e)
        PROVE  InsideInv'
    <2>1. /\ announced < MaxAnnouncements /\ announced' = announced + 1
          /\ Len(bus) < BusCapacity /\ bus' = Append(bus, e)
          /\ UNCHANGED <<process, states, env, mqtt>>
      BY <1>8 DEF Announce, HasRoom, procd
    <2>2. bus' \in Seq(Event) /\ Len(bus') <= BusCapacity
      <3>1. bus \in Seq(Event) /\ Len(bus) \in Nat
        BY LenProperties DEF InsideInv, InsideTypes
      <3> QED BY <2>1, <3>1, AppendProperties, ServiceAssumption
    <2>3. announced' \in 0 .. MaxAnnouncements
      BY <2>1, ServiceAssumption DEF InsideInv, InsideTypes
    <2>4. UNCHANGED <<broker, client, publishing, done, store, wire, acked, belief>>
      BY <2>1 DEF mqtt, link
    <2>5. MqttTypeOK' /\ LinkInv'
      BY <2>1, <2>4 DEF InsideInv, InsideTypes, MqttTypeOK, LinkInv, Quiet
    <2>6. DeliveryInv'
      BY <2>1, <2>4 DEF InsideInv, DeliveryInv, Quiet, UnderWay, Told, Enabled
    <2> QED BY <2>1, <2>2, <2>3, <2>5, <2>6 DEF InsideInv, InsideTypes
  <1>9. CASE TakeEvent \/ FinishPublication \/ World
    BY <1>9, TakeStep, FinishStep, WorldStep
  <1> QED BY <1>2, <1>3, <1>4, <1>5, <1>6, <1>7, <1>8, <1>9, StepKinds DEF Inner

LEMMA InsideHolds == ServiceSpec => []InsideInv
  BY ProcdHolds, InsideInit, InsideStep, PTL DEF ServiceSpec

\* Every variable of the service keeps its type; in particular the bus stays within its
\* capacity, procd within its retries, and a process is there exactly while procd knows of
\* one.
THEOREM ServiceTypeCorrect == ServiceSpec => []TypeOK
  <1>1. ProcdInv /\ InsideInv => TypeOK
    BY DEF ProcdInv, InstanceTypes, InsideInv, InsideTypes, TypeOK
  <1> QED BY <1>1, ProcdHolds, InsideHolds, PTL

\* At QoS 1 or 2, whatever becomes of the connection, the subscriber believes between two
\* publications what DeviceState remembers.
THEOREM SubscriberFollows == ServiceSpec => []BeliefFollowsState
  <1>1. InsideInv => BeliefFollowsState
    BY DEF InsideInv, DeliveryInv, UnderWay, Told, BeliefFollowsState
  <1> QED BY <1>1, InsideHolds, PTL
=============================================================================
