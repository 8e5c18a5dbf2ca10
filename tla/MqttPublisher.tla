--------------------------- MODULE MqttPublisher ---------------------------
(***************************************************************************)
(* The MQTT publisher (internal/publisher/mqtt) between one process of the *)
(* service and whoever subscribes to the broker: connect, Publish with     *)
(* waitToken, and Close.                                                   *)
(*                                                                         *)
(* The client library and the broker are external.  The library connects   *)
(* once, and fails if it cannot; it reconnects a connection that is lost.  *)
(* A publication at QoS 0 is done when it has been written, or at once     *)
(* while the client reconnects; at QoS 1 or 2 it is done when the broker   *)
(* has acknowledged it, and it is kept and written again until then.  (At  *)
(* QoS 2 the broker drops the repetitions, which change no belief.)        *)
(***************************************************************************)
EXTENDS Integers, Sequences

CONSTANT Devices

Type  == {"connected", "disconnected"}
Event == [mac : Devices, type : Type]

VARIABLES
  broker,      \* can be reached
  client,      \* the connection of the process
  publishing,  \* the message that Publish waits for
  done,        \* its token is
  store,       \* what the library keeps until it is acknowledged
  wire,        \* what is on its way to the broker
  acked,       \* an acknowledgement is on its way back
  belief       \* what the subscriber was last told of each device

link == <<client, publishing, done, store, wire, acked>>
mqtt == <<broker, link, belief>>

Unknown == ""

MqttTypeOK ==
  /\ broker \in BOOLEAN
  /\ client \in {"none", "connecting", "open", "reconnecting"}
  /\ publishing \in SUBSET Event /\ store \in SUBSET publishing
  /\ wire \in Seq(Event)
  /\ done \in BOOLEAN /\ acked \in BOOLEAN
  /\ belief \in [Devices -> Type \cup {Unknown}]

NoClient ==
  /\ client = "none"
  /\ publishing = {} /\ done = FALSE
  /\ store = {} /\ wire = <<>> /\ acked = FALSE

MqttInit ==
  /\ broker \in BOOLEAN
  /\ NoClient
  /\ belief = [d \in Devices |-> Unknown]
-----------------------------------------------------------------------------
(***************************************************************************)
(* The broker and the network.                                             *)
(***************************************************************************)

Loses ==
  /\ client' = IF client = "open" THEN "reconnecting" ELSE client
  /\ wire' = <<>> /\ acked' = FALSE

\* Whatever was under way is lost with the connection.
BrokerGoes ==
  /\ broker
  /\ broker' = FALSE
  /\ Loses
  /\ UNCHANGED <<publishing, done, store, belief>>

\* So it is when the connection alone breaks: the network fails, the broker is not
\* heard in time, or another client connects with the same client ID.
ConnectionBreaks ==
  /\ client = "open"
  /\ Loses
  /\ UNCHANGED <<broker, publishing, done, store, belief>>

BrokerComes ==
  /\ ~broker
  /\ broker' = TRUE
  /\ UNCHANGED <<link, belief>>

Arrive ==
  /\ client = "open"
  /\ wire # <<>>
  /\ LET e == Head(wire) IN belief' = [belief EXCEPT ![e.mac] = e.type]
  /\ wire' = Tail(wire)
  /\ acked' = (store # {})
  /\ UNCHANGED <<broker, client, publishing, done, store>>

Acknowledge ==
  /\ acked
  /\ acked' = FALSE
  /\ store' = {} /\ done' = TRUE
  /\ UNCHANGED <<broker, client, publishing, wire, belief>>

\* A connection that is lost is made again, and what is kept written again.
Reconnect ==
  /\ broker
  /\ client = "reconnecting"
  /\ client' = "open"
  /\ wire' = IF store = {} THEN <<>> ELSE <<CHOOSE e \in store : TRUE>>
  /\ UNCHANGED <<broker, publishing, done, store, acked, belief>>
-----------------------------------------------------------------------------
(***************************************************************************)
(* The publisher.                                                          *)
(***************************************************************************)

\* New: the library is asked to connect.
Connect ==
  /\ client = "none"
  /\ client' = "connecting"
  /\ UNCHANGED <<broker, publishing, done, store, wire, acked, belief>>

Connected ==
  /\ client = "connecting"
  /\ broker
  /\ client' = "open"
  /\ UNCHANGED <<broker, publishing, done, store, wire, acked, belief>>

\* The connection is refused, or not made within the timeout: waitToken returns
\* an error, and New does.
ConnectFails == client = "connecting" /\ ~broker

\* Mutant: a lost connection is no reason to keep a message.
KeepsWhileOpen(qos) == qos # "0" /\ client = "open"

Keeps(qos) == qos # "0"

\* Publish hands the message to the library and waits for its token.
Publish(e, qos) ==
  /\ client \in {"open", "reconnecting"}
  /\ publishing = {}
  /\ publishing' = {e}
  /\ store' = IF Keeps(qos) THEN {e} ELSE {}
  /\ wire' = IF client = "open" THEN Append(wire, e) ELSE wire
  /\ done' = ~Keeps(qos)
  /\ UNCHANGED <<broker, client, acked, belief>>

\* waitToken sees the token done.
Published ==
  /\ publishing # {}
  /\ done
  /\ publishing' = {} /\ done' = FALSE
  /\ UNCHANGED <<broker, client, store, wire, acked, belief>>

\* The process ends, through Close or without it.
Disconnects ==
  /\ client' = "none"
  /\ publishing' = {} /\ done' = FALSE
  /\ store' = {} /\ wire' = <<>> /\ acked' = FALSE
  /\ UNCHANGED <<broker, belief>>
=============================================================================
