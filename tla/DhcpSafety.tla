----------------------------- MODULE DhcpSafety -----------------------------
(***************************************************************************)
(* What the DHCP collector may announce, told from the messages alone: a   *)
(* log of what was observed, and when, judges every announcement without   *)
(* looking at the tracker's transactions.                                  *)
(***************************************************************************)
EXTENDS DhcpCollector

CONSTANT MaxFrames   \* bound: frames in a behaviour

VARIABLE log         \* history: the messages observed, and when

ASSUME LogAssumption == MaxFrames \in Nat

\* A step in which the tracker observes a message.
Observing == socket # <<>> /\ socket' = Tail(socket)

LoggedNext ==
  /\ Next
  /\ Len(log) + Len(socket') <= MaxFrames
  /\ log' = IF Observing THEN Append(log, [message |-> Head(socket), at |-> clock])
                         ELSE log

LoggedSpec == Init /\ log = <<>> /\ [][LoggedNext]_<<vars, log>>
-----------------------------------------------------------------------------

Of(h, k, types) == {i \in DOMAIN h : h[i].message.type \in types /\ Key(h[i].message) = k}

\* The messages that have kept the transaction opened by message i alive since:
\* its requests, up to the last message of the log, which is not counted.
Refreshes(h, i) ==
  {i} \cup {j \in Of(h, Key(h[i].message), {"request"}) : i < j /\ j < Len(h)}

\* The last message of log h is an ACK, and it completes a handshake: there is
\* a DISCOVER and a later REQUEST of the same client and transaction, the
\* transaction was neither opened again nor refused nor already acknowledged
\* since, and was never silent for TTL.
HandshakeFrom(h, i) ==
  LET n == Len(h)
      k == Key(h[n].message)
      refreshes == Refreshes(h, i)
      requests  == refreshes \ {i}
  IN  /\ h[n].message.type = "ack"
      /\ i \in Of(h, k, {"discover"})
      /\ requests # {}
      /\ \A j \in Of(h, k, {"discover", "nak"}) : j <= i
      /\ \A j \in Of(h, k, {"ack"}) : j = n \/ \A r \in requests : j < r
      /\ \A j \in (i + 1) .. n : \E r \in refreshes : r < j /\ h[j].at < h[r].at + TTL

\* A device is announced when, and only when, its handshake is complete: no
\* renewal, no acknowledgement that comes late, twice or after a refusal, and
\* no other client's message announces it, and no handshake goes unannounced.
\* (Observe, removeExpired, transactionKey)
ConnectedIffHandshake ==
  [][Observing =>
       ((outgoing' # {}) <=> \E i \in DOMAIN log' : HandshakeFrom(log', i))]_<<vars, log>>

\* The last message among a set of them that says something of a host name.
LastHostname(h, is) ==
  LET named == {i \in is : h[i].message.hostname # Absent} IN
  IF named = {} THEN Absent
  ELSE h[CHOOSE i \in named : \A j \in named : j <= i].message.hostname

LastRequested(h, requests) ==
  h[CHOOSE i \in requests : \A j \in requests : j <= i].message.requestedIP

\* An announcement says what its own handshake said: the acknowledged address,
\* or the one requested last, and the last host name given; nothing of it comes
\* from an earlier transaction.  (Observe, connectedEvent)
EventIsOfItsHandshake ==
  [][Observing =>
       \A e \in outgoing', i \in DOMAIN log' :
         HandshakeFrom(log', i) =>
           LET m == log'[Len(log')].message IN
           /\ e.ip = IF m.yourIP # Absent THEN m.yourIP
                     ELSE LastRequested(log', Refreshes(log', i) \ {i})
           /\ e.hostname = LastHostname(log', Refreshes(log', i))]_<<vars, log>>
-----------------------------------------------------------------------------
(***************************************************************************)
(* Why ConnectedIffHandshake holds.                                        *)
(***************************************************************************)

\* The signs of life of the transaction that message i opened.
Requests(h, i) == {j \in Of(h, Key(h[i].message), {"request"}) : i < j}
Alive(h, i)    == {i} \cup Requests(h, i)

\* Message i has opened the transaction k, and nothing in h has ended it.
OpenFrom(h, k, i) ==
  /\ i \in Of(h, k, {"discover"})
  /\ \A j \in Of(h, k, {"discover", "nak"}) : j <= i
  /\ \A j \in Of(h, k, {"ack"}), r \in Requests(h, i) : j < r
  /\ \A j \in (i + 1) .. Len(h) : \E r \in Alive(h, i) : r < j /\ h[j].at < h[r].at + TTL

\* What the table says of transaction k is what the log h says.
Agrees(table, h, k) ==
  /\ k \in DOMAIN table <=> \E i \in DOMAIN h : OpenFrom(h, k, i)
  /\ \A i \in DOMAIN h : OpenFrom(h, k, i) =>
       /\ table[k].requested <=> Requests(h, i) # {}
       /\ \E r \in Alive(h, i) : table[k].expiresAt = h[r].at + TTL
       /\ \A r \in Alive(h, i) : h[r].at + TTL <= table[k].expiresAt

\* The tracker's table holds the transactions that the log shows to be open and no
\* other, each with its last sign of life, and knows whether it has been requested.
\* (Observe, removeExpired)
TableFollowsLog == \A k \in Keys : Agrees(transactions, log, k)
=============================================================================
