---------------------------- MODULE DhcpCollector ----------------------------
(***************************************************************************)
(* The DHCP collector (internal/collector/dhcp): the loop of               *)
(* PacketCollector.Start, which reads the frames that the socket filter    *)
(* lets through, and Tracker, which correlates the messages of one         *)
(* transaction and announces a device when its handshake is complete.      *)
(*                                                                         *)
(* The frames of the model are those ParseFrame accepts: the loop skips    *)
(* the others before it looks at the clock or at the transactions.  A      *)
(* transaction's discovered flag is TRUE in every entry of the map, and is *)
(* left out.  Absent is the empty IP address, and the empty host name.     *)
(***************************************************************************)
EXTENDS Integers, Sequences, Functions

CONSTANTS
  ClientMACs,      \* Message.ClientMAC
  Transactions,    \* Message.Transaction
  IPs,             \* addresses offered and requested
  Hostnames,
  Absent,
  TTL,             \* defaultTransactionTTL (2min)
  SocketCapacity,  \* frames the packet socket can hold
  MaxTime          \* bound: the clock stops here

ASSUME DhcpAssumption ==
  /\ Absent \notin IPs \cup Hostnames
  /\ TTL \in Nat \ {0}
  /\ SocketCapacity \in Nat \ {0}
  /\ MaxTime \in Nat

VARIABLES
  clock,         \* time.Now()
  ctxDone,       \* ctx has been cancelled
  socket,        \* frames in the packet socket
  transactions,  \* Tracker.transactions
  pc,            \* where the loop is
  outgoing       \* the event the loop is emitting

vars == <<clock, ctxDone, socket, transactions, pc, outgoing>>

IP       == IPs \cup {Absent}
Hostname == Hostnames \cup {Absent}

\* OFFER, DECLINE, RELEASE, INFORM and unknown types are all "other".
Type == {"discover", "request", "ack", "nak", "other"}

Message ==
  [type : Type, transaction : Transactions, clientMAC : ClientMACs,
   yourIP : IP, requestedIP : IP, hostname : Hostname]

\* The fields of a message that the tracker reads, by type: only those vary.
Sent ==
  {m \in Message :
     /\ m.type # "ack" => m.yourIP = Absent
     /\ m.type # "request" => m.requestedIP = Absent
     /\ m.type \notin {"discover", "request"} => m.hostname = Absent}

Transaction == [requested : BOOLEAN, expiresAt : Nat, requestedIP : IP, hostname : Hostname]
Connected   == [mac : ClientMACs, transaction : Transactions, ip : IP, hostname : Hostname]

\* transactionKey.
Key(m) == <<m.transaction, m.clientMAC>>

Keys == Transactions \X ClientMACs

TypeOK ==
  /\ clock \in Nat
  /\ ctxDone \in BOOLEAN
  /\ socket \in Seq(Message)
  /\ DOMAIN transactions \subseteq Keys
  /\ transactions \in [DOMAIN transactions -> Transaction]
  /\ pc \in {"read", "emit", "returned nil", "returned error"}
  /\ outgoing \in SUBSET Connected

Init ==
  /\ clock = 0
  /\ ctxDone = FALSE
  /\ socket = <<>>
  /\ transactions = [k \in {} |-> Absent]
  /\ pc = "read"
  /\ outgoing = {}
-----------------------------------------------------------------------------
(***************************************************************************)
(* The tracker.                                                            *)
(***************************************************************************)

\* Mutant: an entry survives the instant at which it expires.
UnexpiredAtTheInstant(now) ==
  Restrict(transactions, {k \in DOMAIN transactions : transactions[k].expiresAt >= now})

\* removeExpired: every message clears the transactions whose time is over.
Unexpired(now) ==
  Restrict(transactions, {k \in DOMAIN transactions : transactions[k].expiresAt > now})

Without(table, k) == Restrict(table, DOMAIN table \ {k})

With(table, k, t) ==
  [j \in DOMAIN table \cup {k} |-> IF j = k THEN t ELSE table[j]]

\* Mutant: the expiry of a new entry is left at the zero time.
DiscoverWithoutExpiry(table, m) ==
  With(table, Key(m), [requested |-> FALSE, expiresAt |-> -1,
                       requestedIP |-> Absent, hostname |-> m.hostname])

\* Mutant: a DISCOVER that is repeated only prolongs its transaction.
DiscoverProlongs(table, m) ==
  With(table, Key(m), [requested |-> Key(m) \in DOMAIN table /\ table[Key(m)].requested,
                       expiresAt |-> clock + TTL,
                       requestedIP |-> Absent, hostname |-> m.hostname])

\* A DISCOVER opens a transaction afresh, whatever was known of it.
Discover(table, m) ==
  With(table, Key(m), [requested |-> FALSE, expiresAt |-> clock + TTL,
                       requestedIP |-> Absent, hostname |-> m.hostname])

\* Mutant: every field of the entry is overwritten.
RequestOverwritesHostname(table, m) ==
  IF Key(m) \in DOMAIN table
  THEN [table EXCEPT ![Key(m)] =
          [requested |-> TRUE, expiresAt |-> clock + TTL,
           requestedIP |-> m.requestedIP, hostname |-> m.hostname]]
  ELSE table

\* A REQUEST belongs to an open transaction, and prolongs it; that of a lease
\* renewal belongs to none.
Request(table, m) ==
  IF Key(m) \in DOMAIN table
  THEN [table EXCEPT ![Key(m)] =
          [requested   |-> TRUE,
           expiresAt   |-> clock + TTL,
           requestedIP |-> m.requestedIP,
           hostname    |-> IF m.hostname # Absent THEN m.hostname ELSE @.hostname]]
  ELSE table

Completes(table, m) ==
  m.type = "ack" /\ Key(m) \in DOMAIN table /\ table[Key(m)].requested

ConnectedEvent(table, m) ==
  LET current == table[Key(m)] IN
  [mac         |-> m.clientMAC,
   transaction |-> m.transaction,
   ip          |-> IF m.yourIP # Absent THEN m.yourIP ELSE current.requestedIP,
   hostname    |-> current.hostname]

\* Tracker.Observe: the transactions afterwards.  A premature ACK is ignored.
Afterwards(table, m) ==
  CASE m.type = "discover"                    -> Discover(table, m)
    [] m.type = "request"                     -> Request(table, m)
    [] m.type = "nak" \/ Completes(table, m)  -> Without(table, Key(m))
    [] OTHER                                  -> table
-----------------------------------------------------------------------------
(***************************************************************************)
(* The environment and the loop.                                           *)
(***************************************************************************)

Tick ==
  /\ clock < MaxTime
  /\ clock' = clock + 1
  /\ UNCHANGED <<ctxDone, socket, transactions, pc, outgoing>>

Cancel ==
  /\ ~ctxDone
  /\ ctxDone' = TRUE
  /\ UNCHANGED <<clock, socket, transactions, pc, outgoing>>

\* A full packet socket drops the frame, which is as if it had not been sent.
FrameArrives(m) ==
  /\ Len(socket) < SocketCapacity
  /\ socket' = Append(socket, m)
  /\ UNCHANGED <<clock, ctxDone, transactions, pc, outgoing>>

\* The context is not looked at when a frame is there.
ReadFrame ==
  /\ pc = "read"
  /\ socket # <<>>
  /\ socket' = Tail(socket)
  /\ LET m     == Head(socket)
         table == Unexpired(clock)
     IN /\ transactions' = Afterwards(table, m)
        /\ IF Completes(table, m)
           THEN pc' = "emit" /\ outgoing' = {ConnectedEvent(table, m)}
           ELSE UNCHANGED <<pc, outgoing>>
  /\ UNCHANGED <<clock, ctxDone>>

\* Mutant: a timeout goes straight back to the read.
AfterTimeoutReadAgain == "read"

\* The context is looked at only when a read has failed.
AfterTimeout == IF ctxDone THEN "returned nil" ELSE "read"

\* A timeout or an interruption: the read found no frame.
ReadNothing ==
  /\ pc = "read"
  /\ socket = <<>>
  /\ pc' = AfterTimeout
  /\ UNCHANGED <<clock, ctxDone, socket, transactions, outgoing>>

ReadFails ==
  /\ pc = "read"
  /\ pc' = IF ctxDone THEN "returned nil" ELSE "returned error"
  /\ UNCHANGED <<clock, ctxDone, socket, transactions, outgoing>>

EmitAccepted ==
  /\ pc = "emit"
  /\ pc' = "read"
  /\ outgoing' = {}
  /\ UNCHANGED <<clock, ctxDone, socket, transactions>>

EmitCanceled ==
  /\ pc = "emit"
  /\ ctxDone
  /\ pc' = "returned nil"
  /\ outgoing' = {}
  /\ UNCHANGED <<clock, ctxDone, socket, transactions>>

Terminated ==
  /\ pc \in {"returned nil", "returned error"}
  /\ UNCHANGED vars

Next ==
  \/ Tick
  \/ Cancel
  \/ \E m \in Sent : FrameArrives(m)
  \/ ReadFrame
  \/ ReadNothing
  \/ ReadFails
  \/ EmitAccepted
  \/ EmitCanceled
  \/ Terminated

Spec == Init /\ [][Next]_vars
=============================================================================
