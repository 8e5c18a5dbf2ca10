----------------------------- MODULE DhcpProofs -----------------------------
(***************************************************************************)
(* The DHCP collector announces a device exactly at the end of a complete  *)
(* handshake, and says of it what that handshake said, for any number of   *)
(* clients and transactions, any expiry and any schedule.                  *)
(***************************************************************************)
EXTENDS DhcpSafety, SequenceTheorems, TLAPS

-----------------------------------------------------------------------------
(***************************************************************************)
(* Types.                                                                  *)
(***************************************************************************)

\* What the log is, and where the loop is while it has something to emit.
Entry == [message : Message, at : Nat]

LogOK ==
  /\ log \in Seq(Entry)
  /\ \A i \in 1 .. Len(log) : log[i].at <= clock
  /\ outgoing # {} <=> pc = "emit"

\* What an observation leaves in the table are transactions.
LEMMA AfterwardsType ==
  ASSUME TypeOK, NEW m \in Message, NEW table, DOMAIN table \subseteq Keys,
         table \in [DOMAIN table -> Transaction]
  PROVE  /\ DOMAIN Afterwards(table, m) \subseteq Keys
         /\ Afterwards(table, m) \in [DOMAIN Afterwards(table, m) -> Transaction]
  <1>1. /\ Key(m) \in Keys
        /\ m.requestedIP \in IP /\ m.hostname \in Hostname
        /\ Absent \in IP
    BY DEF Key, Keys, Message, IP
  <1>2. clock + TTL \in Nat
    <2>1. clock \in Nat
      BY DEF TypeOK
    <2>2. TTL \in Nat
      BY DhcpAssumption
    <2> QED BY <2>1, <2>2
  <1>3. CASE m.type = "discover"
    <2>1. Afterwards(table, m) = Discover(table, m)
      BY <1>3 DEF Afterwards, Completes
    <2> QED BY <1>1, <1>2, <2>1 DEF Discover, With, Transaction
  <1>4. CASE m.type = "request"
    <2>1. Afterwards(table, m) = Request(table, m)
      BY <1>4 DEF Afterwards, Completes
    <2> QED BY <1>1, <1>2, <2>1 DEF Request, Transaction
  <1>5. CASE m.type = "nak" \/ Completes(table, m)
    <2>1. Afterwards(table, m) = Without(table, Key(m))
      BY <1>5 DEF Afterwards, Completes
    <2> QED BY <2>1 DEF Without, Restrict
  <1>6. CASE m.type \notin {"discover", "request", "nak"} /\ ~Completes(table, m)
    BY <1>6 DEF Afterwards
  <1> QED BY <1>3, <1>4, <1>5, <1>6

LEMMA TypeStep == TypeOK /\ [LoggedNext]_<<vars, log>> => TypeOK'
  <1> SUFFICES ASSUME TypeOK, LoggedNext
               PROVE  TypeOK'
    BY DEF TypeOK, vars
  <1>1. CASE Tick \/ Cancel \/ ReadNothing \/ ReadFails \/ EmitAccepted
             \/ EmitCanceled \/ Terminated
    <2>1. UNCHANGED <<socket, transactions>>
      BY <1>1 DEF Tick, Cancel, ReadNothing, ReadFails, EmitAccepted, EmitCanceled,
                  Terminated, vars
    <2>0. clock \in Nat /\ ctxDone \in BOOLEAN
      BY DEF TypeOK
    <2>2. /\ clock' = clock \/ clock' = clock + 1
          /\ ctxDone' = ctxDone \/ ctxDone' = TRUE
      BY <1>1 DEF Tick, Cancel, ReadNothing, ReadFails, EmitAccepted, EmitCanceled,
                  Terminated, vars
    <2>4. clock' \in Nat
      BY <2>0, <2>2
    <2>5. ctxDone' \in BOOLEAN
      BY <2>0, <2>2
    <2>3. /\ pc' \in {"read", "emit", "returned nil", "returned error"}
          /\ outgoing' \in SUBSET Connected
      BY <1>1 DEF Tick, Cancel, ReadNothing, AfterTimeout, ReadFails, EmitAccepted,
                  EmitCanceled, Terminated, vars, TypeOK
    <2> QED BY <2>1, <2>3, <2>4, <2>5 DEF TypeOK
  <1>2. ASSUME NEW m \in Sent, FrameArrives(m)
        PROVE  TypeOK'
    BY <1>2, AppendProperties DEF TypeOK, FrameArrives, Sent
  <1>3. CASE ReadFrame
    <2> DEFINE m == Head(socket)
               table == Unexpired(clock)
    <2>1. m \in Message /\ Tail(socket) \in Seq(Message)
      BY <1>3, HeadTailProperties DEF ReadFrame, TypeOK
    <2>2. DOMAIN table \subseteq Keys /\ table \in [DOMAIN table -> Transaction]
      BY DEF Unexpired, Restrict, TypeOK
    <2>3. transactions' = Afterwards(table, m)
      BY <1>3 DEF ReadFrame
    <2>4. /\ DOMAIN transactions' \subseteq Keys
          /\ transactions' \in [DOMAIN transactions' -> Transaction]
      <3> HIDE DEF m, table
      <3> QED BY <2>1, <2>2, <2>3, AfterwardsType
    <2>5. outgoing' \in SUBSET Connected
      <3>1. CASE Completes(table, m)
        <4>1. table[Key(m)] \in Transaction
          BY <2>2, <3>1 DEF Completes
        <4>2. ConnectedEvent(table, m) \in Connected
          <5> HIDE DEF m, table
          <5> QED BY <2>1, <4>1 DEF ConnectedEvent, Connected, Transaction, Message, IP
        <4> QED BY <1>3, <3>1, <4>2 DEF ReadFrame
      <3>2. CASE ~Completes(table, m)
        BY <1>3, <3>2 DEF ReadFrame, TypeOK
      <3> QED BY <3>1, <3>2
    <2> QED BY <1>3, <2>1, <2>4, <2>5 DEF ReadFrame, TypeOK
  <1> QED BY <1>1, <1>2, <1>3 DEF LoggedNext, Next

\* The collector's variables keep their types; in particular every transaction has a
\* time at which it expires.
THEOREM DhcpTypeCorrect == LoggedSpec => []TypeOK
  <1>1. Init => TypeOK
    <2> SUFFICES ASSUME Init
                 PROVE  TypeOK
      OBVIOUS
    <2>1. <<>> \in Seq(Message)
      BY EmptySeq
    <2>2. DOMAIN transactions = {} /\ transactions \in [DOMAIN transactions -> Transaction]
      BY DEF Init
    <2> QED BY <2>1, <2>2 DEF Init, TypeOK
  <1> QED BY <1>1, TypeStep, PTL DEF LoggedSpec
-----------------------------------------------------------------------------
(***************************************************************************)
(* A message is observed by ReadFrame and by no other step.                *)
(***************************************************************************)

LEMMA OnlyReadFrameObserves ==
  ASSUME TypeOK, LogOK, [LoggedNext]_<<vars, log>>
  PROVE  \/ /\ ReadFrame /\ Observing
            /\ log' = Append(log, [message |-> Head(socket), at |-> clock])
         \/ /\ ~Observing
            /\ UNCHANGED <<transactions, log>>
            /\ outgoing' # {} <=> pc' = "emit"
            /\ clock' \in {clock, clock + 1}
  <1>0. socket \in Seq(Message) /\ Len(socket) \in Nat
        /\ (socket # <<>> => Len(Tail(socket)) = Len(socket) - 1)
    BY LenProperties, HeadTailProperties, EmptySeq DEF TypeOK
  <1>1. CASE UNCHANGED <<vars, log>>
    BY <1>0, <1>1 DEF vars, Observing, LogOK
  <1>2. CASE LoggedNext /\ ReadFrame
    BY <1>2 DEF LoggedNext, ReadFrame, Observing
  <1>3. CASE LoggedNext /\ (Tick \/ Cancel \/ ReadNothing \/ ReadFails \/ EmitAccepted
                            \/ EmitCanceled \/ Terminated)
    <2>1. UNCHANGED <<socket, transactions>>
      BY <1>3 DEF Tick, Cancel, ReadNothing, ReadFails, EmitAccepted, EmitCanceled,
                  Terminated, vars
    <2>2. ~Observing
      BY <1>0, <2>1 DEF Observing
    <2>3. clock' \in {clock, clock + 1} /\ (outgoing' # {} <=> pc' = "emit")
      BY <1>3 DEF Tick, Cancel, ReadNothing, AfterTimeout, ReadFails, EmitAccepted,
                  EmitCanceled, Terminated, vars, LogOK
    <2> QED BY <1>3, <2>1, <2>2, <2>3 DEF LoggedNext
  <1>4. ASSUME LoggedNext, NEW m \in Sent, FrameArrives(m)
        PROVE  /\ ~Observing
               /\ UNCHANGED <<transactions, log, clock, outgoing, pc>>
    <2>1. Len(socket') = Len(socket) + 1
      BY <1>0, <1>4, AppendProperties DEF FrameArrives, Sent
    <2>2. ~Observing
      BY <1>0, <2>1 DEF Observing
    <2> QED BY <1>4, <2>2 DEF LoggedNext, FrameArrives
  <1> QED BY <1>1, <1>2, <1>3, <1>4 DEF LoggedNext, Next, LogOK

LEMMA LogStep ==
  ASSUME TypeOK, LogOK, [LoggedNext]_<<vars, log>>
  PROVE  LogOK'
  <1>0. log \in Seq(Entry) /\ Len(log) \in Nat /\ clock \in Nat
    BY LenProperties DEF LogOK, TypeOK
  <1>1. CASE /\ ReadFrame /\ Observing
             /\ log' = Append(log, [message |-> Head(socket), at |-> clock])
    <2> DEFINE x == [message |-> Head(socket), at |-> clock]
    <2>1. x \in Entry /\ x.at = clock
      BY <1>0, <1>1, HeadTailProperties DEF Entry, ReadFrame, TypeOK
    <2>2. log' = Append(log, x)
      BY <1>1
    <2> HIDE DEF x
    <2>3. /\ log' \in Seq(Entry) /\ Len(log') = Len(log) + 1
          /\ \A i \in 1 .. Len(log) : log'[i] = log[i]
          /\ log'[Len(log) + 1] = x
      BY <1>0, <2>1, <2>2, AppendProperties
    <2>4. clock' = clock
      BY <1>1 DEF ReadFrame
    <2>5. \A i \in 1 .. Len(log') : log'[i].at <= clock'
      BY <1>0, <2>1, <2>3, <2>4 DEF LogOK
    <2>6. outgoing' # {} <=> pc' = "emit"
      <3>1. pc = "read" /\ outgoing = {}
        BY <1>1 DEF ReadFrame, LogOK
      <3>2. CASE pc' = "emit" /\ outgoing' = {ConnectedEvent(Unexpired(clock), Head(socket))}
        BY <3>2
      <3>3. CASE UNCHANGED <<pc, outgoing>>
        BY <3>1, <3>3
      <3> QED BY <1>1, <3>2, <3>3 DEF ReadFrame
    <2> QED BY <2>3, <2>5, <2>6 DEF LogOK
  <1>2. CASE /\ UNCHANGED log
             /\ outgoing' # {} <=> pc' = "emit"
             /\ clock' \in {clock, clock + 1}
    <2>1. \A i \in 1 .. Len(log) : log[i] \in Entry
      BY <1>0, ElementOfSeq
    <2> QED BY <1>0, <1>2, <2>1 DEF LogOK, Entry
  <1> QED BY <1>1, <1>2, OnlyReadFrameObserves
-----------------------------------------------------------------------------
(***************************************************************************)
(* What one more message changes in the log.                               *)
(***************************************************************************)

LEMMA Appended ==
  ASSUME NEW h \in Seq(Entry), NEW x \in Entry
  PROVE  /\ Append(h, x) \in Seq(Entry)
         /\ Len(h) \in Nat /\ Len(Append(h, x)) = Len(h) + 1
         /\ DOMAIN h = 1 .. Len(h) /\ DOMAIN Append(h, x) = 1 .. Len(h) + 1
         /\ \A i \in 1 .. Len(h) : Append(h, x)[i] = h[i] /\ h[i] \in Entry
         /\ Append(h, x)[Len(h) + 1] = x
  BY AppendProperties, LenProperties, ElementOfSeq

LEMMA OfAppended ==
  ASSUME NEW h \in Seq(Entry), NEW x \in Entry, NEW k, NEW types
  PROVE  /\ Of(h, k, types) \subseteq 1 .. Len(h)
         /\ Of(Append(h, x), k, types) =
              Of(h, k, types) \cup
                (IF x.message.type \in types /\ Key(x.message) = k THEN {Len(h) + 1} ELSE {})
  <1>1. Of(h, k, types) \subseteq 1 .. Len(h)
    BY Appended DEF Of
  <1>2. \A j \in 1 .. Len(h) : j \in Of(Append(h, x), k, types) <=> j \in Of(h, k, types)
    BY Appended DEF Of
  <1>3. Len(h) + 1 \in Of(Append(h, x), k, types)
          <=> x.message.type \in types /\ Key(x.message) = k
    BY Appended DEF Of
  <1>4. Of(Append(h, x), k, types) \subseteq 1 .. Len(h) + 1
    BY Appended DEF Of
  <1>5. Len(h) \in Nat
    BY Appended
  <1> QED BY <1>1, <1>2, <1>3, <1>4, <1>5

LEMMA RequestsAppended ==
  ASSUME NEW h \in Seq(Entry), NEW x \in Entry
  PROVE  /\ \A i \in 1 .. Len(h) :
              /\ Requests(h, i) \subseteq (i + 1) .. Len(h)
              /\ Requests(Append(h, x), i) =
                   Requests(h, i) \cup
                     (IF x.message.type = "request" /\ Key(x.message) = Key(h[i].message)
                      THEN {Len(h) + 1} ELSE {})
         /\ Requests(Append(h, x), Len(h) + 1) = {}
  <1>0. Len(h) \in Nat
    BY Appended
  <1>1. ASSUME NEW i \in 1 .. Len(h)
        PROVE  /\ Requests(h, i) \subseteq (i + 1) .. Len(h)
               /\ Requests(Append(h, x), i) =
                    Requests(h, i) \cup
                      (IF x.message.type = "request" /\ Key(x.message) = Key(h[i].message)
                       THEN {Len(h) + 1} ELSE {})
    <2> DEFINE k == Key(h[i].message)
    <2>1. Append(h, x)[i] = h[i]
      BY Appended
    <2>2. /\ Requests(h, i) = {j \in Of(h, k, {"request"}) : i < j}
          /\ Requests(Append(h, x), i) = {j \in Of(Append(h, x), k, {"request"}) : i < j}
      BY <2>1 DEF Requests
    <2> HIDE DEF k
    <2>3. /\ Of(h, k, {"request"}) \subseteq 1 .. Len(h)
          /\ Of(Append(h, x), k, {"request"}) =
               Of(h, k, {"request"}) \cup
                 (IF x.message.type = "request" /\ Key(x.message) = k
                  THEN {Len(h) + 1} ELSE {})
      BY OfAppended
    <2> QED BY <1>0, <2>2, <2>3 DEF k
  <1>2. Requests(Append(h, x), Len(h) + 1) = {}
    <2>1. \A k : Of(Append(h, x), k, {"request"}) \subseteq 1 .. Len(h) + 1
      BY Appended DEF Of
    <2> QED BY <1>0, <2>1 DEF Requests
  <1> QED BY <1>1, <1>2

\* Some sign of life of the transaction that message i opened is less than TTL old.
Lively(h, i, now) == \E r \in Alive(h, i) : now < h[r].at + TTL

\* A transaction stays open unless it has expired, is opened again, is refused, or is
\* acknowledged after a request.
LEMMA OpenAppended ==
  ASSUME NEW h \in Seq(Entry), NEW x \in Entry, NEW k, NEW i \in 1 .. Len(h)
  PROVE  OpenFrom(Append(h, x), k, i) <=>
           /\ OpenFrom(h, k, i)
           /\ Lively(h, i, x.at)
           /\ ~(Key(x.message) = k /\ x.message.type \in {"discover", "nak"})
           /\ ~(Key(x.message) = k /\ x.message.type = "ack" /\ Requests(h, i) # {})
  <1> DEFINE g == Append(h, x)
             n == Len(h)
             new == n + 1
  <1>0. /\ n \in Nat /\ Len(g) = n + 1 /\ g[new] = x
        /\ \A j \in 1 .. n : g[j] = h[j] /\ h[j] \in Entry
    BY Appended
  <1>1. /\ Requests(h, i) \subseteq (i + 1) .. n
        /\ Requests(h, i) \subseteq Requests(g, i)
        /\ Requests(g, i) \subseteq Requests(h, i) \cup {new}
    BY RequestsAppended
  <1>6. x.message.type # "request" => Requests(g, i) = Requests(h, i)
    <2>1. Requests(g, i) = Requests(h, i) \cup
            (IF x.message.type = "request" /\ Key(x.message) = Key(h[i].message)
             THEN {new} ELSE {})
      BY RequestsAppended
    <2> HIDE DEF g
    <2> QED BY <2>1
  <1>2. i \in Of(g, k, {"discover"}) <=> i \in Of(h, k, {"discover"})
    BY <1>0, OfAppended
  <1>3. (\A j \in Of(g, k, {"discover", "nak"}) : j <= i) <=>
          /\ \A j \in Of(h, k, {"discover", "nak"}) : j <= i
          /\ ~(Key(x.message) = k /\ x.message.type \in {"discover", "nak"})
    <2>1. Of(g, k, {"discover", "nak"}) =
            Of(h, k, {"discover", "nak"}) \cup
              (IF x.message.type \in {"discover", "nak"} /\ Key(x.message) = k
               THEN {new} ELSE {})
      BY OfAppended
    <2>2. Of(h, k, {"discover", "nak"}) \subseteq 1 .. n
      BY OfAppended
    <2> HIDE DEF g, n
    <2>3. i < new /\ i \in Int /\ new \in Int
      BY <1>0 DEF n
    <2>4. CASE Key(x.message) = k /\ x.message.type \in {"discover", "nak"}
      <3>1. new \in Of(g, k, {"discover", "nak"})
        BY <2>1, <2>4
      <3> QED BY <2>3, <2>4, <3>1
    <2>5. CASE ~(Key(x.message) = k /\ x.message.type \in {"discover", "nak"})
      <3>1. Of(g, k, {"discover", "nak"}) = Of(h, k, {"discover", "nak"})
        BY <2>1, <2>5
      <3> QED BY <2>5, <3>1
    <2> QED BY <2>4, <2>5
  <1>4. (\A j \in Of(g, k, {"ack"}), r \in Requests(g, i) : j < r) <=>
          /\ \A j \in Of(h, k, {"ack"}), r \in Requests(h, i) : j < r
          /\ ~(Key(x.message) = k /\ x.message.type = "ack" /\ Requests(h, i) # {})
    <2>1. /\ Of(h, k, {"ack"}) \subseteq 1 .. n
          /\ Of(g, k, {"ack"}) =
               Of(h, k, {"ack"}) \cup
                 (IF x.message.type = "ack" /\ Key(x.message) = k THEN {new} ELSE {})
      BY OfAppended
    <2> HIDE DEF g
    <2>2. x.message.type = "ack" => Requests(g, i) = Requests(h, i)
      BY <1>6
    <2>3. CASE x.message.type = "ack" /\ Key(x.message) = k
      BY <1>0, <1>1, <2>1, <2>2, <2>3
    <2>4. CASE ~(x.message.type = "ack" /\ Key(x.message) = k)
      BY <1>0, <1>1, <2>1, <2>4
    <2> QED BY <2>3, <2>4
  <1>5. (\A j \in (i + 1) .. Len(g) :
           \E r \in Alive(g, i) : r < j /\ g[j].at < g[r].at + TTL) <=>
          /\ \A j \in (i + 1) .. n : \E r \in Alive(h, i) : r < j /\ h[j].at < h[r].at + TTL
          /\ Lively(h, i, x.at)
    <2> HIDE DEF g, n
    <2>1. /\ Alive(h, i) \subseteq 1 .. n
          /\ Alive(h, i) \subseteq Alive(g, i)
          /\ Alive(g, i) \subseteq Alive(h, i) \cup {new}
      BY <1>0, <1>1 DEF Alive, n
    <2>2. \A j \in (i + 1) .. n :
            (\E r \in Alive(g, i) : r < j /\ g[j].at < g[r].at + TTL) <=>
            (\E r \in Alive(h, i) : r < j /\ h[j].at < h[r].at + TTL)
      BY <1>0, <2>1 DEF n
    <2>3. (\E r \in Alive(g, i) : r < new /\ g[new].at < g[r].at + TTL) <=>
            Lively(h, i, x.at)
      BY <1>0, <2>1 DEF Lively
    <2>4. (i + 1) .. Len(g) = ((i + 1) .. n) \cup {new}
      BY <1>0 DEF n
    <2> QED BY <2>2, <2>3, <2>4
  <1> HIDE DEF g
  <1> QED BY <1>2, <1>3, <1>4, <1>5 DEF OpenFrom, g

\* A DISCOVER, and no other message, opens a transaction.
LEMMA OpenNew ==
  ASSUME NEW h \in Seq(Entry), NEW x \in Entry, NEW k
  PROVE  OpenFrom(Append(h, x), k, Len(h) + 1) <=>
           x.message.type = "discover" /\ Key(x.message) = k
  <1> DEFINE g == Append(h, x)
             new == Len(h) + 1
  <1>1. Len(g) = new /\ new \in Nat
    BY Appended
  <1>2. Requests(g, new) = {}
    BY RequestsAppended
  <1>3. new \in Of(g, k, {"discover"}) <=> x.message.type = "discover" /\ Key(x.message) = k
    BY <1>1, OfAppended
  <1>4. \A j \in Of(g, k, {"discover", "nak"}) : j <= new
    <2>1. Of(g, k, {"discover", "nak"}) \subseteq 1 .. new
      BY Appended DEF Of
    <2> QED BY <1>1, <2>1
  <1>5. (new + 1) .. Len(g) = {}
    BY <1>1
  <1> HIDE DEF g, new
  <1>6. OpenFrom(g, k, new) <=> x.message.type = "discover" /\ Key(x.message) = k
    BY <1>2, <1>3, <1>4, <1>5 DEF OpenFrom
  <1> QED BY <1>6 DEF g, new

\* An ACK changes nothing in what has kept a transaction alive.
LEMMA RefreshesAppended ==
  ASSUME NEW h \in Seq(Entry), NEW x \in Entry, NEW i \in 1 .. Len(h)
  PROVE  x.message.type = "ack" =>
           /\ Refreshes(Append(h, x), i) = Alive(h, i)
           /\ Refreshes(Append(h, x), i) \ {i} = Requests(h, i)
           /\ Alive(h, i) \subseteq 1 .. Len(h)
  <1> DEFINE g == Append(h, x)
             n == Len(h)
  <1>1. n \in Nat /\ Len(g) = n + 1
    BY Appended
  <1>2. Requests(h, i) \subseteq (i + 1) .. n
    BY RequestsAppended
  <1>3. Requests(g, i) = {j \in Of(g, Key(g[i].message), {"request"}) : i < j}
    BY DEF Requests
  <1>4. Refreshes(g, i) =
          {i} \cup {j \in Of(g, Key(g[i].message), {"request"}) : i < j /\ j < n + 1}
    BY <1>1 DEF Refreshes
  <1>5. x.message.type = "ack" => Requests(g, i) = Requests(h, i)
    <2>1. Requests(g, i) = Requests(h, i) \cup
            (IF x.message.type = "request" /\ Key(x.message) = Key(h[i].message)
             THEN {Len(h) + 1} ELSE {})
      BY RequestsAppended
    <2> HIDE DEF g, n
    <2> QED BY <2>1
  <1> HIDE DEF g
  <1>6. i \in 1 .. n
    OBVIOUS
  <1> HIDE DEF n
  <1>7. x.message.type = "ack" => Refreshes(g, i) = {i} \cup Requests(h, i)
    BY <1>1, <1>2, <1>3, <1>4, <1>5, <1>6
  <1>8. x.message.type = "ack" =>
          Refreshes(g, i) = Alive(h, i) /\ Refreshes(g, i) \ {i} = Requests(h, i)
    BY <1>1, <1>2, <1>6, <1>7 DEF Alive
  <1>9. Alive(h, i) \subseteq 1 .. n
    BY <1>1, <1>2, <1>6 DEF Alive
  <1> QED BY <1>8, <1>9 DEF g, n

\* A handshake is complete when an open transaction that was requested, and has not
\* expired, is acknowledged.
LEMMA HandshakeAppended ==
  ASSUME NEW h \in Seq(Entry), NEW x \in Entry, NEW i \in 1 .. Len(h) + 1
  PROVE  HandshakeFrom(Append(h, x), i) <=>
           /\ i \in 1 .. Len(h)
           /\ x.message.type = "ack"
           /\ OpenFrom(h, Key(x.message), i)
           /\ Lively(h, i, x.at)
           /\ Requests(h, i) # {}
  <1> DEFINE g == Append(h, x)
             n == Len(h)
             k == Key(x.message)
             requests == Refreshes(g, i) \ {i}
  <1>0. /\ n \in Nat /\ Len(g) = n + 1 /\ g[n + 1] = x
        /\ \A j \in 1 .. n : g[j] = h[j] /\ h[j] \in Entry
    BY Appended
  <1>1. CASE x.message.type # "ack" \/ i = n + 1
    <2>1. ~HandshakeFrom(g, i)
      <3>1. CASE x.message.type # "ack"
        BY <1>0, <3>1 DEF HandshakeFrom
      <3>2. CASE i = n + 1 /\ x.message.type = "ack"
        <4>1. i \notin Of(g, k, {"discover"})
          BY <1>0, <3>2 DEF Of
        <4> QED BY <1>0, <4>1 DEF HandshakeFrom
      <3> QED BY <1>1, <3>1, <3>2
    <2> QED BY <1>0, <1>1, <2>1
  <1>2. CASE x.message.type = "ack" /\ i \in 1 .. n
    <2>1. i \in 1 .. Len(h)
      BY <1>2
    <2>2. /\ Refreshes(g, i) = Alive(h, i) /\ requests = Requests(h, i)
          /\ Alive(h, i) \subseteq 1 .. Len(h)
      BY <1>2, <2>1, RefreshesAppended
    <2>4. /\ Of(g, k, {"discover"}) = Of(h, k, {"discover"})
          /\ Of(g, k, {"discover", "nak"}) = Of(h, k, {"discover", "nak"})
          /\ Of(g, k, {"ack"}) = Of(h, k, {"ack"}) \cup {n + 1}
          /\ Of(h, k, {"ack"}) \subseteq 1 .. n
      <3>1. /\ Of(g, k, {"discover"}) = Of(h, k, {"discover"}) \cup {}
            /\ Of(g, k, {"discover", "nak"}) = Of(h, k, {"discover", "nak"}) \cup {}
        BY <1>2, OfAppended
      <3>2. Of(g, k, {"ack"}) = Of(h, k, {"ack"}) \cup {n + 1}
        BY <1>2, OfAppended
      <3>3. Of(h, k, {"ack"}) \subseteq 1 .. n
        BY OfAppended
      <3> HIDE DEF g
      <3> QED BY <3>1, <3>2, <3>3
    <2>5. (\A j \in Of(g, k, {"ack"}) : j = n + 1 \/ \A r \in requests : j < r) <=>
            \A j \in Of(h, k, {"ack"}), r \in Requests(h, i) : j < r
      <3> HIDE DEF g, n, requests
      <3>1. \A j \in Of(h, k, {"ack"}) : j # n + 1
        BY <1>0, <2>4 DEF n
      <3> QED BY <2>2, <2>4, <3>1
    <2>6. (\A j \in (i + 1) .. n + 1 :
             \E r \in Refreshes(g, i) : r < j /\ g[j].at < g[r].at + TTL) <=>
            /\ \A j \in (i + 1) .. n :
                 \E r \in Alive(h, i) : r < j /\ h[j].at < h[r].at + TTL
            /\ Lively(h, i, x.at)
      <3> HIDE DEF g, n
      <3>1. Alive(h, i) \subseteq 1 .. n
        BY <2>2 DEF n
      <3>2. (i + 1) .. n + 1 = ((i + 1) .. n) \cup {n + 1}
        BY <1>0, <1>2 DEF n
      <3>3. \A j \in (i + 1) .. n :
              (\E r \in Alive(h, i) : r < j /\ g[j].at < g[r].at + TTL) <=>
              (\E r \in Alive(h, i) : r < j /\ h[j].at < h[r].at + TTL)
        BY <1>0, <1>2, <3>1 DEF n
      <3>4. (\E r \in Alive(h, i) : r < n + 1 /\ g[n + 1].at < g[r].at + TTL) <=>
              Lively(h, i, x.at)
        BY <1>0, <3>1 DEF Lively, n
      <3> QED BY <2>2, <3>2, <3>3, <3>4
    <2>7. HandshakeFrom(g, i) <=>
            /\ i \in Of(g, k, {"discover"})
            /\ requests # {}
            /\ \A j \in Of(g, k, {"discover", "nak"}) : j <= i
            /\ \A j \in Of(g, k, {"ack"}) : j = n + 1 \/ \A r \in requests : j < r
            /\ \A j \in (i + 1) .. n + 1 :
                 \E r \in Refreshes(g, i) : r < j /\ g[j].at < g[r].at + TTL
      BY <1>0, <1>2 DEF HandshakeFrom
    <2> HIDE DEF g, n, k, requests
    <2>8. HandshakeFrom(g, i) <=>
            OpenFrom(h, k, i) /\ Lively(h, i, x.at) /\ Requests(h, i) # {}
      <3>1. OpenFrom(h, k, i) <=>
              /\ i \in Of(h, k, {"discover"})
              /\ \A j \in Of(h, k, {"discover", "nak"}) : j <= i
              /\ \A j \in Of(h, k, {"ack"}), r \in Requests(h, i) : j < r
              /\ \A j \in (i + 1) .. n :
                   \E r \in Alive(h, i) : r < j /\ h[j].at < h[r].at + TTL
        BY DEF OpenFrom, n
      <3> QED BY <2>2, <2>4, <2>5, <2>6, <2>7, <3>1
    <2> QED BY <1>2, <2>8 DEF g, n, k
  <1>3. i = n + 1 \/ i \in 1 .. n
    BY <1>0
  <1> QED BY <1>1, <1>2, <1>3
-----------------------------------------------------------------------------
(***************************************************************************)
(* The table agrees with the log, and stays so.                            *)
(***************************************************************************)

\* What is left of a table when the expired entries are gone.
LEMMA AfterExpiry ==
  ASSUME TypeOK, NEW h \in Seq(Entry), NEW k, Agrees(transactions, h, k)
  PROVE  /\ k \in DOMAIN Unexpired(clock) =>
              k \in DOMAIN transactions /\ Unexpired(clock)[k] = transactions[k]
         /\ k \in DOMAIN Unexpired(clock) <=>
              \E i \in 1 .. Len(h) : OpenFrom(h, k, i) /\ Lively(h, i, clock)
         /\ \A i \in 1 .. Len(h) : OpenFrom(h, k, i) =>
              (Lively(h, i, clock) <=> k \in DOMAIN Unexpired(clock))
  <1> DEFINE table == Unexpired(clock)
  <1>1. /\ k \in DOMAIN table <=> k \in DOMAIN transactions /\ transactions[k].expiresAt > clock
        /\ k \in DOMAIN table => table[k] = transactions[k]
    BY DEF Unexpired, Restrict
  <1>2. DOMAIN h = 1 .. Len(h) /\ \A i \in 1 .. Len(h) : h[i] \in Entry
    BY LenProperties, ElementOfSeq
  <1>3. ASSUME NEW i \in 1 .. Len(h), OpenFrom(h, k, i)
        PROVE  Lively(h, i, clock) <=> k \in DOMAIN table
    <2>1. /\ k \in DOMAIN transactions
          /\ \E r \in Alive(h, i) : transactions[k].expiresAt = h[r].at + TTL
          /\ \A r \in Alive(h, i) : h[r].at + TTL <= transactions[k].expiresAt
      BY <1>2, <1>3 DEF Agrees
    <2>2. Alive(h, i) \subseteq 1 .. Len(h)
      <3>1. Requests(h, i) \subseteq DOMAIN h
        BY DEF Requests, Of
      <3> QED BY <1>2, <3>1 DEF Alive
    <2>3. \A r \in Alive(h, i) : h[r].at + TTL \in Int
      <3>1. TTL \in Int
        BY DhcpAssumption
      <3>2. \A r \in Alive(h, i) : h[r].at \in Int
        BY <1>2, <2>2 DEF Entry
      <3> QED BY <3>1, <3>2
    <2>4. clock \in Nat
      BY DEF TypeOK
    <2> QED BY <1>1, <2>1, <2>3, <2>4 DEF Lively
  <1>4. k \in DOMAIN table <=>
          \E i \in 1 .. Len(h) : OpenFrom(h, k, i) /\ Lively(h, i, clock)
    <2>1. k \in DOMAIN table => \E i \in 1 .. Len(h) : OpenFrom(h, k, i)
      BY <1>1, <1>2 DEF Agrees
    <2> QED BY <1>3, <2>1
  <1> QED BY <1>1, <1>3, <1>4

\* A message completes a transaction of the table when it completes a handshake.
LEMMA CompletesHandshake ==
  ASSUME TypeOK, NEW h \in Seq(Entry), NEW m \in Message,
         Agrees(transactions, h, Key(m))
  PROVE  Completes(Unexpired(clock), m) <=>
           \E i \in DOMAIN Append(h, [message |-> m, at |-> clock]) :
             HandshakeFrom(Append(h, [message |-> m, at |-> clock]), i)
  <1> DEFINE x == [message |-> m, at |-> clock]
             k == Key(m)
             table == Unexpired(clock)
             Acknowledged(i) == /\ m.type = "ack" /\ OpenFrom(h, k, i)
                                /\ Lively(h, i, clock) /\ Requests(h, i) # {}
  <1>1. x \in Entry /\ x.message = m /\ x.at = clock
    BY DEF Entry, TypeOK
  <1>2. /\ DOMAIN Append(h, x) = 1 .. Len(h) + 1
        /\ DOMAIN h = 1 .. Len(h) /\ Len(h) \in Nat
    BY <1>1, Appended
  <1>3. (\E i \in DOMAIN Append(h, x) : HandshakeFrom(Append(h, x), i)) <=>
          \E i \in 1 .. Len(h) : Acknowledged(i)
    <2> HIDE DEF x
    <2>1. \A i \in 1 .. Len(h) + 1 :
            HandshakeFrom(Append(h, x), i) <=> i \in 1 .. Len(h) /\ Acknowledged(i)
      BY <1>1, HandshakeAppended
    <2> HIDE DEF Acknowledged
    <2>2. 1 .. Len(h) \subseteq 1 .. Len(h) + 1
      BY <1>2
    <2> QED BY <1>2, <2>1, <2>2
  <1>4. \A i \in 1 .. Len(h) : OpenFrom(h, k, i) =>
          (transactions[k].requested <=> Requests(h, i) # {})
    BY <1>2 DEF Agrees
  <1>5. /\ k \in DOMAIN table => table[k] = transactions[k]
        /\ k \in DOMAIN table <=>
             \E i \in 1 .. Len(h) : OpenFrom(h, k, i) /\ Lively(h, i, clock)
    BY AfterExpiry
  <1>6. Completes(table, m) <=> \E i \in 1 .. Len(h) : Acknowledged(i)
    <2>1. Completes(table, m) <=> m.type = "ack" /\ k \in DOMAIN table /\ table[k].requested
      BY DEF Completes
    <2> HIDE DEF k, table
    <2> QED BY <1>4, <1>5, <2>1
  <1> QED BY <1>3, <1>6

\* Observing a message of another transaction.
LEMMA AgreesElsewhere ==
  ASSUME TypeOK, NEW h \in Seq(Entry), NEW m \in Message, NEW k,
         Agrees(transactions, h, k), Key(m) # k
  PROVE  Agrees(Afterwards(Unexpired(clock), m),
                Append(h, [message |-> m, at |-> clock]), k)
  <1> DEFINE x == [message |-> m, at |-> clock]
             table == Unexpired(clock)
             after == Afterwards(table, m)
             g == Append(h, x)
  <1>1. x \in Entry /\ x.message = m /\ x.at = clock
    BY DEF Entry, TypeOK
  <1>2. /\ DOMAIN g = 1 .. Len(h) + 1 /\ DOMAIN h = 1 .. Len(h) /\ Len(h) \in Nat
        /\ \A i \in 1 .. Len(h) : g[i] = h[i]
    BY <1>1, Appended
  <1>3. /\ k \in DOMAIN after <=> k \in DOMAIN table
        /\ k \in DOMAIN table => after[k] = table[k]
    <2> HIDE DEF table
    <2>1. CASE m.type = "discover"
      BY <2>1 DEF Afterwards, Completes, Discover, With
    <2>2. CASE m.type = "request"
      BY <2>2 DEF Afterwards, Completes, Request
    <2>3. CASE m.type = "nak" \/ Completes(table, m)
      BY <2>3 DEF Afterwards, Completes, Without, Restrict
    <2>4. CASE m.type \notin {"discover", "request", "nak"} /\ ~Completes(table, m)
      BY <2>4 DEF Afterwards
    <2> QED BY <2>1, <2>2, <2>3, <2>4
  <1>4. \A i \in 1 .. Len(h) : OpenFrom(g, k, i) <=> OpenFrom(h, k, i) /\ Lively(h, i, clock)
    <2> HIDE DEF x
    <2> QED BY <1>1, OpenAppended
  <1>5. ~OpenFrom(g, k, Len(h) + 1)
    <2> HIDE DEF x
    <2> QED BY <1>1, OpenNew
  <1>6. ASSUME NEW i \in 1 .. Len(h), OpenFrom(h, k, i)
        PROVE  Requests(g, i) = Requests(h, i) /\ Alive(g, i) = Alive(h, i)
               /\ Alive(h, i) \subseteq 1 .. Len(h)
    <2>1. Key(h[i].message) = k
      BY <1>6 DEF OpenFrom, Of
    <2>2. Requests(g, i) = Requests(h, i) \cup
            (IF x.message.type = "request" /\ Key(x.message) = Key(h[i].message)
             THEN {Len(h) + 1} ELSE {})
      <3> HIDE DEF x
      <3> QED BY <1>1, RequestsAppended
    <2>3. Requests(h, i) \subseteq DOMAIN h
      BY DEF Requests, Of
    <2> HIDE DEF g, x
    <2> QED BY <1>1, <1>2, <2>1, <2>2, <2>3 DEF Alive
  <1>7. /\ k \in DOMAIN table => table[k] = transactions[k]
        /\ k \in DOMAIN table <=>
             \E i \in 1 .. Len(h) : OpenFrom(h, k, i) /\ Lively(h, i, clock)
    BY AfterExpiry
  <1>8. \A i \in 1 .. Len(h) : OpenFrom(h, k, i) =>
          /\ transactions[k].requested <=> Requests(h, i) # {}
          /\ \E r \in Alive(h, i) : transactions[k].expiresAt = h[r].at + TTL
          /\ \A r \in Alive(h, i) : h[r].at + TTL <= transactions[k].expiresAt
    BY <1>2 DEF Agrees
  <1>9. DOMAIN g = 1 .. Len(h) \cup {Len(h) + 1}
    BY <1>2
  <1> HIDE DEF g, table, after
  <1>10. k \in DOMAIN after <=> \E i \in DOMAIN g : OpenFrom(g, k, i)
    BY <1>3, <1>4, <1>5, <1>7, <1>9
  <1>11. ASSUME NEW i \in DOMAIN g, OpenFrom(g, k, i)
         PROVE  /\ after[k].requested <=> Requests(g, i) # {}
                /\ \E r \in Alive(g, i) : after[k].expiresAt = g[r].at + TTL
                /\ \A r \in Alive(g, i) : g[r].at + TTL <= after[k].expiresAt
    <2>1. i \in 1 .. Len(h) /\ OpenFrom(h, k, i) /\ Lively(h, i, clock)
      BY <1>4, <1>5, <1>9, <1>11
    <2>2. after[k] = transactions[k]
      BY <1>3, <1>7, <2>1
    <2>3. Requests(g, i) = Requests(h, i) /\ Alive(g, i) = Alive(h, i)
          /\ Alive(h, i) \subseteq 1 .. Len(h)
      BY <1>6, <2>1
    <2> QED BY <1>2, <1>8, <2>1, <2>2, <2>3
  <1> QED BY <1>10, <1>11 DEF Agrees, g, after, table

\* Observing a message of the transaction itself.
LEMMA AgreesHere ==
  ASSUME TypeOK, NEW h \in Seq(Entry), NEW m \in Message,
         Agrees(transactions, h, Key(m)),
         \A i \in 1 .. Len(h) : h[i].at <= clock
  PROVE  Agrees(Afterwards(Unexpired(clock), m),
                Append(h, [message |-> m, at |-> clock]), Key(m))
  <1> DEFINE k == Key(m)
             x == [message |-> m, at |-> clock]
             table == Unexpired(clock)
             after == Afterwards(table, m)
             g == Append(h, x)
             new == Len(h) + 1
  <1>1. x \in Entry /\ x.message = m /\ x.at = clock
    BY DEF Entry, TypeOK
  <1>2. /\ DOMAIN g = 1 .. Len(h) + 1 /\ DOMAIN h = 1 .. Len(h) /\ Len(h) \in Nat
        /\ \A i \in 1 .. Len(h) : g[i] = h[i] /\ h[i] \in Entry
        /\ g[new] = x
    BY <1>1, Appended
  <1>3. \A i \in 1 .. Len(h) :
          OpenFrom(g, k, i) <=>
            /\ OpenFrom(h, k, i) /\ Lively(h, i, clock)
            /\ m.type \notin {"discover", "nak"}
            /\ ~(m.type = "ack" /\ Requests(h, i) # {})
    <2> HIDE DEF x
    <2> QED BY <1>1, OpenAppended
  <1>4. OpenFrom(g, k, new) <=> m.type = "discover"
    <2> HIDE DEF x
    <2> QED BY <1>1, OpenNew
  <1>5. ASSUME NEW i \in 1 .. Len(h), OpenFrom(h, k, i)
        PROVE  /\ Requests(g, i) = Requests(h, i) \cup
                                     (IF m.type = "request" THEN {new} ELSE {})
               /\ Alive(h, i) \subseteq 1 .. Len(h)
    <2>1. Key(h[i].message) = k
      BY <1>5 DEF OpenFrom, Of
    <2>2. Requests(g, i) = Requests(h, i) \cup
            (IF x.message.type = "request" /\ Key(x.message) = Key(h[i].message)
             THEN {Len(h) + 1} ELSE {})
      <3> HIDE DEF x
      <3> QED BY <1>1, RequestsAppended
    <2>3. Requests(h, i) \subseteq DOMAIN h
      BY DEF Requests, Of
    <2> HIDE DEF g, x
    <2> QED BY <1>1, <1>2, <2>1, <2>2, <2>3 DEF Alive
  <1>6. /\ k \in DOMAIN table => table[k] = transactions[k]
        /\ k \in DOMAIN table <=>
             \E i \in 1 .. Len(h) : OpenFrom(h, k, i) /\ Lively(h, i, clock)
    BY AfterExpiry
  <1>7. \A i \in 1 .. Len(h) : OpenFrom(h, k, i) =>
          /\ transactions[k].requested <=> Requests(h, i) # {}
          /\ \E r \in Alive(h, i) : transactions[k].expiresAt = h[r].at + TTL
          /\ \A r \in Alive(h, i) : h[r].at + TTL <= transactions[k].expiresAt
    BY <1>2 DEF Agrees
  <1>8. DOMAIN g = 1 .. Len(h) \cup {new} /\ new \notin 1 .. Len(h)
    BY <1>2
  <1>9. /\ k \in DOMAIN after <=> \E i \in DOMAIN g : OpenFrom(g, k, i)
        /\ \A i \in DOMAIN g : OpenFrom(g, k, i) =>
             /\ after[k].requested <=> Requests(g, i) # {}
             /\ \E r \in Alive(g, i) : after[k].expiresAt = g[r].at + TTL
             /\ \A r \in Alive(g, i) : g[r].at + TTL <= after[k].expiresAt
    <2>1. CASE m.type = "discover"
      <3>1. /\ k \in DOMAIN after
            /\ after[k].requested = FALSE /\ after[k].expiresAt = clock + TTL
        BY <2>1 DEF Afterwards, Completes, Discover, With
      <3>2. Requests(g, new) = {} /\ Alive(g, new) = {new}
        <4>1. Requests(g, new) = {}
          <5> HIDE DEF x
          <5> QED BY <1>1, RequestsAppended
        <4> QED BY <4>1 DEF Alive
      <3>3. clock + TTL \in Int
        <4>1. clock \in Nat
          BY DEF TypeOK
        <4> QED BY <4>1, DhcpAssumption
      <3>4. g[new].at = clock
        BY <1>1, <1>2
      <3> HIDE DEF g, after, x, new
      <3>5. new \in DOMAIN g /\ \A i \in DOMAIN g : OpenFrom(g, k, i) <=> i = new
        BY <1>3, <1>4, <1>8, <2>1
      <3>6. /\ after[k].requested <=> Requests(g, new) # {}
            /\ \E r \in Alive(g, new) : after[k].expiresAt = g[r].at + TTL
            /\ \A r \in Alive(g, new) : g[r].at + TTL <= after[k].expiresAt
        BY <3>1, <3>2, <3>3, <3>4
      <3> QED BY <3>1, <3>5, <3>6
    <2>2. CASE m.type = "request"
      <3>1. /\ k \in DOMAIN after <=> k \in DOMAIN table
            /\ k \in DOMAIN table => /\ after[k].requested = TRUE
                                     /\ after[k].expiresAt = clock + TTL
        <4> HIDE DEF table
        <4> QED BY <2>2 DEF Afterwards, Completes, Request
      <3>2. ASSUME NEW i \in 1 .. Len(h), OpenFrom(g, k, i)
            PROVE  /\ after[k].requested <=> Requests(g, i) # {}
                   /\ \E r \in Alive(g, i) : after[k].expiresAt = g[r].at + TTL
                   /\ \A r \in Alive(g, i) : g[r].at + TTL <= after[k].expiresAt
        <4>1. OpenFrom(h, k, i) /\ k \in DOMAIN table
          BY <1>3, <1>6, <3>2
        <4>2. after[k].requested = TRUE /\ after[k].expiresAt = clock + TTL
          BY <3>1, <4>1
        <4> HIDE DEF g, after, x, new, table
        <4>3. /\ Requests(g, i) = Requests(h, i) \cup {new}
              /\ Alive(g, i) = Alive(h, i) \cup {new}
              /\ Alive(h, i) \subseteq 1 .. Len(h)
          BY <1>5, <2>2, <4>1 DEF Alive
        <4>4. \A r \in Alive(g, i) : g[r].at <= clock /\ g[r].at \in Nat
          <5>1. clock \in Nat
            BY DEF TypeOK
          <5> QED BY <1>1, <1>2, <4>3, <5>1 DEF Entry
        <4>5. clock \in Nat /\ TTL \in Nat
          <5>1. clock \in Nat
            BY DEF TypeOK
          <5> QED BY <5>1, DhcpAssumption
        <4> QED BY <1>1, <1>2, <4>2, <4>3, <4>4, <4>5
      <3> HIDE DEF g, after, x, new, table
      <3>3. k \in DOMAIN after <=> \E i \in DOMAIN g : OpenFrom(g, k, i)
        BY <1>3, <1>4, <1>6, <1>8, <2>2, <3>1
      <3> QED BY <1>4, <1>8, <2>2, <3>2, <3>3
    <2>3. CASE m.type = "nak" \/ Completes(table, m)
      <3>1. k \notin DOMAIN after
        BY <2>3 DEF Afterwards, Completes, Without, Restrict
      <3>2. \A i \in DOMAIN g : ~OpenFrom(g, k, i)
        <4>1. CASE m.type = "nak"
          BY <1>3, <1>4, <1>8, <4>1
        <4>2. CASE Completes(table, m)
          <5>1. /\ m.type = "ack"
                /\ \A i \in 1 .. Len(h) : OpenFrom(h, k, i) => Requests(h, i) # {}
            <6>1. m.type = "ack" /\ k \in DOMAIN table /\ table[k].requested
              BY <4>2 DEF Completes
            <6> HIDE DEF table
            <6> QED BY <1>6, <1>7, <6>1
          <5> HIDE DEF g, new
          <5> QED BY <1>3, <1>4, <1>8, <5>1
        <4> QED BY <2>3, <4>1, <4>2
      <3> HIDE DEF g, after
      <3> QED BY <3>1, <3>2
    <2>4. CASE m.type \notin {"discover", "request", "nak"} /\ ~Completes(table, m)
      <3>1. after = table
        BY <2>4 DEF Afterwards
      <3>2. ASSUME NEW i \in 1 .. Len(h), OpenFrom(h, k, i), Lively(h, i, clock)
            PROVE  OpenFrom(g, k, i)
        <4>1. k \in DOMAIN table /\ table[k] = transactions[k]
          BY <1>6, <3>2
        <4>2. m.type = "ack" => ~transactions[k].requested
          BY <2>4, <4>1 DEF Completes
        <4> QED BY <1>3, <1>7, <2>4, <3>2, <4>2
      <3>3. ASSUME NEW i \in 1 .. Len(h), OpenFrom(g, k, i)
            PROVE  /\ after[k].requested <=> Requests(g, i) # {}
                   /\ \E r \in Alive(g, i) : after[k].expiresAt = g[r].at + TTL
                   /\ \A r \in Alive(g, i) : g[r].at + TTL <= after[k].expiresAt
        <4>1. OpenFrom(h, k, i) /\ k \in DOMAIN table /\ after[k] = transactions[k]
          BY <1>3, <1>6, <3>1, <3>3
        <4> HIDE DEF g, after, new
        <4>2. Requests(g, i) = Requests(h, i) /\ Alive(g, i) = Alive(h, i)
              /\ Alive(h, i) \subseteq 1 .. Len(h)
          BY <1>5, <2>4, <4>1 DEF Alive
        <4> QED BY <1>2, <1>7, <4>1, <4>2
      <3> HIDE DEF g, after, new
      <3>4. k \in DOMAIN after <=> \E i \in DOMAIN g : OpenFrom(g, k, i)
        BY <1>3, <1>4, <1>6, <1>8, <2>4, <3>1, <3>2
      <3> QED BY <1>4, <1>8, <2>4, <3>3, <3>4
    <2> QED BY <2>1, <2>2, <2>3, <2>4
  <1> QED BY <1>9 DEF Agrees

LEMMA AgreementStep ==
  ASSUME TypeOK, LogOK, TableFollowsLog, [LoggedNext]_<<vars, log>>
  PROVE  TableFollowsLog'
  <1>1. CASE UNCHANGED <<transactions, log>>
    BY <1>1 DEF TableFollowsLog, Agrees, OpenFrom, Alive, Requests, Of
  <1>2. CASE /\ ReadFrame
             /\ log' = Append(log, [message |-> Head(socket), at |-> clock])
    <2> DEFINE m == Head(socket)
    <2>1. m \in Message
      BY <1>2, HeadTailProperties DEF ReadFrame, TypeOK
    <2>2. /\ transactions' = Afterwards(Unexpired(clock), m)
          /\ log' = Append(log, [message |-> m, at |-> clock])
      BY <1>2 DEF ReadFrame
    <2>3. log \in Seq(Entry) /\ \A i \in 1 .. Len(log) : log[i].at <= clock
      BY DEF LogOK
    <2> HIDE DEF m
    <2>4. ASSUME NEW k \in Keys
          PROVE  Agrees(transactions', log', k)
      <3>1. Agrees(transactions, log, k)
        BY DEF TableFollowsLog
      <3>2. CASE Key(m) = k
        BY <2>1, <2>2, <2>3, <3>1, <3>2, AgreesHere
      <3>3. CASE Key(m) # k
        BY <2>1, <2>2, <2>3, <3>1, <3>3, AgreesElsewhere
      <3> QED BY <3>2, <3>3
    <2> QED BY <2>4 DEF TableFollowsLog
  <1> QED BY <1>1, <1>2, OnlyReadFrameObserves
-----------------------------------------------------------------------------
(***************************************************************************)
(* What an open transaction remembers of its messages.                     *)
(***************************************************************************)

IsLast(S, i) == i \in S /\ \A j \in S : j <= i

\* The messages among is that say something of a host name.
Named(h, is) == {i \in is : h[i].message.hostname # Absent}

\* Entry t of the table recounts the transaction that message i of h opened: the address
\* requested last, and the last host name given.
Recounts(t, h, i) ==
  /\ Requests(h, i) # {} =>
       \E r \in DOMAIN h : IsLast(Requests(h, i), r) /\ t.requestedIP = h[r].message.requestedIP
  /\ \/ Named(h, Alive(h, i)) = {} /\ t.hostname = Absent
     \/ \E r \in DOMAIN h : IsLast(Named(h, Alive(h, i)), r) /\ t.hostname = h[r].message.hostname

TableRecounts ==
  \A k \in Keys : \A i \in DOMAIN log :
    OpenFrom(log, k, i) => Recounts(transactions[k], log, i)

\* A message of another transaction, or one that is ignored, leaves the account as it is.
LEMMA RecountsKept ==
  ASSUME NEW h \in Seq(Entry), NEW x \in Entry, NEW i \in 1 .. Len(h), NEW t,
         Recounts(t, h, i), Requests(Append(h, x), i) = Requests(h, i)
  PROVE  Recounts(t, Append(h, x), i)
  <1> DEFINE g == Append(h, x)
  <1>1. /\ \A j \in 1 .. Len(h) : g[j] = h[j]
        /\ DOMAIN h \subseteq DOMAIN g /\ DOMAIN h = 1 .. Len(h)
    BY Appended
  <1>2. Requests(h, i) \subseteq DOMAIN h
    BY DEF Requests, Of
  <1> HIDE DEF g
  <1>3. Alive(g, i) = Alive(h, i) /\ Alive(h, i) \subseteq 1 .. Len(h)
    BY <1>1, <1>2 DEF Alive, g
  <1>4. Named(g, Alive(g, i)) = Named(h, Alive(h, i))
    BY <1>1, <1>3 DEF Named
  <1>5. Requests(g, i) = Requests(h, i)
    BY DEF g
  <1> HIDE DEF Alive
  <1>6. Recounts(t, g, i)
    BY <1>1, <1>2, <1>4, <1>5 DEF Recounts
  <1> QED BY <1>6 DEF g

\* The opening message is the first to be told of.
LEMMA RecountsFirst ==
  ASSUME NEW h \in Seq(Entry), NEW x \in Entry, NEW t, t.hostname = x.message.hostname
  PROVE  Recounts(t, Append(h, x), Len(h) + 1)
  <1> DEFINE g == Append(h, x)
             new == Len(h) + 1
  <1>1. g[new] = x /\ new \in DOMAIN g /\ new \in Nat
    BY Appended
  <1>2. Requests(g, new) = {}
    BY RequestsAppended
  <1> HIDE DEF g, new
  <1>3. Alive(g, new) = {new}
    BY <1>2 DEF Alive
  <1>4. CASE x.message.hostname = Absent
    <2>1. Named(g, Alive(g, new)) = {}
      BY <1>1, <1>3, <1>4 DEF Named
    <2> QED BY <1>2, <1>4, <2>1 DEF Recounts, g, new
  <1>5. CASE x.message.hostname # Absent
    <2>1. Named(g, Alive(g, new)) = {new}
      BY <1>1, <1>3, <1>5 DEF Named
    <2>2. IsLast({new}, new)
      BY <1>1 DEF IsLast
    <2>3. Recounts(t, g, new)
      BY <1>1, <1>2, <2>1, <2>2 DEF Recounts
    <2> QED BY <2>3 DEF g, new
  <1> QED BY <1>4, <1>5

\* A request is the last one, and its host name, if it gives one, is the last.
LEMMA RecountsMore ==
  ASSUME NEW h \in Seq(Entry), NEW x \in Entry, NEW i \in 1 .. Len(h), NEW t,
         Recounts(t, h, i), Requests(Append(h, x), i) = Requests(h, i) \cup {Len(h) + 1},
         NEW u, u.requestedIP = x.message.requestedIP,
         u.hostname = IF x.message.hostname # Absent THEN x.message.hostname ELSE t.hostname
  PROVE  Recounts(u, Append(h, x), i)
  <1> DEFINE g == Append(h, x)
             new == Len(h) + 1
             named == Named(h, Alive(h, i))
  <1>1. /\ \A j \in 1 .. Len(h) : g[j] = h[j]
        /\ DOMAIN h = 1 .. Len(h) /\ DOMAIN g = 1 .. Len(h) + 1 /\ Len(h) \in Nat
        /\ g[new] = x
    BY Appended
  <1>2. Requests(h, i) \subseteq 1 .. Len(h) /\ Requests(g, i) = Requests(h, i) \cup {new}
    BY <1>1 DEF Requests, Of
  <1> HIDE DEF g
  <1>3. Alive(g, i) = Alive(h, i) \cup {new} /\ Alive(h, i) \subseteq 1 .. Len(h)
    BY <1>2 DEF Alive
  <1>4. \A j \in 1 .. Len(h) : j <= new /\ j # new
    BY <1>1
  <1>5. new \in Nat /\ new \in DOMAIN g
    BY <1>1
  <1>6. DOMAIN h \subseteq DOMAIN g
    BY <1>1
  <1> HIDE DEF new
  <1>7. IsLast(Requests(g, i), new)
    BY <1>2, <1>4, <1>5 DEF IsLast
  <1>8. Named(g, Alive(g, i)) =
          named \cup (IF x.message.hostname # Absent THEN {new} ELSE {})
    <2>1. \A j \in Alive(h, i) : g[j] = h[j]
      BY <1>1, <1>3
    <2> QED BY <1>1, <1>3, <2>1 DEF Named
  <1>9. named \subseteq 1 .. Len(h)
    BY <1>3 DEF Named
  <1> HIDE DEF named
  <1>10. CASE x.message.hostname # Absent
    <2>1. Named(g, Alive(g, i)) = named \cup {new}
      BY <1>8, <1>10
    <2>2. IsLast(named \cup {new}, new)
      BY <1>4, <1>5, <1>9 DEF IsLast
    <2>3. IsLast(Named(g, Alive(g, i)), new)
      BY <2>1, <2>2
    <2>4. Recounts(u, g, i)
      BY <1>1, <1>5, <1>7, <1>10, <2>3 DEF Recounts
    <2> QED BY <2>4 DEF g
  <1>11. CASE x.message.hostname = Absent
    <2>1. Named(g, Alive(g, i)) = named /\ u.hostname = t.hostname
      BY <1>8, <1>11
    <2>2. \/ named = {} /\ t.hostname = Absent
          \/ \E r \in DOMAIN h : IsLast(named, r) /\ t.hostname = h[r].message.hostname
      BY DEF Recounts, named
    <2>3. Recounts(u, g, i)
      BY <1>1, <1>5, <1>6, <1>7, <2>1, <2>2 DEF Recounts
    <2> QED BY <2>3 DEF g
  <1> QED BY <1>10, <1>11

\* Every step keeps the account of every open transaction.
LEMMA RecountsStep ==
  ASSUME TypeOK, LogOK, TableFollowsLog, TableRecounts, [LoggedNext]_<<vars, log>>
  PROVE  TableRecounts'
  <1>1. CASE UNCHANGED <<transactions, log>>
    <2>1. \A k \in Keys : \A i \in DOMAIN log' :
            OpenFrom(log', k, i) => Recounts(transactions'[k], log', i)
      BY <1>1 DEF TableRecounts
    <2> QED BY <2>1 DEF TableRecounts
  <1>2. CASE /\ ReadFrame
             /\ log' = Append(log, [message |-> Head(socket), at |-> clock])
    <2> DEFINE m     == Head(socket)
               x     == [message |-> m, at |-> clock]
               table == Unexpired(clock)
               after == Afterwards(table, m)
               g     == Append(log, x)
    <2>1. m \in Message /\ log \in Seq(Entry)
      BY <1>2, HeadTailProperties DEF ReadFrame, TypeOK, LogOK
    <2>2. transactions' = after /\ log' = g
      BY <1>2 DEF ReadFrame
    <2> HIDE DEF m
    <2>3. x \in Entry /\ x.message = m /\ x.at = clock
      BY <2>1 DEF Entry, TypeOK
    <2> HIDE DEF x
    <2>4. ASSUME NEW k \in Keys, NEW i \in DOMAIN g, OpenFrom(g, k, i)
          PROVE  Recounts(after[k], g, i)
      <3>1. CASE i = Len(log) + 1
        <4>1. m.type = "discover" /\ Key(m) = k
          BY <2>1, <2>3, <2>4, <3>1, OpenNew
        <4>2. after[k].hostname = m.hostname
          BY <4>1 DEF Afterwards, Completes, Discover, With
        <4> HIDE DEF after
        <4> QED BY <2>1, <2>3, <3>1, <4>2, RecountsFirst
      <3>2. CASE i # Len(log) + 1
        <4>1. i \in 1 .. Len(log)
          BY <2>1, <2>3, <3>2, Appended
        <4>2. /\ OpenFrom(log, k, i) /\ Lively(log, i, clock)
              /\ ~(Key(m) = k /\ m.type \in {"discover", "nak"})
              /\ ~(Key(m) = k /\ m.type = "ack" /\ Requests(log, i) # {})
          BY <2>1, <2>3, <2>4, <4>1, OpenAppended
        <4>3. i \in DOMAIN log /\ Agrees(transactions, log, k)
          BY <2>1, <4>1, LenProperties DEF TableFollowsLog
        <4>4. Recounts(transactions[k], log, i)
          BY <4>2, <4>3 DEF TableRecounts
        <4>5. k \in DOMAIN table /\ table[k] = transactions[k]
          <5> HIDE DEF table
          <5> QED BY <2>1, <4>1, <4>2, <4>3, AfterExpiry DEF table
        <4>6. Key(log[i].message) = k
          BY <4>2 DEF OpenFrom, Of
        <4>7. Requests(g, i) = Requests(log, i) \cup
                (IF m.type = "request" /\ Key(m) = k THEN {Len(log) + 1} ELSE {})
          BY <2>1, <2>3, <4>1, <4>6, RequestsAppended
        <4> HIDE DEF table
        <4>8. CASE m.type = "request" /\ Key(m) = k
          <5>1. /\ after[k].requestedIP = m.requestedIP
                /\ after[k].hostname =
                     IF m.hostname # Absent THEN m.hostname ELSE transactions[k].hostname
            BY <4>5, <4>8 DEF Afterwards, Completes, Request
          <5> HIDE DEF after
          <5>2. Requests(g, i) = Requests(log, i) \cup {Len(log) + 1}
            BY <4>7, <4>8
          <5> QED BY <2>1, <2>3, <4>1, <4>4, <5>1, <5>2, RecountsMore
        <4>9. CASE ~(m.type = "request" /\ Key(m) = k)
          <5>1. after[k] = table[k]
            <6>1. CASE Key(m) # k
              <7>1. CASE m.type = "discover"
                BY <4>5, <6>1, <7>1 DEF Afterwards, Completes, Discover, With
              <7>2. CASE m.type = "request"
                BY <4>5, <6>1, <7>2 DEF Afterwards, Completes, Request
              <7>3. CASE m.type = "nak" \/ Completes(table, m)
                BY <4>5, <6>1, <7>3 DEF Afterwards, Completes, Without, Restrict
              <7>4. CASE m.type \notin {"discover", "request", "nak"} /\ ~Completes(table, m)
                BY <7>4 DEF Afterwards
              <7> QED BY <7>1, <7>2, <7>3, <7>4
            <6>2. CASE Key(m) = k
              <7>1. m.type \notin {"discover", "request", "nak"}
                BY <4>2, <4>9, <6>2
              <7>2. transactions[k].requested => Requests(log, i) # {}
                BY <4>2, <4>3 DEF Agrees
              <7>3. ~Completes(table, m)
                BY <4>2, <4>5, <6>2, <7>2 DEF Completes
              <7> QED BY <7>1, <7>3 DEF Afterwards
            <6> QED BY <6>1, <6>2
          <5>2. Requests(g, i) = Requests(log, i)
            BY <4>7, <4>9
          <5> HIDE DEF after
          <5> QED BY <2>1, <2>3, <4>1, <4>4, <4>5, <5>1, <5>2, RecountsKept
        <4> QED BY <4>8, <4>9
      <3> QED BY <3>1, <3>2
    <2> HIDE DEF g, after
    <2>5. \A k \in Keys : \A i \in DOMAIN log' :
            OpenFrom(log', k, i) => Recounts(transactions'[k], log', i)
      BY <2>2, <2>4
    <2> QED BY <2>5 DEF TableRecounts
  <1> QED BY <1>1, <1>2, OnlyReadFrameObserves
-----------------------------------------------------------------------------
LogInv == TypeOK /\ LogOK /\ TableFollowsLog /\ TableRecounts

LEMMA LogInvHolds == LoggedSpec => []LogInv
  <1>1. Init /\ log = <<>> => LogInv
    <2> SUFFICES ASSUME Init, log = <<>>
                 PROVE  LogOK /\ TableFollowsLog /\ TableRecounts /\ TypeOK
      BY DEF LogInv
    <2>1. LogOK
      BY EmptySeq DEF Init, LogOK
    <2>2. TableFollowsLog
      <3>1. DOMAIN transactions = {} /\ DOMAIN log = {}
        BY EmptySeq DEF Init
      <3> QED BY <3>1 DEF TableFollowsLog, Agrees
    <2>3. TypeOK
      <3>1. DOMAIN transactions = {} /\ transactions \in [DOMAIN transactions -> Transaction]
        BY DEF Init
      <3> QED BY <3>1, EmptySeq DEF Init, TypeOK
    <2>4. TableRecounts
      <3>1. DOMAIN log = {}
        BY EmptySeq
      <3> QED BY <3>1 DEF TableRecounts
    <2> QED BY <2>1, <2>2, <2>3, <2>4
  <1>2. LogInv /\ [LoggedNext]_<<vars, log>> => LogInv'
    BY TypeStep, LogStep, AgreementStep, RecountsStep DEF LogInv
  <1> QED BY <1>1, <1>2, PTL DEF LoggedSpec

\* The tracker's table is a faithful digest of the messages it has observed: it holds
\* the transactions that are open, each with its last sign of life.
THEOREM TableIsDigest == LoggedSpec => []TableFollowsLog
  <1>1. LogInv => TableFollowsLog
    BY DEF LogInv
  <1> QED BY <1>1, LogInvHolds, PTL

\* A device is announced when a complete, unexpired handshake of its own has been seen,
\* and only then.
THEOREM AnnouncedIffHandshake == LoggedSpec => ConnectedIffHandshake
  <1> DEFINE Judged == Observing =>
               ((outgoing' # {}) <=> \E i \in DOMAIN log' : HandshakeFrom(log', i))
  <1>1. LogInv /\ [LoggedNext]_<<vars, log>> => Judged
    <2> SUFFICES ASSUME LogInv, [LoggedNext]_<<vars, log>>, Observing
                 PROVE  (outgoing' # {}) <=> \E i \in DOMAIN log' : HandshakeFrom(log', i)
      OBVIOUS
    <2> DEFINE m == Head(socket)
    <2>1. /\ ReadFrame
          /\ log' = Append(log, [message |-> m, at |-> clock])
      BY OnlyReadFrameObserves DEF LogInv
    <2>2. m \in Message
      BY <2>1, HeadTailProperties DEF ReadFrame, LogInv, TypeOK
    <2>3. (outgoing' # {}) <=> Completes(Unexpired(clock), m)
      <3>1. outgoing = {}
        BY <2>1 DEF ReadFrame, LogInv, LogOK
      <3> QED BY <2>1, <3>1 DEF ReadFrame
    <2>4. log \in Seq(Entry) /\ Agrees(transactions, log, Key(m)) /\ TypeOK
      <3>1. Key(m) \in Keys
        BY <2>2 DEF Key, Keys, Message
      <3> QED BY <3>1 DEF LogInv, LogOK, TableFollowsLog
    <2> HIDE DEF m
    <2> QED BY <2>1, <2>2, <2>3, <2>4, CompletesHandshake
  <1>2. LogInv /\ [LoggedNext]_<<vars, log>> => [Judged]_<<vars, log>>
    BY <1>1
  <1> QED BY <1>2, LogInvHolds, PTL DEF LoggedSpec, ConnectedIffHandshake

\* The last of a set of positions is the one CHOOSE finds.
LEMMA LastIsChosen ==
  ASSUME NEW S \in SUBSET Nat, NEW r, IsLast(S, r)
  PROVE  (CHOOSE i \in S : \A j \in S : j <= i) = r
  <1> DEFINE c == CHOOSE i \in S : \A j \in S : j <= i
  <1>1. c \in S /\ \A j \in S : j <= c
    BY DEF IsLast
  <1> HIDE DEF c
  <1>2. c <= r /\ r <= c /\ c \in Nat /\ r \in Nat
    BY <1>1 DEF IsLast
  <1>3. c = r
    BY <1>2
  <1> QED BY <1>3 DEF c

\* What an entry that recounts a transaction holds is what its handshake said.
LEMMA HandshakeRecounted ==
  ASSUME NEW h \in Seq(Entry), NEW x \in Entry, NEW i \in 1 .. Len(h), NEW t,
         x.message.type = "ack", Requests(h, i) # {}, Recounts(t, h, i)
  PROVE  /\ t.requestedIP =
              LastRequested(Append(h, x), Refreshes(Append(h, x), i) \ {i})
         /\ t.hostname = LastHostname(Append(h, x), Refreshes(Append(h, x), i))
  <1> DEFINE g == Append(h, x)
             named == Named(h, Alive(h, i))
             requests == Requests(h, i)
             alive == Alive(h, i)
  <1>1. /\ Refreshes(g, i) = alive /\ Refreshes(g, i) \ {i} = requests
        /\ alive \subseteq 1 .. Len(h)
    BY RefreshesAppended
  <1>2. /\ \A j \in 1 .. Len(h) : g[j] = h[j]
        /\ DOMAIN h = 1 .. Len(h)
    BY Appended
  <1>3. requests \subseteq alive
    BY DEF Alive
  <1>4. 1 .. Len(h) \subseteq Nat
    BY Appended
  <1> HIDE DEF g, requests, alive
  <1>5. Named(g, alive) = named
    BY <1>1, <1>2 DEF Named, alive
  <1>6. named \subseteq alive
    BY DEF Named, alive
  <1> HIDE DEF named
  <1>7. t.requestedIP = LastRequested(g, requests)
    <2>1. PICK r \in DOMAIN h : IsLast(requests, r) /\ t.requestedIP = h[r].message.requestedIP
      BY DEF Recounts, requests
    <2>2. (CHOOSE j \in requests : \A l \in requests : l <= j) = r
      <3>1. requests \in SUBSET Nat
        BY <1>1, <1>3, <1>4
      <3> QED BY <2>1, <3>1, LastIsChosen
    <2>3. g[r] = h[r]
      BY <1>2
    <2> QED BY <2>1, <2>2, <2>3 DEF LastRequested
  <1>8. t.hostname = LastHostname(g, alive)
    <2>1. LastHostname(g, alive) =
            IF named = {} THEN Absent
            ELSE g[CHOOSE j \in named : \A l \in named : l <= j].message.hostname
      <3>1. LastHostname(g, alive) =
              IF Named(g, alive) = {} THEN Absent
              ELSE g[CHOOSE j \in Named(g, alive) :
                       \A l \in Named(g, alive) : l <= j].message.hostname
        BY DEF LastHostname, Named
      <3> QED BY <1>5, <3>1
    <2>2. CASE named = {}
      <3>1. t.hostname = Absent
        BY <2>2 DEF Recounts, named, IsLast
      <3> QED BY <2>1, <2>2, <3>1
    <2>3. CASE named # {}
      <3>1. PICK r \in DOMAIN h : IsLast(named, r) /\ t.hostname = h[r].message.hostname
        BY <2>3 DEF Recounts, named
      <3>2. (CHOOSE j \in named : \A l \in named : l <= j) = r
        <4>1. named \in SUBSET Nat
          BY <1>1, <1>4, <1>6
        <4> QED BY <3>1, <4>1, LastIsChosen
      <3>3. g[r] = h[r]
        BY <1>2
      <3> QED BY <2>1, <2>3, <3>1, <3>2, <3>3
    <2> QED BY <2>2, <2>3
  <1> QED BY <1>1, <1>7, <1>8 DEF g

\* An announcement tells its own handshake: the address acknowledged, or requested last,
\* and the last host name given, whatever transactions came before or run beside it.
THEOREM EventTellsItsHandshake == LoggedSpec => EventIsOfItsHandshake
  <1> DEFINE Told == Observing =>
               \A e \in outgoing', i \in DOMAIN log' :
                 HandshakeFrom(log', i) =>
                   LET m == log'[Len(log')].message IN
                   /\ e.ip = IF m.yourIP # Absent THEN m.yourIP
                             ELSE LastRequested(log', Refreshes(log', i) \ {i})
                   /\ e.hostname = LastHostname(log', Refreshes(log', i))
  <1>1. LogInv /\ [LoggedNext]_<<vars, log>> => Told
    <2> SUFFICES ASSUME LogInv, [LoggedNext]_<<vars, log>>, Observing,
                        NEW e \in outgoing', NEW i \in DOMAIN log', HandshakeFrom(log', i)
                 PROVE  LET m == log'[Len(log')].message IN
                        /\ e.ip = IF m.yourIP # Absent THEN m.yourIP
                                  ELSE LastRequested(log', Refreshes(log', i) \ {i})
                        /\ e.hostname = LastHostname(log', Refreshes(log', i))
      OBVIOUS
    <2> DEFINE m == Head(socket)
               x == [message |-> m, at |-> clock]
               g == Append(log, x)
               k == Key(m)
               table == Unexpired(clock)
    <2>1. ReadFrame /\ log' = g
      BY OnlyReadFrameObserves DEF LogInv
    <2>2. m \in Message /\ log \in Seq(Entry)
      BY <2>1, HeadTailProperties DEF ReadFrame, LogInv, TypeOK, LogOK
    <2>3. e = ConnectedEvent(table, m)
      <3>1. outgoing = {}
        BY <2>1 DEF ReadFrame, LogInv, LogOK
      <3> QED BY <2>1, <3>1 DEF ReadFrame
    <2>4. k \in Keys
      BY <2>2 DEF Key, Keys, Message
    <2> HIDE DEF m
    <2>5. x \in Entry /\ x.message = m /\ x.at = clock
      BY <2>2 DEF Entry, LogInv, TypeOK
    <2> HIDE DEF x, k, table
    <2>6. Len(g) = Len(log) + 1 /\ g[Len(g)] = x /\ DOMAIN g = 1 .. Len(log) + 1
          /\ DOMAIN log = 1 .. Len(log)
      BY <2>2, <2>5, Appended
    <2>7. /\ i \in 1 .. Len(log) /\ m.type = "ack"
          /\ OpenFrom(log, k, i) /\ Lively(log, i, clock) /\ Requests(log, i) # {}
      BY <2>1, <2>2, <2>5, <2>6, HandshakeAppended DEF k
    <2>8. Agrees(transactions, log, k) /\ Recounts(transactions[k], log, i)
      BY <2>4, <2>6, <2>7 DEF LogInv, TableFollowsLog, TableRecounts
    <2>9. table[k] = transactions[k]
      BY <2>2, <2>7, <2>8, AfterExpiry DEF LogInv, table
    <2>10. /\ transactions[k].requestedIP = LastRequested(g, Refreshes(g, i) \ {i})
           /\ transactions[k].hostname = LastHostname(g, Refreshes(g, i))
      BY <2>2, <2>5, <2>7, <2>8, HandshakeRecounted
    <2>11. /\ e.ip = IF m.yourIP # Absent THEN m.yourIP ELSE transactions[k].requestedIP
           /\ e.hostname = transactions[k].hostname
      BY <2>3, <2>9 DEF ConnectedEvent, k
    <2>12. log'[Len(log')].message = m
      BY <2>1, <2>5, <2>6
    <2> HIDE DEF g
    <2> QED BY <2>1, <2>10, <2>11, <2>12
  <1>2. LogInv /\ [LoggedNext]_<<vars, log>> => [Told]_<<vars, log>>
    BY <1>1
  <1> QED BY <1>2, LogInvHolds, PTL DEF LoggedSpec, EventIsOfItsHandshake
=============================================================================
