------------------------- MODULE NeighborProbeProofs -------------------------
(***************************************************************************)
(* The probes of the neighbour collector: never more than there are slots, *)
(* and, as long as numbers are not given twice, one for every device that  *)
(* waits for one, none whose slot is lost, and two failed ones before a    *)
(* disconnection; for any number of devices and slots and any schedule.    *)
(***************************************************************************)
EXTENDS NeighborProofs

-----------------------------------------------------------------------------
\* Cardinality says something of finite sets only.
BInv == TypeOK /\ IsFiniteSet(probes) /\ ProbeBudget

\* One probe leaves, another may take its place.
LEMMA ReplaceProbe ==
  ASSUME NEW S, IsFiniteSet(S), NEW p \in S, NEW q
  PROVE  /\ IsFiniteSet(S \ {p}) /\ Cardinality(S \ {p}) = Cardinality(S) - 1
         /\ IsFiniteSet((S \ {p}) \cup {q})
         /\ Cardinality((S \ {p}) \cup {q}) <= Cardinality(S)
         /\ Cardinality(S) \in Nat
  <1>1. Cardinality(S) \in Nat
    BY FS_CardinalityType
  <1>2. IsFiniteSet(S \ {p}) /\ Cardinality(S \ {p}) = Cardinality(S) - 1
    BY FS_RemoveElement
  <1>3. /\ IsFiniteSet((S \ {p}) \cup {q})
        /\ \/ Cardinality((S \ {p}) \cup {q}) = Cardinality(S \ {p})
           \/ Cardinality((S \ {p}) \cup {q}) = Cardinality(S \ {p}) + 1
    BY <1>2, FS_AddElement
  <1> QED BY <1>1, <1>2, <1>3

\* New probes are at most as many as the devices they are for.
LEMMA AddProbes ==
  ASSUME NEW S, IsFiniteSet(S), NEW chosen, IsFiniteSet(chosen),
         NEW new \in [chosen -> Probe]
  PROVE  LET T == S \cup {new[d] : d \in chosen} IN
         /\ IsFiniteSet(T)
         /\ Cardinality(T) <= Cardinality(S) + Cardinality(chosen)
  <1> DEFINE N == {new[d] : d \in chosen}
  <1>1. new \in Surjection(chosen, N)
    BY DEF Surjection
  <1>2. IsFiniteSet(N) /\ Cardinality(N) <= Cardinality(chosen)
    BY <1>1, FS_Surjection DEF ExistsSurjection
  <1>3. /\ Cardinality(S) \in Nat /\ Cardinality(N) \in Nat
        /\ Cardinality(chosen) \in Nat
    BY <1>2, FS_CardinalityType
  <1>4. S \cap N \in SUBSET S
    OBVIOUS
  <1>5. Cardinality(S \cap N) \in Nat
    BY <1>4, FS_Subset, FS_CardinalityType
  <1>6. /\ IsFiniteSet(S \cup N)
        /\ Cardinality(S \cup N) = Cardinality(S) + Cardinality(N) - Cardinality(S \cap N)
    BY <1>2, FS_Union
  <1> QED BY <1>2, <1>3, <1>5, <1>6

\* beginProbes takes no more devices than there are free slots.
LEMMA SelectionInBudget ==
  ASSUME TypeOK, NEW limit \in Nat, NEW chosen \in Selection(limit)
  PROVE  /\ chosen \subseteq DOMAIN states
         /\ IsFiniteSet(chosen)
         /\ Cardinality(chosen) \in Nat /\ Cardinality(chosen) <= limit
  <1> DEFINE due == {d \in DOMAIN states : Due(states[d], clock)}
  <1>1. chosen \in SUBSET due
        /\ Cardinality(chosen) = IF Cardinality(due) < limit THEN Cardinality(due)
                                 ELSE IF limit < 0 THEN 0 ELSE limit
    BY DEF Selection
  <1>2. due \in SUBSET Devices
    BY DEF TypeOK
  <1>3. IsFiniteSet(due) /\ Cardinality(due) \in Nat
    BY <1>2, FS_Subset, FS_CardinalityType, CollectorAssumption
  <1>4. IsFiniteSet(chosen) /\ Cardinality(chosen) \in Nat
    BY <1>1, <1>3, FS_Subset, FS_CardinalityType
  <1> QED BY <1>1, <1>3, <1>4

LEMMA BInvStep == BInv /\ TypeOK' /\ [Next]_vars => BInv'
  <1> SUFFICES ASSUME BInv, TypeOK', [Next]_vars
               PROVE  IsFiniteSet(probes)' /\ ProbeBudget'
    BY DEF BInv
  <1>0. /\ TypeOK /\ IsFiniteSet(probes)
        /\ Cardinality(probes) \in Nat /\ Len(probeResults) \in Nat
        /\ activeProbes \in Int /\ MaxConcurrentProbes \in Nat
        /\ Cardinality(probes) + Len(probeResults) <= activeProbes
        /\ activeProbes <= MaxConcurrentProbes
    BY FS_CardinalityType, LenProperties, CollectorAssumption
    DEF BInv, TypeOK, ProbeBudget
  <1>1. ASSUME NEW p \in probes, ProbeStart(p)
        PROVE  IsFiniteSet(probes)' /\ ProbeBudget'
    <2>1. IsFiniteSet(probes') /\ Cardinality(probes') <= Cardinality(probes)
      BY <1>0, <1>1, ReplaceProbe DEF ProbeStart
    <2>2. Cardinality(probes') \in Nat
      BY <2>1, FS_CardinalityType
    <2>3. UNCHANGED <<probeResults, activeProbes>>
      BY <1>1 DEF ProbeStart, loop
    <2> QED BY <1>0, <2>1, <2>2, <2>3 DEF ProbeBudget
  <1>2. ASSUME NEW p \in probes, ProbeAnswered(p) \/ ProbeFailed(p)
        PROVE  IsFiniteSet(probes)' /\ ProbeBudget'
    <2>1. PICK online \in BOOLEAN : ProbeReport(p, online)
      BY <1>2 DEF ProbeAnswered, ProbeFailed
    <2>2. IsFiniteSet(probes') /\ Cardinality(probes') = Cardinality(probes) - 1
      BY <1>0, <2>1, ReplaceProbe DEF ProbeReport
    <2>3. Len(probeResults') = Len(probeResults) + 1
      <3> DEFINE r == [key |-> p.key, ip |-> p.ip, generation |-> p.generation,
                       probeID |-> p.probeID, deadline |-> p.deadline,
                       started |-> p.started, online |-> online, checked |-> clock]
      <3>1. probeResults' = Append(probeResults, r)
        BY <2>1 DEF ProbeReport
      <3> HIDE DEF r
      <3> QED BY <1>0, <3>1, AppendProperties DEF TypeOK
    <2>4. UNCHANGED activeProbes
      BY <1>2 DEF ProbeAnswered, ProbeFailed, loop
    <2> QED BY <1>0, <2>2, <2>3, <2>4 DEF ProbeBudget
  <1>3. ASSUME NEW p \in probes, ProbeAbandoned(p)
        PROVE  IsFiniteSet(probes)' /\ ProbeBudget'
    <2>1. IsFiniteSet(probes') /\ Cardinality(probes') = Cardinality(probes) - 1
      BY <1>0, <1>3, ReplaceProbe DEF ProbeAbandoned
    <2>2. UNCHANGED <<probeResults, activeProbes>>
      BY <1>3 DEF ProbeAbandoned, loop
    <2> QED BY <1>0, <2>1, <2>2 DEF ProbeBudget
  <1>4. CASE TakeResult
    <2>1. Len(probeResults') = Len(probeResults) - 1
      BY <1>0, <1>4, HeadTailProperties DEF TakeResult, TypeOK
    <2>2. activeProbes' = activeProbes - 1 /\ UNCHANGED probes
      BY <1>4 DEF TakeResult
    <2> QED BY <1>0, <2>1, <2>2 DEF ProbeBudget
  <1>5. CASE TakeTick
    <2>1. CASE ~DetectOffline
      BY <1>0, <1>5, <2>1 DEF TakeTick, ProbeBudget
    <2>2. CASE DetectOffline
      <3>1. PICK chosen \in Selection(FreeProbes) :
              /\ probes' = probes \cup {NewProbe(d) : d \in chosen}
              /\ activeProbes' = activeProbes + Cardinality(chosen)
        BY <1>5, <2>2 DEF TakeTick
      <3>2. FreeProbes \in Nat
        BY <1>0 DEF FreeProbes
      <3>3. /\ IsFiniteSet(chosen) /\ Cardinality(chosen) \in Nat
            /\ Cardinality(chosen) <= FreeProbes
        BY <1>0, <3>1, <3>2, SelectionInBudget
      <3> DEFINE new == [d \in chosen |-> NewProbe(d)]
      <3>4. new \in [chosen -> Probe]
        <4>1. \A d \in chosen : NewProbe(d) \in probes'
          BY <3>1
        <4> QED BY <4>1 DEF TypeOK
      <3>5. probes' = probes \cup {new[d] : d \in chosen}
        BY <3>1
      <3> HIDE DEF new
      <3>6. /\ IsFiniteSet(probes')
            /\ Cardinality(probes') <= Cardinality(probes) + Cardinality(chosen)
        BY <1>0, <3>3, <3>4, <3>5, AddProbes
      <3>7. Cardinality(probes') \in Nat
        BY <3>6, FS_CardinalityType
      <3>8. UNCHANGED probeResults
        BY <1>5 DEF TakeTick
      <3> QED BY <1>0, <3>1, <3>3, <3>6, <3>7, <3>8 DEF ProbeBudget, FreeProbes
    <2> QED BY <2>1, <2>2
  <1>6. CASE \/ Environment \/ Sniffer \/ TakeTraffic \/ ApplyResult
             \/ TakeSnifferEnd \/ TakeDone \/ GoReceive \/ Receive
             \/ ReceiveNothing \/ ReceiveOverrun \/ EmitAccepted \/ EmitCanceled
             \/ Terminated \/ UNCHANGED vars
    <2>1. UNCHANGED <<probes, probeResults, activeProbes>>
      BY <1>6
      DEF Environment, Tick, Cancel, NeighborMessage, Sniffer, Capture, Deliver,
          SnifferEnds, TakeTraffic, ApplyResult, TakeSnifferEnd, TakeDone, GoReceive,
          Receive, ReceiveNothing, ReceiveOverrun, EmitAccepted, EmitCanceled,
          Terminated, vars, probing, loop
    <2> QED BY <1>0, <2>1 DEF ProbeBudget
  <1> QED
    BY <1>1, <1>2, <1>3, <1>4, <1>5, <1>6 DEF Next, ProbeStep, MainLoop

\* activeProbes covers every probe that runs or whose result waits, and never exceeds
\* the number of slots: a probe finds its slot and room for its result at once.
THEOREM ProbesStayInBudget == Spec => []ProbeBudget
  <1>1. Init /\ TypeOK => BInv
    <2> SUFFICES ASSUME Init, TypeOK
                 PROVE  IsFiniteSet(probes) /\ ProbeBudget
      BY DEF BInv
    <2>1. /\ probes = {} /\ Len(probeResults) = 0 /\ activeProbes = 0
          /\ MaxConcurrentProbes \in Nat
      BY EmptySeq, CollectorAssumption DEF Init
    <2> QED BY <2>1, FS_EmptySet DEF ProbeBudget
  <1>2. BInv => ProbeBudget
    BY DEF BInv
  <1> QED BY <1>1, <1>2, BInvStep, TypeCorrect, PTL DEF Spec
-----------------------------------------------------------------------------
(***************************************************************************)
(* Which probe a result belongs to.  As long as the numbers of probes do   *)
(* not wrap, no two requests carry the same number for the same device,    *)
(* and the one with the device's present number is the probe it waits for. *)
(***************************************************************************)

SameRequest(p, q) == p.key = q.key /\ p.probeID = q.probeID

\* The request has the present number of its device.
Live(q) == q.probeID = states[q.key].probeID

AllDistinct(s) == \A i, j \in 1 .. Len(s) : SameRequest(s[i], s[j]) => i = j

RequestsAreDistinct ==
  /\ \A p, q \in probes : SameRequest(p, q) => p = q
  /\ AllDistinct(probeResults)
  /\ \A r, s \in held : r = s
  /\ \A p \in probes, r \in Range(probeResults) \cup held : ~SameRequest(p, r)
  /\ \A r \in held, s \in Range(probeResults) : ~SameRequest(r, s)

\* A live request is the one its device waits for, and began after the last sign of the
\* device and after the failed probe that counts against it.
LiveRequestsArePending ==
  \A q \in Outstanding :
    /\ q.probeID <= states[q.key].probeID
    /\ Live(q) =>
         /\ states[q.key].probePending
         /\ q.generation = states[q.key].generation
         /\ q.started # NoTime => /\ states[q.key].lastSeen <= q.started
                                  /\ missed[q.key] <= q.started

PendingIsOutstanding ==
  ~ctxDone =>
    \A d \in DOMAIN states :
      states[d].probePending => \E q \in Outstanding : q.key = d /\ Live(q)

\* The loop takes no result while it holds one.
HeldWhileDraining ==
  held # {} =>
    /\ pc \notin {"async", "recv"}
    /\ pc = "emit" => \A o \in outgoing : o.path = "drain"

ProbesRunForward ==
  /\ \A p \in probes : p.started <= clock
  /\ \A r \in held \cup Range(probeResults) : r.started <= r.checked

\* A candidate has failed a probe since it was last seen.
CandidatesHaveMissed ==
  /\ \A d \in Devices : missed[d] <= clock
  /\ \A d \in DOMAIN states :
       /\ missed[d] # NoTime => states[d].lastSeen <= missed[d]
       /\ states[d].offlineDeadline # NoTime => missed[d] # NoTime

\* A number is used up by a frame, by a message, or, two at a time, by a tick: for the
\* probe and for its answer.
Queued ==
  Len(netlink) + Len(traffic) + (IF captured = {} THEN 0 ELSE 1) + (IF tick THEN 2 ELSE 0)
Used(d) ==
  IF d \in DOMAIN states
  THEN states[d].probeID + (IF states[d].probePending THEN 1 ELSE 0)
  ELSE 0

NumbersSuffice ==
  /\ inputs <= MaxInputs /\ clock <= MaxTime
  /\ \A d \in Devices : Used(d) + Queued <= inputs + 2 * clock

\* The inputs, and the ticks counted twice, are fewer than a uint64 has values: no device is
\* given a number twice.
NumbersAreNotReused == MaxInputs + 2 * MaxTime < IdSpace

\* The requests in flight and the entries they are about.
RequestInv ==
  /\ RequestsAreDistinct
  /\ LiveRequestsArePending
  /\ PendingIsOutstanding
  /\ HeldWhileDraining
  /\ ProbesRunForward
  /\ CandidatesHaveMissed
  /\ NumbersSuffice
-----------------------------------------------------------------------------
(***************************************************************************)
(* What the tracker's operators do to the number of an entry.              *)
(***************************************************************************)

\* Nothing has changed that a probe could tell.
Alike(s, t) ==
  /\ t.probeID = s.probeID /\ t.probePending = s.probePending
  /\ t.generation = s.generation
  /\ t.lastSeen = s.lastSeen /\ t.offlineDeadline = s.offlineDeadline

\* The device has been seen: whatever probe was under way has lost its number.
Renewed(s, t) ==
  /\ t.probeID = Successor(s.probeID) /\ ~t.probePending
  /\ t.offlineDeadline = NoTime

LEMMA MarkSeenRenews ==
  ASSUME NEW s \in DeviceState, NEW t \in DeviceState, NEW now \in Time,
         t.probeID = s.probeID
  PROVE  Renewed(s, MarkSeen(t, now))
  BY DEF Renewed, MarkSeen, DeviceState

LEMMA ObserveNeighborNumbers ==
  ASSUME NEW s \in DeviceState, NEW ip \in Addresses, NEW confirmed \in BOOLEAN,
         NEW now \in Time
  PROVE  /\ confirmed => Renewed(s, ObserveNeighbor(s, ip, confirmed, now).state)
         /\ ~confirmed => Alike(s, ObserveNeighbor(s, ip, confirmed, now).state)
  <1> DEFINE moved == [s EXCEPT !.ip = ip]
             seen  == [moved EXCEPT !.verified = TRUE, !.online = TRUE]
  <1>1. /\ seen \in DeviceState /\ seen.probeID = s.probeID
        /\ Alike(s, moved)
    BY DEF DeviceState, Alike
  <1>2. /\ confirmed => ObserveNeighbor(s, ip, confirmed, now).state = MarkSeen(seen, now)
        /\ ~confirmed => ObserveNeighbor(s, ip, confirmed, now).state = moved
    BY DEF ObserveNeighbor, Outcome, Quiet
  <1> HIDE DEF moved, seen
  <1> QED BY <1>1, <1>2, MarkSeenRenews

LEMMA ObserveTrafficNumbers ==
  ASSUME NEW s \in DeviceState, NEW observedAt \in Time
  PROVE  /\ Outdated(s, observedAt) => ObserveTraffic(s, observedAt).state = s
         /\ ~Outdated(s, observedAt) => Renewed(s, ObserveTraffic(s, observedAt).state)
  <1> DEFINE seen == [s EXCEPT !.verified = TRUE, !.online = @ \/ s.verified]
  <1>1. seen \in DeviceState /\ seen.probeID = s.probeID
    BY DEF DeviceState
  <1>2. /\ Outdated(s, observedAt) => ObserveTraffic(s, observedAt).state = s
        /\ ~Outdated(s, observedAt) =>
             ObserveTraffic(s, observedAt).state = MarkSeen(seen, observedAt)
    BY DEF ObserveTraffic, Outcome, Quiet
  <1> HIDE DEF seen
  <1> QED BY <1>1, <1>2, MarkSeenRenews

\* A result whose number is not the device's changes nothing; one whose number is
\* ends the wait.
LEMMA ApplyProbeNumbers ==
  ASSUME NEW s \in DeviceState, NEW r \in Result
  PROVE  LET t == ApplyProbe(s, r).state IN
         /\ r.probeID # s.probeID => Superseded(s, r) /\ Alike(s, t)
         /\ r.probeID = s.probeID => ~t.probePending
         /\ ~Superseded(s, r) => r.probeID = s.probeID
         /\ Superseded(s, r) => /\ t.probeID = s.probeID /\ t.lastSeen = s.lastSeen
                                /\ t.offlineDeadline = s.offlineDeadline
         /\ ~Superseded(s, r) /\ r.online => Renewed(s, t)
         /\ ~Superseded(s, r) /\ ~r.online => /\ t.probeID = s.probeID
                                              /\ t.lastSeen = s.lastSeen
  <1> DEFINE released == Release(s, r)
             verified == [released EXCEPT !.verified = TRUE]
             t        == ApplyProbe(s, r).state
  <1>1. /\ released \in DeviceState
        /\ released.probeID = s.probeID
        /\ released.lastSeen = s.lastSeen
        /\ released.offlineDeadline = s.offlineDeadline
        /\ released.generation = s.generation
        /\ r.probeID = s.probeID => ~released.probePending
        /\ r.probeID # s.probeID => released.probePending = s.probePending
    BY DEF Release, DeviceState
  <1>2. ~Superseded(s, r) => r.probeID = s.probeID
    BY DEF Superseded
  <1> HIDE DEF released
  <1>3. CASE Superseded(s, r)
    <2>1. t = released
      BY <1>3 DEF ApplyProbe, Quiet, Outcome, released
    <2> HIDE DEF t
    <2>2. r.probeID # s.probeID => Alike(s, t)
      BY <1>1, <2>1 DEF Alike
    <2> QED BY <1>1, <1>3, <2>1, <2>2 DEF t
  <1>4. CASE ~Superseded(s, r) /\ r.online
    <2>1. verified \in DeviceState /\ verified.probeID = s.probeID
      BY <1>1 DEF DeviceState
    <2>2. t = MarkSeen(verified, r.checked) /\ r.checked \in Time
      BY <1>4 DEF ApplyProbe, Quiet, Outcome, released, Result
    <2>3. Renewed(s, t)
      BY <2>1, <2>2, MarkSeenRenews
    <2>4. ~t.probePending
      BY <2>3 DEF Renewed
    <2> QED BY <1>2, <1>4, <2>3, <2>4
  <1>5. CASE ~Superseded(s, r) /\ ~r.online
    <2>1. t \in {released, Candidate(released), Offline(released, r)}
      BY <1>5 DEF ApplyProbe, Quiet, Outcome, released
    <2>2. \A x \in {released, Candidate(released), Offline(released, r)} :
            /\ x.probeID = s.probeID /\ x.lastSeen = s.lastSeen
            /\ x.probePending = released.probePending
      BY <1>1 DEF Candidate, Offline, DeviceState
    <2> HIDE DEF t
    <2> QED BY <1>1, <1>2, <1>5, <2>1, <2>2 DEF t
  <1> QED BY <1>3, <1>4, <1>5

LEMMA NextNumber ==
  ASSUME NEW n \in Id, n + 1 < IdSpace
  PROVE  Successor(n) = n + 1 /\ n \in Nat
  BY IdAssumption DEF Successor, Id
-----------------------------------------------------------------------------
(***************************************************************************)
(* The way of a request: from a probe that waits for its slot to one that  *)
(* runs, a result in the channel and the result the loop holds.            *)
(***************************************************************************)

LEMMA DistinctAppended ==
  ASSUME NEW s \in Seq(Result), AllDistinct(s), NEW r \in Result,
         \A x \in Range(s) : ~SameRequest(r, x)
  PROVE  AllDistinct(Append(s, r))
  <1> DEFINE t == Append(s, r)
  <1>1. /\ Len(t) = Len(s) + 1 /\ Len(s) \in Nat
        /\ DOMAIN s = 1 .. Len(s)
        /\ \A i \in 1 .. Len(s) : t[i] = s[i]
        /\ t[Len(s) + 1] = r
    BY AppendProperties, LenProperties
  <1>2. \A i \in 1 .. Len(s) : s[i] \in Range(s)
    BY <1>1 DEF Range
  <1> HIDE DEF t
  <1>3. ASSUME NEW i \in 1 .. Len(t), NEW j \in 1 .. Len(t), SameRequest(t[i], t[j])
        PROVE  i = j
    <2>1. CASE i # Len(s) + 1 /\ j # Len(s) + 1
      <3>1. i \in 1 .. Len(s) /\ j \in 1 .. Len(s)
        BY <1>1, <2>1
      <3> QED BY <1>1, <1>3, <3>1 DEF AllDistinct
    <2>2. CASE i = Len(s) + 1 /\ j # Len(s) + 1
      <3>1. j \in 1 .. Len(s)
        BY <1>1, <2>2
      <3> QED BY <1>1, <1>2, <1>3, <2>2, <3>1
    <2>3. CASE i # Len(s) + 1 /\ j = Len(s) + 1
      <3>1. i \in 1 .. Len(s)
        BY <1>1, <2>3
      <3> QED BY <1>1, <1>2, <1>3, <2>3, <3>1 DEF SameRequest
    <2> QED BY <2>1, <2>2, <2>3
  <1> QED BY <1>3 DEF AllDistinct, t

LEMMA DistinctTail ==
  ASSUME NEW s \in Seq(Result), AllDistinct(s), s # <<>>
  PROVE  /\ AllDistinct(Tail(s))
         /\ \A x \in Range(Tail(s)) : ~SameRequest(Head(s), x)
  <1>1. /\ Len(s) \in Nat \ {0}
        /\ Len(Tail(s)) = Len(s) - 1
        /\ DOMAIN Tail(s) = 1 .. Len(s) - 1
        /\ \A i \in 1 .. Len(s) - 1 : Tail(s)[i] = s[i + 1]
        /\ Head(s) = s[1]
    BY HeadTailProperties, LenProperties, EmptySeq
  <1>2. AllDistinct(Tail(s))
    <2> SUFFICES ASSUME NEW i \in 1 .. Len(s) - 1, NEW j \in 1 .. Len(s) - 1,
                        SameRequest(s[i + 1], s[j + 1])
                 PROVE  i = j
      BY <1>1 DEF AllDistinct
    <2>1. i + 1 \in 1 .. Len(s) /\ j + 1 \in 1 .. Len(s)
      BY <1>1
    <2>2. i + 1 = j + 1
      BY <2>1 DEF AllDistinct
    <2> QED BY <2>2
  <1>3. ASSUME NEW x \in Range(Tail(s)), SameRequest(Head(s), x)
        PROVE  FALSE
    <2>1. PICK i \in 1 .. Len(s) - 1 : x = s[i + 1]
      BY <1>1 DEF Range
    <2>2. 1 \in 1 .. Len(s) /\ i + 1 \in 1 .. Len(s) /\ i + 1 # 1
      BY <1>1
    <2> QED BY <1>1, <1>3, <2>1, <2>2 DEF AllDistinct
  <1> QED BY <1>2, <1>3

\* The same request, at a later stage.
Descends(q, p) ==
  /\ SameRequest(q, p) /\ q.generation = p.generation
  /\ q.started \in {p.started, clock}

RequestsFollow ==
  /\ \A q \in Outstanding' : \E p \in Outstanding : Descends(q, p)
  /\ ~ctxDone => \A p \in Outstanding : \E q \in Outstanding' : Descends(q, p)

LEMMA StartKeepsRequests ==
  ASSUME TypeOK, RequestsAreDistinct, ProbesRunForward,
         NEW p \in probes, ProbeStart(p)
  PROVE  RequestsAreDistinct' /\ ProbesRunForward' /\ RequestsFollow
  <1> DEFINE n == [p EXCEPT !.started = clock]
  <1>1. /\ n.key = p.key /\ n.probeID = p.probeID /\ n.generation = p.generation
        /\ n.started = clock /\ clock \in Nat
    BY DEF TypeOK, Probe, Time
  <1>2. probes' = (probes \ {p}) \cup {n} /\ UNCHANGED <<probeResults, held, clock>>
    BY DEF ProbeStart, environment, loop
  <1> HIDE DEF n
  <1>3. \A q : /\ SameRequest(n, q) <=> SameRequest(p, q)
               /\ SameRequest(q, n) <=> SameRequest(q, p)
    BY <1>1 DEF SameRequest
  <1>4. RequestsAreDistinct'
    <2>1. \A q, r \in probes' : SameRequest(q, r) => q = r
      <3> SUFFICES ASSUME NEW q \in probes', NEW r \in probes', SameRequest(q, r)
                   PROVE  q = r
        OBVIOUS
      <3>1. CASE q # n /\ r # n
        BY <1>2, <3>1 DEF RequestsAreDistinct
      <3>2. CASE q = n /\ r # n
        <4>1. r \in probes /\ r # p /\ SameRequest(p, r)
          BY <1>2, <1>3, <3>2
        <4> QED BY <4>1 DEF RequestsAreDistinct
      <3>3. CASE q # n /\ r = n
        <4>1. q \in probes /\ q # p /\ SameRequest(q, p)
          BY <1>2, <1>3, <3>3
        <4> QED BY <4>1 DEF RequestsAreDistinct
      <3> QED BY <3>1, <3>2, <3>3
    <2> QED BY <1>2, <1>3, <2>1 DEF RequestsAreDistinct, AllDistinct
  <1>5. ProbesRunForward'
    BY <1>1, <1>2 DEF ProbesRunForward
  <1>6. Descends(n, p) /\ \A q : Descends(q, q)
    BY <1>1 DEF Descends, SameRequest
  <1>7. Outstanding' = (probes \ {p}) \cup {n} \cup Range(probeResults) \cup held
    BY <1>2 DEF Outstanding
  <1>8. RequestsFollow
    <2>1. \A q \in Outstanding' : \E o \in Outstanding : Descends(q, o)
      BY <1>6, <1>7 DEF Outstanding
    <2>2. \A o \in Outstanding : \E q \in Outstanding' : Descends(q, o)
      BY <1>6, <1>7 DEF Outstanding
    <2> QED BY <2>1, <2>2 DEF RequestsFollow
  <1> QED BY <1>4, <1>5, <1>8

LEMMA ReportKeepsRequests ==
  ASSUME TypeOK, RequestsAreDistinct, ProbesRunForward,
         NEW p \in probes, NEW online \in BOOLEAN, p.started # NoTime,
         ProbeReport(p, online), UNCHANGED <<held, clock>>
  PROVE  RequestsAreDistinct' /\ ProbesRunForward' /\ RequestsFollow
  <1> DEFINE r == [key |-> p.key, ip |-> p.ip, generation |-> p.generation,
                   probeID |-> p.probeID, deadline |-> p.deadline,
                   started |-> p.started, online |-> online, checked |-> clock]
  <1>1. /\ r.key = p.key /\ r.probeID = p.probeID /\ r.generation = p.generation
        /\ r.started = p.started /\ r.checked = clock
        /\ r \in Result
    BY DEF TypeOK, Probe, Result
  <1>2. probes' = probes \ {p} /\ probeResults' = Append(probeResults, r)
    BY DEF ProbeReport
  <1> HIDE DEF r
  <1>3. /\ probeResults \in Seq(Result)
        /\ Range(probeResults') = Range(probeResults) \cup {r}
    BY <1>1, <1>2, AppendRange DEF TypeOK
  <1>4. \A q : /\ SameRequest(r, q) <=> SameRequest(p, q)
               /\ SameRequest(q, r) <=> SameRequest(q, p)
    BY <1>1 DEF SameRequest
  <1>5. \A x \in Range(probeResults) : ~SameRequest(r, x)
    BY <1>4 DEF RequestsAreDistinct
  <1>6. AllDistinct(probeResults')
    BY <1>1, <1>2, <1>3, <1>5, DistinctAppended DEF RequestsAreDistinct
  <1>7. RequestsAreDistinct'
    <2>1. \A q \in probes', x \in Range(probeResults') \cup held' : ~SameRequest(q, x)
      BY <1>2, <1>3, <1>4 DEF RequestsAreDistinct
    <2>2. \A h \in held', x \in Range(probeResults') : ~SameRequest(h, x)
      BY <1>3, <1>4 DEF RequestsAreDistinct, SameRequest
    <2>3. AllDistinct(probeResults)' <=> AllDistinct(probeResults')
      BY DEF AllDistinct
    <2> QED BY <1>2, <1>6, <2>1, <2>2, <2>3 DEF RequestsAreDistinct
  <1>8. ProbesRunForward'
    BY <1>1, <1>2, <1>3 DEF ProbesRunForward
  <1>9. Descends(r, p) /\ \A q : Descends(q, q)
    BY <1>1 DEF Descends, SameRequest
  <1>10. Outstanding' = (probes \ {p}) \cup {r} \cup Range(probeResults) \cup held
    BY <1>2, <1>3 DEF Outstanding
  <1>11. RequestsFollow
    <2>1. \A q \in Outstanding' : \E o \in Outstanding : Descends(q, o)
      BY <1>9, <1>10 DEF Outstanding
    <2>2. \A o \in Outstanding : \E q \in Outstanding' : Descends(q, o)
      BY <1>9, <1>10 DEF Outstanding
    <2> QED BY <2>1, <2>2 DEF RequestsFollow
  <1> QED BY <1>7, <1>8, <1>11

LEMMA AbandonKeepsRequests ==
  ASSUME RequestsAreDistinct, ProbesRunForward, NEW p \in probes, ProbeAbandoned(p)
  PROVE  RequestsAreDistinct' /\ ProbesRunForward' /\ RequestsFollow
  <1>1. /\ probes' = probes \ {p} /\ ctxDone
        /\ UNCHANGED <<probeResults, held, clock>>
    BY DEF ProbeAbandoned, environment, loop
  <1>2. RequestsAreDistinct' /\ ProbesRunForward'
    BY <1>1 DEF RequestsAreDistinct, AllDistinct, ProbesRunForward
  <1>3. RequestsFollow
    BY <1>1 DEF RequestsFollow, Outstanding, Descends, SameRequest
  <1> QED BY <1>2, <1>3

LEMMA TakeKeepsRequests ==
  ASSUME TypeOK, RequestsAreDistinct, ProbesRunForward, HeldWhileDraining, TakeResult
  PROVE  RequestsAreDistinct' /\ ProbesRunForward' /\ RequestsFollow
  <1> DEFINE r == Head(probeResults)
  <1>1. /\ probeResults \in Seq(Result) /\ probeResults # <<>>
        /\ probeResults' = Tail(probeResults) /\ held' = {r}
        /\ UNCHANGED <<probes, clock>>
    BY DEF TakeResult, TypeOK, environment
  <1>2. held = {}
    BY DEF HeldWhileDraining, TakeResult
  <1>3. Range(probeResults) = Range(probeResults') \cup {r}
    BY <1>1, TailRange
  <1>4. AllDistinct(probeResults') /\ \A x \in Range(probeResults') : ~SameRequest(r, x)
    BY <1>1, DistinctTail DEF RequestsAreDistinct
  <1>5. AllDistinct(probeResults)' <=> AllDistinct(probeResults')
    BY DEF AllDistinct
  <1> HIDE DEF r
  <1>6. RequestsAreDistinct'
    BY <1>1, <1>3, <1>4, <1>5 DEF RequestsAreDistinct
  <1>7. ProbesRunForward'
    BY <1>1, <1>2, <1>3 DEF ProbesRunForward
  <1>8. Outstanding' = Outstanding
    BY <1>1, <1>2, <1>3 DEF Outstanding
  <1>9. RequestsFollow
    BY <1>8 DEF RequestsFollow, Descends, SameRequest
  <1> QED BY <1>6, <1>7, <1>9
-----------------------------------------------------------------------------
(***************************************************************************)
(* What a step does to the entries, and to the requests about them.        *)
(***************************************************************************)

\* The entry, as far as a probe can tell, is as it was.
EntryKept(d) ==
  /\ d \in DOMAIN states /\ d \in DOMAIN states'
  /\ Alike(states[d], states'[d])
  /\ missed'[d] = missed[d]

\* The device has been seen, maybe for the first time.
EntryRenewed(d) ==
  /\ d \in DOMAIN states'
  /\ d \in DOMAIN states => states'[d].probeID = states[d].probeID + 1
  /\ d \notin DOMAIN states => states'[d].probeID = 0
  /\ ~states'[d].probePending
  /\ states'[d].offlineDeadline = NoTime
  /\ missed'[d] = NoTime

EntriesFollow ==
  /\ DOMAIN states \subseteq DOMAIN states'
  /\ \A d \in DOMAIN states' : EntryKept(d) \/ EntryRenewed(d)
  /\ \A d \in Devices : missed'[d] \in {missed[d], NoTime}

\* The numbers are numbers.
LEMMA NumberTypes ==
  ASSUME TypeOK
  PROVE  /\ clock \in Nat
         /\ \A d \in Devices : missed[d] \in Int
         /\ \A d \in DOMAIN states :
              /\ d \in Devices /\ states[d] \in DeviceState
              /\ states[d].probeID \in Nat /\ states[d].probeID \in Id
              /\ states[d].probePending \in BOOLEAN
              /\ states[d].lastSeen \in Nat
              /\ states[d].offlineDeadline \in Int
         /\ \A q \in Outstanding :
              q.key \in Devices /\ q.probeID \in Nat /\ q.started \in Int
  <1>1. \A q \in Outstanding : q \in Probe \cup Result
    <2>1. Range(probeResults) \subseteq Result
      BY RangeType DEF TypeOK
    <2> QED BY <2>1 DEF TypeOK, Outstanding
  <1>2. \A q \in Probe \cup Result :
          q.key \in Devices /\ q.probeID \in Nat /\ q.started \in Int
    BY IdAssumption DEF Probe, Result, Id, Time, NoTime
  <1>3. \A s \in DeviceState :
          /\ s.probeID \in Nat /\ s.probeID \in Id /\ s.probePending \in BOOLEAN
          /\ s.lastSeen \in Nat /\ s.offlineDeadline \in Int
    BY IdAssumption DEF DeviceState, Id, Time, NoTime
  <1>4. /\ clock \in Nat
        /\ \A d \in Devices : missed[d] \in Int
        /\ \A d \in DOMAIN states : d \in Devices /\ states[d] \in DeviceState
    BY DEF TypeOK, Time, NoTime
  <1> QED BY <1>1, <1>2, <1>3, <1>4

LEMMA FollowStep ==
  ASSUME IInv, CandidatesHaveMissed, LiveRequestsArePending, PendingIsOutstanding,
         RequestsFollow, EntriesFollow, TypeOK',
         ctxDone => ctxDone', clock <= clock'
  PROVE  CandidatesHaveMissed' /\ LiveRequestsArePending' /\ PendingIsOutstanding'
  <1>0. TypeOK /\ ProbesAreAboutEntries /\ ReadingsArePast
    BY DEF IInv
  <1>1. CandidatesHaveMissed'
    <2>1. ASSUME NEW d \in Devices
          PROVE  missed'[d] <= clock'
      <3>1. missed[d] <= clock /\ missed'[d] \in {missed[d], -1}
        BY DEF CandidatesHaveMissed, EntriesFollow, NoTime
      <3>2. clock \in Nat /\ clock' \in Nat /\ missed[d] \in Int
        BY <1>0 DEF TypeOK, Time, NoTime
      <3> QED BY <3>1, <3>2
    <2>2. ASSUME NEW d \in DOMAIN states'
          PROVE  /\ missed'[d] # NoTime => states'[d].lastSeen <= missed'[d]
                 /\ states'[d].offlineDeadline # NoTime => missed'[d] # NoTime
      BY DEF EntriesFollow, EntryKept, EntryRenewed, Alike, CandidatesHaveMissed
    <2> QED BY <2>1, <2>2 DEF CandidatesHaveMissed
  <1>2. LiveRequestsArePending'
    <2> SUFFICES ASSUME NEW q \in Outstanding'
                 PROVE  /\ q.probeID <= states'[q.key].probeID
                        /\ q.probeID = states'[q.key].probeID =>
                             /\ states'[q.key].probePending
                             /\ q.generation = states'[q.key].generation
                             /\ q.started # NoTime =>
                                  /\ states'[q.key].lastSeen <= q.started
                                  /\ missed'[q.key] <= q.started
      BY DEF LiveRequestsArePending, Live
    <2>1. PICK p \in Outstanding : Descends(q, p)
      BY DEF RequestsFollow
    <2>2. /\ q.key = p.key /\ q.probeID = p.probeID /\ q.generation = p.generation
          /\ q.started \in {p.started, clock}
          /\ p.key \in DOMAIN states /\ p.key \in DOMAIN states' /\ p.key \in Devices
          /\ p.probeID \in Nat /\ states[p.key].probeID \in Nat
          /\ p.probeID <= states[p.key].probeID
      BY <1>0, <2>1, NumberTypes
      DEF Descends, SameRequest, ProbesAreAboutEntries, EntriesFollow,
          LiveRequestsArePending
    <2>3. CASE EntryRenewed(p.key)
      BY <2>2, <2>3 DEF EntryRenewed
    <2>4. CASE EntryKept(p.key)
      <3>1. /\ states'[p.key].probeID = states[p.key].probeID
            /\ states'[p.key].probePending = states[p.key].probePending
            /\ states'[p.key].generation = states[p.key].generation
            /\ states'[p.key].lastSeen = states[p.key].lastSeen
            /\ missed'[p.key] = missed[p.key]
        BY <2>4 DEF EntryKept, Alike
      <3>2. states[p.key].lastSeen <= clock /\ missed[p.key] <= clock
        BY <1>0, <2>2 DEF ReadingsArePast, CandidatesHaveMissed
      <3>3. p.probeID = states[p.key].probeID =>
              /\ states[p.key].probePending
              /\ p.generation = states[p.key].generation
              /\ p.started # NoTime =>
                   states[p.key].lastSeen <= p.started /\ missed[p.key] <= p.started
        BY DEF LiveRequestsArePending, Live
      <3> QED BY <2>2, <3>1, <3>2, <3>3
    <2> QED BY <2>2, <2>3, <2>4 DEF EntriesFollow
  <1>3. PendingIsOutstanding'
    <2> SUFFICES ASSUME ~ctxDone', NEW d \in DOMAIN states', states'[d].probePending
                 PROVE  \E q \in Outstanding' : q.key = d /\ q.probeID = states'[q.key].probeID
      BY DEF PendingIsOutstanding, Live
    <2>1. EntryKept(d)
      BY DEF EntriesFollow, EntryRenewed
    <2>2. PICK p \in Outstanding : p.key = d /\ p.probeID = states[d].probeID
      BY <2>1 DEF PendingIsOutstanding, Live, EntryKept, Alike
    <2>3. PICK q \in Outstanding' : Descends(q, p)
      BY DEF RequestsFollow
    <2> QED BY <2>1, <2>2, <2>3 DEF Descends, SameRequest, EntryKept, Alike
  <1> QED BY <1>1, <1>2, <1>3

\* Steps that leave the requests and the entries alone.
LEMMA NothingToFollow ==
  ASSUME TypeOK, UNCHANGED <<probes, probeResults, held, states, missed>>
  PROVE  /\ RequestsAreDistinct => RequestsAreDistinct'
         /\ RequestsFollow /\ EntriesFollow
  <1>1. Outstanding' = Outstanding
    BY DEF Outstanding
  <1>2. RequestsFollow
    BY <1>1 DEF RequestsFollow, Descends, SameRequest
  <1>3. EntriesFollow
    BY DEF EntriesFollow, EntryKept, Alike
  <1> QED BY <1>2, <1>3 DEF RequestsAreDistinct, AllDistinct

\* A frame or a message renews one entry or none, and leaves the queue.
LEMMA EvidenceStep ==
  ASSUME TypeOK, TypeOK', NumbersSuffice, NumbersAreNotReused,
         TakeTraffic \/ Receive
  PROVE  /\ EntriesFollow
         /\ \E d : \A e \in DOMAIN states' : e # d => EntryKept(e)
         /\ UNCHANGED <<probes, probeResults, held, clock, ctxDone, inputs>>
         /\ Queued' = Queued - 1
  <1>0. /\ clock \in Nat /\ inputs \in Nat /\ MaxInputs \in Nat /\ MaxTime \in Nat
        /\ Len(netlink) \in Nat /\ Len(traffic) \in Nat
        /\ Queued \in Nat
    <2>1. /\ clock \in Nat /\ inputs \in Nat /\ MaxInputs \in Nat /\ MaxTime \in Nat
          /\ Len(netlink) \in Nat /\ Len(traffic) \in Nat
      BY CollectorAssumption, LenProperties DEF TypeOK, Time
    <2> QED BY <2>1 DEF Queued
  <1>1. UNCHANGED <<probes, probeResults, held, clock, ctxDone, inputs>>
    BY DEF TakeTraffic, Receive, environment, probing
  <1>2. ASSUME NEW d \in DOMAIN states, Queued > 0
        PROVE  /\ Successor(states[d].probeID) = states[d].probeID + 1
    <2>1. /\ states[d].probeID \in Id /\ states[d].probeID \in Nat /\ d \in Devices
          /\ Used(d) + Queued <= inputs + 2 * clock
          /\ inputs <= MaxInputs /\ clock <= MaxTime
      BY NumberTypes DEF NumbersSuffice
    <2>2. Used(d) >= states[d].probeID
      BY <2>1 DEF Used
    <2>3. Used(d) \in Nat
      BY <2>1 DEF Used
    <2>4. states[d].probeID + 1 < IdSpace
      BY <1>0, <1>2, <2>1, <2>2, <2>3, IdAssumption DEF NumbersAreNotReused
    <2> QED BY <2>1, <2>4, NextNumber
  <1>3. CASE TakeTraffic
    <2> DEFINE f == Head(traffic)
    <2>1. /\ traffic \in Seq(Frame) /\ traffic # <<>>
          /\ traffic' = Tail(traffic)
          /\ UNCHANGED <<netlink, captured, tick>>
      BY <1>3 DEF TakeTraffic, TypeOK
    <2>2. Len(traffic') = Len(traffic) - 1 /\ Len(traffic) \in Nat \ {0} /\ f \in Frame
      BY <2>1, HeadTailProperties, EmptySeq, LenProperties
    <2>3. Queued > 0 /\ Queued' = Queued - 1
      BY <1>0, <2>1, <2>2 DEF Queued
    <2>4. f.mac \in Devices /\ f.observedAt \in Time
      BY <2>2 DEF Frame
    <2> HIDE DEF f
    <2>5. CASE f.mac \notin DOMAIN states
      <3>1. UNCHANGED <<states, missed>>
        BY <1>3, <2>5 DEF TakeTraffic, f
      <3>2. \A e \in DOMAIN states' : EntryKept(e)
        BY <3>1 DEF EntryKept, Alike
      <3> QED BY <1>1, <2>3, <3>1, <3>2 DEF EntriesFollow
    <2>6. CASE f.mac \in DOMAIN states
      <3> DEFINE s == states[f.mac]
                 o == ObserveTraffic(s, f.observedAt)
      <3>1. s \in DeviceState
        BY <2>6, NumberTypes
      <3>2. /\ Conclude(f.mac, o, pc)
            /\ missed' = IF Outdated(s, f.observedAt) THEN missed
                         ELSE [missed EXCEPT ![f.mac] = NoTime]
        BY <1>3, <2>6 DEF TakeTraffic, f
      <3>3. /\ Outdated(s, f.observedAt) => o.state = s
            /\ ~Outdated(s, f.observedAt) => Renewed(s, o.state)
        BY <2>4, <3>1, ObserveTrafficNumbers
      <3> HIDE DEF o
      <3>4. /\ DOMAIN states' = DOMAIN states \cup {f.mac}
            /\ states'[f.mac] = o.state
            /\ \A e \in DOMAIN states : e # f.mac => states'[e] = states[e]
        BY <3>2 DEF Conclude
      <3>5. \A e \in Devices : /\ e # f.mac => missed'[e] = missed[e]
                               /\ missed'[e] \in {missed[e], NoTime}
        BY <2>4, <3>2 DEF TypeOK
      <3>6. \A e \in DOMAIN states' : e # f.mac => EntryKept(e)
        <4>1. DOMAIN states \subseteq Devices
          BY DEF TypeOK
        <4> QED BY <3>4, <3>5, <4>1 DEF EntryKept, Alike
      <3>7. EntryKept(f.mac) \/ EntryRenewed(f.mac)
        <4>1. CASE Outdated(s, f.observedAt)
          BY <2>6, <3>2, <3>3, <3>4, <4>1 DEF EntryKept, Alike
        <4>2. CASE ~Outdated(s, f.observedAt)
          <5>1. missed'[f.mac] = NoTime
            BY <2>4, <3>2, <4>2 DEF TypeOK
          <5> QED BY <1>2, <2>3, <2>6, <3>3, <3>4, <4>2, <5>1 DEF EntryRenewed, Renewed
        <4> QED BY <4>1, <4>2
      <3>8. EntriesFollow
        BY <3>4, <3>5, <3>6, <3>7 DEF EntriesFollow
      <3> QED BY <1>1, <2>3, <3>6, <3>8
    <2> QED BY <2>5, <2>6
  <1>4. CASE Receive
    <2> DEFINE m == Head(netlink)
    <2>1. /\ netlink \in Seq(Message) /\ netlink # <<>>
          /\ netlink' = Tail(netlink)
          /\ UNCHANGED <<traffic, captured, tick>>
      BY <1>4 DEF Receive, TypeOK
    <2>2. Len(netlink') = Len(netlink) - 1 /\ Len(netlink) \in Nat \ {0} /\ m \in Message
      BY <2>1, HeadTailProperties, EmptySeq, LenProperties
    <2>3. Queued > 0 /\ Queued' = Queued - 1
      BY <1>0, <2>1, <2>2 DEF Queued
    <2>4. m.mac \in Devices /\ m.ip \in Addresses /\ m.confirmed \in BOOLEAN /\ clock \in Time
      BY <1>0, <2>2 DEF Message, Time
    <2>5. missed' = IF m.confirmed THEN [missed EXCEPT ![m.mac] = NoTime] ELSE missed
      BY <1>4 DEF Receive
    <2> HIDE DEF m
    <2>6. \A e \in Devices : /\ e # m.mac => missed'[e] = missed[e]
                             /\ missed'[e] \in {missed[e], NoTime}
                             /\ m.confirmed => missed'[m.mac] = NoTime
                             /\ ~m.confirmed => missed'[e] = missed[e]
      BY <2>4, <2>5 DEF TypeOK
    <2>7. ASSUME NEW o, Conclude(m.mac, o, "netlink"),
                 \/ /\ m.mac \in DOMAIN states
                    /\ m.confirmed => Renewed(states[m.mac], o.state)
                    /\ ~m.confirmed => Alike(states[m.mac], o.state)
                 \/ /\ m.mac \notin DOMAIN states /\ m.confirmed
                    /\ o.state.probeID = 0 /\ ~o.state.probePending
                    /\ o.state.offlineDeadline = NoTime
          PROVE  EntriesFollow /\ \A e \in DOMAIN states' : e # m.mac => EntryKept(e)
      <3>1. /\ DOMAIN states' = DOMAIN states \cup {m.mac}
            /\ states'[m.mac] = o.state
            /\ \A e \in DOMAIN states : e # m.mac => states'[e] = states[e]
        BY <2>7 DEF Conclude
      <3>2. \A e \in DOMAIN states' : e # m.mac => EntryKept(e)
        <4>1. DOMAIN states \subseteq Devices
          BY DEF TypeOK
        <4> QED BY <2>6, <3>1, <4>1 DEF EntryKept, Alike
      <3>3. EntryKept(m.mac) \/ EntryRenewed(m.mac)
        <4>1. CASE ~m.confirmed
          BY <2>4, <2>6, <2>7, <3>1, <4>1 DEF EntryKept
        <4>2. CASE m.confirmed /\ m.mac \in DOMAIN states
          BY <1>2, <2>3, <2>4, <2>6, <2>7, <3>1, <4>2 DEF EntryRenewed, Renewed
        <4>3. CASE m.confirmed /\ m.mac \notin DOMAIN states
          BY <2>4, <2>6, <2>7, <3>1, <4>3 DEF EntryRenewed
        <4> QED BY <2>4, <4>1, <4>2, <4>3
      <3> QED BY <2>6, <3>1, <3>2, <3>3 DEF EntriesFollow
    <2>8. EntriesFollow /\ \E d : \A e \in DOMAIN states' : e # d => EntryKept(e)
      <3>1. CASE m.mac \in DOMAIN states
        <4> DEFINE o == ObserveNeighbor(states[m.mac], m.ip, m.confirmed, clock)
        <4>1. Conclude(m.mac, o, "netlink")
          BY <1>4, <3>1 DEF Receive, m
        <4>2. /\ m.confirmed => Renewed(states[m.mac], o.state)
              /\ ~m.confirmed => Alike(states[m.mac], o.state)
          BY <2>4, <3>1, NumberTypes, ObserveNeighborNumbers
        <4> HIDE DEF o
        <4> QED BY <2>7, <3>1, <4>1, <4>2
      <3>2. CASE m.mac \notin DOMAIN states /\ m.confirmed
        <4> DEFINE o == Outcome(NewDeviceState(m.ip, TRUE, clock), "connected")
        <4>1. Conclude(m.mac, o, "netlink")
          BY <1>4, <3>2 DEF Receive, m
        <4>2. /\ o.state.probeID = 0 /\ ~o.state.probePending
              /\ o.state.offlineDeadline = NoTime
          BY DEF Outcome, NewDeviceState
        <4> HIDE DEF o
        <4> QED BY <2>7, <3>2, <4>1, <4>2
      <3>3. CASE m.mac \notin DOMAIN states /\ ~m.confirmed
        <4>1. UNCHANGED states
          BY <1>4, <3>3 DEF Receive, m
        <4>2. UNCHANGED missed
          BY <2>5, <3>3
        <4>3. \A e \in DOMAIN states' : EntryKept(e)
          BY <4>1, <4>2 DEF EntryKept, Alike
        <4> QED BY <4>1, <4>2, <4>3 DEF EntriesFollow
      <3> QED BY <3>1, <3>2, <3>3
    <2> QED BY <1>1, <2>3, <2>8
  <1> QED BY <1>3, <1>4
-----------------------------------------------------------------------------
(***************************************************************************)
(* The two steps that begin a probe and end it.                            *)
(***************************************************************************)

\* A tick leaves room for two more numbers, and the next one was never given.
LEMMA FreshNumber ==
  ASSUME TypeOK, NumbersSuffice, LiveRequestsArePending, NumbersAreNotReused, tick,
         NEW d \in DOMAIN states
  PROVE  /\ Successor(states[d].probeID) = states[d].probeID + 1
         /\ \A q \in Outstanding : ~SameRequest(q, NewProbe(d))
  <1>1. /\ clock \in Nat /\ inputs \in Nat /\ MaxInputs \in Nat /\ MaxTime \in Nat
        /\ IdSpace \in Nat /\ Len(netlink) \in Nat /\ Len(traffic) \in Nat
    BY CollectorAssumption, IdAssumption, LenProperties DEF TypeOK, Time
  <1>2. Queued \in Nat /\ Queued >= 2
    BY <1>1 DEF Queued
  <1>3. /\ states[d].probeID \in Id /\ d \in Devices /\ states[d].probeID \in Nat
        /\ Used(d) + Queued <= inputs + 2 * clock
        /\ inputs <= MaxInputs /\ clock <= MaxTime
    BY NumberTypes DEF NumbersSuffice
  <1>4. Used(d) \in Nat /\ states[d].probeID <= Used(d)
    BY <1>3 DEF Used
  <1>5. states[d].probeID + 1 < IdSpace
    BY <1>1, <1>2, <1>3, <1>4 DEF NumbersAreNotReused
  <1>6. Successor(states[d].probeID) = states[d].probeID + 1
    BY <1>3, <1>5, NextNumber
  <1>7. ASSUME NEW q \in Outstanding, SameRequest(q, NewProbe(d))
        PROVE  FALSE
    <2>1. q.key = d /\ q.probeID = states[d].probeID + 1
      BY <1>6, <1>7 DEF SameRequest, NewProbe
    <2>2. q.probeID <= states[d].probeID
      BY <2>1 DEF LiveRequestsArePending
    <2> QED BY <1>3, <2>1, <2>2
  <1> QED BY <1>6, <1>7

\* New probes have numbers that were never given.
LEMMA TickStep ==
  ASSUME IInv, RequestInv, NumbersAreNotReused, TypeOK', TakeTick
  PROVE  /\ RequestsAreDistinct' /\ ProbesRunForward' /\ CandidatesHaveMissed'
         /\ LiveRequestsArePending' /\ PendingIsOutstanding' /\ NumbersSuffice'
  <1>0. /\ TypeOK /\ ProbesAreAboutEntries /\ ReadingsArePast
        /\ RequestsAreDistinct /\ LiveRequestsArePending /\ PendingIsOutstanding
        /\ ProbesRunForward /\ CandidatesHaveMissed /\ NumbersSuffice
    BY DEF IInv, RequestInv
  <1>1. /\ clock \in Nat /\ inputs \in Nat /\ MaxInputs \in Nat /\ MaxTime \in Nat
        /\ IdSpace \in Nat /\ Len(netlink) \in Nat /\ Len(traffic) \in Nat
    BY <1>0, CollectorAssumption, IdAssumption, LenProperties DEF TypeOK, Time
  <1>2. /\ UNCHANGED <<clock, inputs, ctxDone, captured, traffic, netlink, held,
                       probeResults, missed>>
        /\ tick /\ ~tick'
    BY DEF TakeTick, environment, history
  <1>3. Queued' = Queued - 2 /\ Queued \in Nat /\ Queued >= 2
    BY <1>1, <1>2 DEF Queued
  <1>4. CASE ~DetectOffline
    <2>1. UNCHANGED <<states, probes>>
      BY <1>4 DEF TakeTick
    <2>2. RequestsAreDistinct' /\ RequestsFollow /\ EntriesFollow
      BY <1>0, <1>2, <2>1, NothingToFollow
    <2>3. /\ CandidatesHaveMissed' /\ LiveRequestsArePending' /\ PendingIsOutstanding'
      BY <1>0, <1>1, <1>2, <2>2, FollowStep
    <2>4. ProbesRunForward'
      BY <1>0, <1>2, <2>1 DEF ProbesRunForward
    <2>5. NumbersSuffice'
      <3>1. ASSUME NEW d \in Devices
            PROVE  Used(d)' = Used(d) /\ Used(d) \in Nat
        BY <1>0, <2>1, NumberTypes DEF Used
      <3> QED BY <1>0, <1>1, <1>2, <1>3, <3>1 DEF NumbersSuffice
    <2> QED BY <2>2, <2>3, <2>4, <2>5
  <1>5. CASE DetectOffline
    <2>1. PICK chosen \in Selection(FreeProbes) :
            /\ states' = [d \in DOMAIN states |->
                            IF d \in chosen THEN BeginProbe(states[d]) ELSE states[d]]
            /\ probes' = probes \cup {NewProbe(d) : d \in chosen}
      BY <1>5 DEF TakeTick
    <2>2. \A d \in chosen : d \in DOMAIN states /\ ~states[d].probePending
      BY DEF Selection, Due
    <2>3. \A d \in DOMAIN states :
            /\ d \in Devices /\ states[d] \in DeviceState /\ states[d].probeID \in Nat
            /\ states[d].probePending \in BOOLEAN
      BY <1>0, NumberTypes
    <2>4. \A d \in DOMAIN states :
            /\ Successor(states[d].probeID) = states[d].probeID + 1
            /\ \A q \in Outstanding : ~SameRequest(q, NewProbe(d))
      BY <1>0, <1>2, FreshNumber
    <2>5. /\ DOMAIN states' = DOMAIN states
          /\ \A d \in DOMAIN states : d \notin chosen => states'[d] = states[d]
          /\ \A d \in chosen :
               /\ states'[d].probeID = states[d].probeID + 1
               /\ states'[d].probePending
               /\ states'[d].generation = states[d].generation
               /\ states'[d].lastSeen = states[d].lastSeen
               /\ states'[d].offlineDeadline = states[d].offlineDeadline
      BY <2>1, <2>2, <2>3, <2>4 DEF BeginProbe, DeviceState
    <2> DEFINE N == {NewProbe(d) : d \in chosen}
    <2>6. \A n \in N : /\ n.key \in chosen /\ n = NewProbe(n.key)
                       /\ n.probeID = states[n.key].probeID + 1
                       /\ n.generation = states[n.key].generation
                       /\ n.started = NoTime
      BY <2>2, <2>4 DEF NewProbe
    <2>7. \A d \in chosen : \E n \in N : n.key = d
      <3> TAKE d \in chosen
      <3>1. NewProbe(d) \in N /\ NewProbe(d).key = d
        BY DEF NewProbe
      <3> QED BY <3>1
    <2>8. probes' = probes \cup N
      BY <2>1
    <2> HIDE DEF N
    <2>9. Outstanding' = Outstanding \cup N
      BY <1>2, <2>8 DEF Outstanding
    <2>10. \A q \in Outstanding :
             /\ q.key \in DOMAIN states /\ q.probeID \in Nat
             /\ q.probeID <= states[q.key].probeID
      BY <1>0, NumberTypes DEF ProbesAreAboutEntries, LiveRequestsArePending
    <2>11. \A q \in Outstanding, n \in N : ~SameRequest(q, n) /\ ~SameRequest(n, q)
      BY <2>2, <2>4, <2>6 DEF SameRequest
    <2>12. RequestsAreDistinct'
      <3>1. \A p, q \in probes' : SameRequest(p, q) => p = q
        <4> SUFFICES ASSUME NEW p \in probes', NEW q \in probes', SameRequest(p, q)
                     PROVE  p = q
          OBVIOUS
        <4>1. CASE p \in N /\ q \in N
          BY <2>6, <4>1 DEF SameRequest
        <4>2. CASE p \notin N \/ q \notin N
          BY <1>0, <2>8, <2>11, <4>2 DEF RequestsAreDistinct, Outstanding
        <4> QED BY <4>1, <4>2
      <3>2. \A p \in probes', r \in Range(probeResults) \cup held : ~SameRequest(p, r)
        BY <1>0, <2>8, <2>11 DEF RequestsAreDistinct, Outstanding
      <3> QED BY <1>0, <1>2, <3>1, <3>2 DEF RequestsAreDistinct, AllDistinct
    <2>13. ProbesRunForward'
      BY <1>0, <1>1, <1>2, <2>6, <2>8 DEF ProbesRunForward, NoTime
    <2>14. CandidatesHaveMissed'
      BY <1>0, <1>2, <2>5 DEF CandidatesHaveMissed
    <2>15. LiveRequestsArePending'
      <3> SUFFICES ASSUME NEW q \in Outstanding'
                   PROVE  /\ q.probeID <= states'[q.key].probeID
                          /\ q.probeID = states'[q.key].probeID =>
                               /\ states'[q.key].probePending
                               /\ q.generation = states'[q.key].generation
                               /\ q.started # NoTime =>
                                    /\ states'[q.key].lastSeen <= q.started
                                    /\ missed'[q.key] <= q.started
        BY DEF LiveRequestsArePending, Live
      <3>1. CASE q \in N
        BY <2>2, <2>3, <2>5, <2>6, <3>1
      <3>2. CASE q \in Outstanding /\ q.key \in chosen
        BY <2>3, <2>5, <2>10, <3>2
      <3>3. CASE q \in Outstanding /\ q.key \notin chosen
        <4>1. states'[q.key] = states[q.key] /\ missed'[q.key] = missed[q.key]
          BY <1>2, <2>5, <2>10, <3>3
        <4> QED BY <1>0, <3>3, <4>1 DEF LiveRequestsArePending, Live
      <3> QED BY <2>9, <3>1, <3>2, <3>3
    <2>16. PendingIsOutstanding'
      <3> SUFFICES ASSUME ~ctxDone, NEW d \in DOMAIN states, states'[d].probePending
                   PROVE  \E q \in Outstanding' :
                            q.key = d /\ q.probeID = states'[q.key].probeID
        BY <1>2, <2>5 DEF PendingIsOutstanding, Live
      <3>1. CASE d \in chosen
        BY <2>5, <2>6, <2>7, <2>9, <3>1
      <3>2. CASE d \notin chosen
        <4>1. states'[d] = states[d]
          BY <2>5, <3>2
        <4>2. PICK q \in Outstanding : q.key = d /\ q.probeID = states[q.key].probeID
          BY <1>0, <4>1 DEF PendingIsOutstanding, Live
        <4> QED BY <2>9, <4>1, <4>2
      <3> QED BY <3>1, <3>2
    <2>17. NumbersSuffice'
      <3>1. ASSUME NEW d \in Devices
            PROVE  Used(d)' <= Used(d) + 2 /\ Used(d) \in Nat /\ Used(d)' \in Nat
        <4>1. Used(d) \in Nat
          BY <2>3 DEF Used
        <4>2. CASE d \in chosen
          <5>1. Used(d) = states[d].probeID /\ Used(d)' = states[d].probeID + 2
            BY <2>2, <2>3, <2>5, <4>2 DEF Used
          <5> QED BY <2>2, <2>3, <4>2, <5>1
        <4>3. CASE d \notin chosen
          <5>1. Used(d)' = Used(d)
            BY <2>5, <4>3 DEF Used
          <5> QED BY <4>1, <5>1
        <4> QED BY <4>2, <4>3
      <3>2. Queued' \in Nat
        BY <1>3
      <3> QED BY <1>0, <1>1, <1>2, <1>3, <3>1, <3>2 DEF NumbersSuffice
    <2> QED BY <2>12, <2>13, <2>14, <2>15, <2>16, <2>17
  <1> QED BY <1>4, <1>5

\* The result that is applied was the only request with its number: what it leaves
\* behind is older than the entry.
LEMMA ApplyStep ==
  ASSUME IInv, RequestInv, NumbersAreNotReused, ApplyResult
  PROVE  RequestInv'
  <1>0. /\ TypeOK /\ ProbesAreAboutEntries /\ ReadingsArePast
        /\ RequestsAreDistinct /\ LiveRequestsArePending /\ PendingIsOutstanding
        /\ ProbesRunForward /\ CandidatesHaveMissed /\ NumbersSuffice
    BY DEF IInv, RequestInv
  <1>1. /\ clock \in Nat /\ inputs \in Nat /\ MaxInputs \in Nat /\ MaxTime \in Nat
        /\ IdSpace \in Nat /\ Len(netlink) \in Nat /\ Len(traffic) \in Nat
    BY <1>0, CollectorAssumption, IdAssumption, LenProperties DEF TypeOK, Time
  <1>2. /\ UNCHANGED <<clock, inputs, ctxDone, captured, traffic, netlink, tick,
                       probes, probeResults>>
        /\ held' = {}
    BY DEF ApplyResult, environment, senses, probing
  <1>3. Queued' = Queued /\ Queued \in Nat
    BY <1>1, <1>2 DEF Queued
  <1>4. PICK r \in held :
          LET s == states[r.key] IN
          /\ Conclude(r.key, ApplyProbe(s, r), "async")
          /\ missed' = IF Superseded(s, r) THEN missed
                       ELSE IF r.online THEN [missed EXCEPT ![r.key] = NoTime]
                       ELSE IF missed[r.key] = NoTime
                            THEN [missed EXCEPT ![r.key] = r.checked]
                       ELSE missed
    BY DEF ApplyResult
  <1> DEFINE k == r.key
             s == states[k]
             o == ApplyProbe(s, r)
             t == o.state
  <1>5. /\ r \in Result /\ r \in Outstanding /\ k \in DOMAIN states /\ k \in Devices
        /\ s \in DeviceState /\ s.probeID \in Nat /\ s.lastSeen \in Nat
        /\ s.probeID \in Id
        /\ r.probeID \in Nat /\ r.started \in Nat /\ r.checked \in Nat
        /\ r.started <= r.checked /\ r.checked <= clock
    <2>1. r \in Result /\ r \in Outstanding /\ k \in DOMAIN states
      BY <1>0 DEF TypeOK, Outstanding, ProbesAreAboutEntries
    <2>2. /\ k \in Devices /\ s \in DeviceState /\ s.probeID \in Nat
          /\ s.probeID \in Id /\ s.lastSeen \in Nat /\ r.probeID \in Nat
      BY <1>0, <2>1, NumberTypes
    <2>3. r.started \in Nat /\ r.checked \in Nat
      BY <2>1 DEF Result, Time
    <2>4. r.started <= r.checked /\ r.checked <= clock
      BY <1>0 DEF ProbesRunForward, ReadingsArePast
    <2> QED BY <2>1, <2>2, <2>3, <2>4
  <1>6. /\ Outstanding' \subseteq Outstanding
        /\ \A q \in Outstanding : q # r => q \in Outstanding'
        /\ \A q \in Outstanding' : ~SameRequest(q, r)
    <2>1. held = {r}
      BY <1>0 DEF RequestsAreDistinct
    <2>2. \A q \in probes \cup Range(probeResults) : ~SameRequest(q, r)
      BY <1>0 DEF RequestsAreDistinct, SameRequest
    <2> QED BY <1>2, <2>1, <2>2 DEF Outstanding
  <1>7. /\ r.probeID # s.probeID => Superseded(s, r) /\ Alike(s, t)
        /\ r.probeID = s.probeID => ~t.probePending
        /\ ~Superseded(s, r) => r.probeID = s.probeID
        /\ Superseded(s, r) => /\ t.probeID = s.probeID /\ t.lastSeen = s.lastSeen
                               /\ t.offlineDeadline = s.offlineDeadline
        /\ ~Superseded(s, r) /\ r.online => Renewed(s, t)
        /\ ~Superseded(s, r) /\ ~r.online => /\ t.probeID = s.probeID
                                             /\ t.lastSeen = s.lastSeen
    BY <1>5, ApplyProbeNumbers
  <1>8. Conclude(k, o, "async")
    BY <1>4
  <1> HIDE DEF o
  <1>9. /\ DOMAIN states' = DOMAIN states
        /\ states'[k] = t
        /\ \A e \in DOMAIN states : e # k => states'[e] = states[e]
    BY <1>5, <1>8 DEF Conclude
  <1>10. r.probeID = s.probeID =>
           /\ s.probePending
           /\ s.lastSeen <= r.started /\ missed[k] <= r.started
    BY <1>0, <1>5 DEF LiveRequestsArePending, Live, NoTime
  <1>11. r.probeID = s.probeID => Successor(s.probeID) = s.probeID + 1
    <2> SUFFICES ASSUME r.probeID = s.probeID
                 PROVE  Successor(s.probeID) = s.probeID + 1
      OBVIOUS
    <2>1. Used(k) = s.probeID + 1
      BY <1>5, <1>10 DEF Used
    <2>2. /\ Used(k) + Queued <= inputs + 2 * clock
          /\ inputs <= MaxInputs /\ clock <= MaxTime
      BY <1>0, <1>5 DEF NumbersSuffice
    <2>3. s.probeID + 1 < IdSpace
      BY <1>1, <1>3, <1>5, <2>1, <2>2 DEF NumbersAreNotReused
    <2> QED BY <1>5, <2>3, NextNumber
  <1>12. /\ t.probeID \in {s.probeID, s.probeID + 1}
         /\ r.probeID # s.probeID => t.probeID = s.probeID
    BY <1>7, <1>11 DEF Renewed
  <1>13. /\ \A e \in Devices : e # k => missed'[e] = missed[e]
         /\ Superseded(s, r) => missed'[k] = missed[k]
         /\ ~Superseded(s, r) /\ r.online => missed'[k] = NoTime
         /\ ~Superseded(s, r) /\ ~r.online =>
              missed'[k] = IF missed[k] = NoTime THEN r.checked ELSE missed[k]
    BY <1>0, <1>4, <1>5 DEF TypeOK
  <1>14. RequestsAreDistinct' /\ HeldWhileDraining'
    BY <1>0, <1>2 DEF RequestsAreDistinct, AllDistinct, HeldWhileDraining
  <1>15. ProbesRunForward'
    BY <1>0, <1>2 DEF ProbesRunForward
  <1> HIDE DEF t
  <1>16. CandidatesHaveMissed'
    <2>1. ASSUME NEW d \in Devices
          PROVE  missed'[d] <= clock
      <3>1. missed[d] <= clock /\ missed[d] \in Int
        BY <1>0, NumberTypes DEF CandidatesHaveMissed
      <3> QED BY <1>1, <1>5, <1>13, <3>1 DEF NoTime
    <2>2. ASSUME NEW d \in DOMAIN states, d # k
          PROVE  /\ missed'[d] # NoTime => states'[d].lastSeen <= missed'[d]
                 /\ states'[d].offlineDeadline # NoTime => missed'[d] # NoTime
      <3>1. d \in Devices
        BY <1>0, NumberTypes
      <3> QED BY <1>0, <1>9, <1>13, <2>2, <3>1 DEF CandidatesHaveMissed
    <2>3. /\ missed'[k] # NoTime => t.lastSeen <= missed'[k]
          /\ t.offlineDeadline # NoTime => missed'[k] # NoTime
      <3>0. /\ missed[k] # NoTime => s.lastSeen <= missed[k]
            /\ s.offlineDeadline # NoTime => missed[k] # NoTime
        BY <1>0, <1>5 DEF CandidatesHaveMissed
      <3>1. CASE Superseded(s, r)
        BY <1>7, <1>13, <3>0, <3>1
      <3>2. CASE ~Superseded(s, r) /\ r.online
        BY <1>7, <1>13, <3>2 DEF Renewed
      <3>3. CASE ~Superseded(s, r) /\ ~r.online
        <4>1. t.lastSeen = s.lastSeen /\ s.lastSeen <= r.checked
          BY <1>5, <1>7, <1>10, <3>3
        <4> QED BY <1>5, <1>13, <3>0, <3>3, <4>1 DEF NoTime
      <3> QED BY <3>1, <3>2, <3>3
    <2> QED BY <1>2, <1>9, <2>1, <2>2, <2>3 DEF CandidatesHaveMissed
  <1>17. LiveRequestsArePending'
    <2> SUFFICES ASSUME NEW q \in Outstanding'
                 PROVE  /\ q.probeID <= states'[q.key].probeID
                        /\ q.probeID = states'[q.key].probeID =>
                             /\ states'[q.key].probePending
                             /\ q.generation = states'[q.key].generation
                             /\ q.started # NoTime =>
                                  /\ states'[q.key].lastSeen <= q.started
                                  /\ missed'[q.key] <= q.started
      BY DEF LiveRequestsArePending, Live
    <2>0. /\ q \in Outstanding /\ ~SameRequest(q, r)
          /\ q.key \in DOMAIN states /\ q.key \in Devices /\ q.probeID \in Nat
          /\ q.probeID <= states[q.key].probeID
          /\ q.probeID = states[q.key].probeID =>
               /\ states[q.key].probePending
               /\ q.generation = states[q.key].generation
               /\ q.started # NoTime =>
                    /\ states[q.key].lastSeen <= q.started
                    /\ missed[q.key] <= q.started
      BY <1>0, <1>6, NumberTypes
      DEF ProbesAreAboutEntries, LiveRequestsArePending, Live
    <2>1. CASE q.key # k
      <3>1. states'[q.key] = states[q.key] /\ missed'[q.key] = missed[q.key]
        BY <1>9, <1>13, <2>0, <2>1
      <3> QED BY <2>0, <3>1
    <2>2. CASE q.key = k /\ r.probeID = s.probeID
      <3>1. q.probeID # s.probeID
        BY <2>0, <2>2 DEF SameRequest
      <3> QED BY <1>5, <1>9, <1>12, <2>0, <2>2, <3>1
    <2>3. CASE q.key = k /\ r.probeID # s.probeID
      <3>1. Alike(s, t) /\ missed'[k] = missed[k] /\ states'[k] = t
        BY <1>7, <1>9, <1>13, <2>3
      <3> QED BY <2>0, <2>3, <3>1 DEF Alike
    <2> QED BY <2>1, <2>2, <2>3
  <1>18. PendingIsOutstanding'
    <2> SUFFICES ASSUME ~ctxDone, NEW d \in DOMAIN states, states'[d].probePending
                 PROVE  \E q \in Outstanding' :
                          q.key = d /\ q.probeID = states'[q.key].probeID
      BY <1>2, <1>9 DEF PendingIsOutstanding, Live
    <2>1. /\ d # k \/ r.probeID # s.probeID
          /\ states[d].probePending
          /\ states'[d].probeID = states[d].probeID
      BY <1>7, <1>9 DEF Alike
    <2>2. PICK q \in Outstanding : q.key = d /\ q.probeID = states[d].probeID
      BY <1>0, <2>1 DEF PendingIsOutstanding, Live
    <2>3. q # r
      BY <2>1, <2>2
    <2> QED BY <1>6, <2>1, <2>2, <2>3
  <1>19. NumbersSuffice'
    <2>1. ASSUME NEW d \in Devices
          PROVE  Used(d)' <= Used(d) /\ Used(d) \in Nat /\ Used(d)' \in Nat
      <3>1. CASE d # k
        <4>1. Used(d)' = Used(d) /\ Used(d) \in Nat
          BY <1>0, <1>9, <3>1, NumberTypes DEF Used
        <4> QED BY <4>1
      <3>2. CASE d = k /\ r.probeID = s.probeID
        <4>1. Used(k) = s.probeID + 1
          BY <1>5, <1>10, <3>2 DEF Used
        <4>2. /\ k \in DOMAIN states' /\ ~states'[k].probePending
              /\ states'[k].probeID \in Nat
              /\ states'[k].probeID <= s.probeID + 1
          BY <1>5, <1>7, <1>9, <1>12, <3>2
        <4>3. Used(k)' = states'[k].probeID
          BY <4>2 DEF Used
        <4> QED BY <1>5, <3>2, <4>1, <4>2, <4>3
      <3>3. CASE d = k /\ r.probeID # s.probeID
        <4>1. Used(k)' = Used(k) /\ Used(k) \in Nat
          BY <1>5, <1>7, <1>9, <3>3 DEF Used, Alike
        <4> QED BY <3>3, <4>1
      <3> QED BY <3>1, <3>2, <3>3
    <2> QED BY <1>0, <1>1, <1>2, <1>3, <2>1 DEF NumbersSuffice
  <1> QED BY <1>14, <1>15, <1>16, <1>17, <1>18, <1>19 DEF RequestInv
-----------------------------------------------------------------------------
(***************************************************************************)
(* Every step.                                                             *)
(***************************************************************************)

LEMMA DrainStep == HeldWhileDraining /\ [Next]_vars => HeldWhileDraining'
  <1> SUFFICES ASSUME HeldWhileDraining, [Next]_vars
               PROVE  HeldWhileDraining'
    OBVIOUS
  <1>1. CASE TakeTraffic
    <2>1. /\ pc \in {"async", "drain"} /\ held' = held
          /\ \/ UNCHANGED pc
             \/ \E d, o : Conclude(d, o, pc)
      BY <1>1 DEF TakeTraffic
    <2>2. \A d, o : Conclude(d, o, "drain") =>
            \/ pc' = "drain"
            \/ pc' = "emit" /\ \A e \in outgoing' : e.path = "drain"
      BY DEF Conclude, After
    <2> QED BY <2>1, <2>2 DEF HeldWhileDraining
  <1>2. CASE TakeResult
    BY <1>2 DEF TakeResult, HeldWhileDraining
  <1>3. CASE ApplyResult
    BY <1>3 DEF ApplyResult, HeldWhileDraining
  <1>4. CASE Receive \/ TakeTick \/ TakeSnifferEnd \/ TakeDone \/ GoReceive
             \/ ReceiveNothing \/ ReceiveOverrun
    <2>1. pc \in {"async", "recv"} /\ held' = held
      BY <1>4 DEF Receive, TakeTick, TakeSnifferEnd, TakeDone, GoReceive, ReceiveNothing,
                  ReceiveOverrun
    <2> QED BY <2>1 DEF HeldWhileDraining
  <1>5. CASE EmitAccepted
    <2>1. PICK o \in outgoing : pc' = After(o.path)
      BY <1>5 DEF EmitAccepted
    <2>2. pc = "emit" /\ held' = held
      BY <1>5 DEF EmitAccepted
    <2> QED BY <2>1, <2>2 DEF HeldWhileDraining, After
  <1>6. CASE EmitCanceled
    BY <1>6 DEF EmitCanceled, HeldWhileDraining
  <1>7. CASE \/ Environment \/ Sniffer \/ \E p \in probes : ProbeStep(p)
             \/ Terminated \/ UNCHANGED vars
    <2>1. UNCHANGED <<pc, held, outgoing>>
      BY <1>7
      DEF Environment, Tick, Cancel, NeighborMessage, Sniffer, Capture, Deliver,
          SnifferEnds, ProbeStep, ProbeStart, ProbeAnswered, ProbeFailed,
          ProbeAbandoned, Terminated, vars, loop
    <2> QED BY <2>1 DEF HeldWhileDraining
  <1> QED
    BY <1>1, <1>2, <1>3, <1>4, <1>5, <1>6, <1>7 DEF Next, MainLoop

\* A step that leaves the entries alone keeps the account when it pays for what it queues.
LEMMA NumbersKept ==
  ASSUME TypeOK, TypeOK', NumbersSuffice, UNCHANGED states,
         inputs' <= MaxInputs, clock' <= MaxTime,
         NEW n \in Nat, NEW m \in Nat, Queued = n, Queued' = m,
         m + inputs + 2 * clock <= n + inputs' + 2 * clock'
  PROVE  NumbersSuffice'
  <1>1. /\ clock \in Nat /\ inputs \in Nat /\ clock' \in Nat /\ inputs' \in Nat
    BY DEF TypeOK, Time
  <1>2. ASSUME NEW d \in Devices
        PROVE  Used(d)' + Queued' <= inputs' + 2 * clock'
    <2>1. Used(d) + n <= inputs + 2 * clock
      BY DEF NumbersSuffice
    <2>2. PICK u \in Nat : u = Used(d) /\ u = Used(d)'
      BY NumberTypes DEF Used
    <2>3. PICK i \in Nat, c \in Nat : inputs' = i /\ clock' = c
      BY <1>1
    <2>4. u + m <= i + 2 * c
      BY <1>1, <2>1, <2>2, <2>3
    <2> QED BY <2>2, <2>3, <2>4
  <1> QED BY <1>2 DEF NumbersSuffice

\* What enters a queue was paid for.
LEMMA QueueStep ==
  ASSUME TypeOK, TypeOK', NumbersSuffice,
         \/ Environment \/ Sniffer \/ \E p \in probes : ProbeStep(p)
         \/ TakeResult \/ TakeSnifferEnd \/ TakeDone \/ GoReceive \/ ReceiveNothing
         \/ ReceiveOverrun \/ EmitAccepted \/ EmitCanceled \/ UNCHANGED vars
  PROVE  NumbersSuffice'
  <1>1. /\ clock \in Nat /\ inputs \in Nat /\ inputs <= MaxInputs /\ clock <= MaxTime
        /\ MaxInputs \in Nat /\ MaxTime \in Nat
        /\ Len(netlink) \in Nat /\ Len(traffic) \in Nat
        /\ traffic \in Seq(Frame) /\ netlink \in Seq(Message)
    BY CollectorAssumption, LenProperties DEF TypeOK, Time, NumbersSuffice
  <1>2. PICK n \in Nat : Queued = n
    BY <1>1 DEF Queued
  <1>3. CASE Tick
    <2>1. /\ clock' = clock + 1 /\ clock < MaxTime
          /\ UNCHANGED <<inputs, netlink, traffic, captured, states>>
      BY <1>3 DEF Tick, loop
    <2>2. PICK m \in Nat : Queued' = m /\ m <= n + 2
      BY <1>1, <1>2, <2>1 DEF Queued
    <2>3. m + inputs + 2 * clock <= n + inputs' + 2 * clock'
      BY <1>1, <2>1, <2>2
    <2>4. inputs' <= MaxInputs /\ clock' <= MaxTime
      BY <1>1, <2>1
    <2> QED BY <1>2, <2>1, <2>2, <2>3, <2>4, NumbersKept
  <1>4. ASSUME NEW d \in Devices, NEW ip \in Addresses, NEW confirmed \in BOOLEAN,
               NeighborMessage(d, ip, confirmed)
        PROVE  NumbersSuffice'
    <2> DEFINE msg == [mac |-> d, ip |-> ip, confirmed |-> confirmed]
    <2>1. /\ inputs' = inputs + 1 /\ inputs < MaxInputs
          /\ UNCHANGED <<clock, traffic, captured, tick, states>>
          /\ netlink' \in {netlink, Append(netlink, msg)}
      BY <1>4 DEF NeighborMessage, Input, loop
    <2>2. msg \in Message
      BY DEF Message
    <2> HIDE DEF msg
    <2>3. Len(netlink') \in {Len(netlink), Len(netlink) + 1}
      BY <1>1, <2>1, <2>2, AppendProperties
    <2>4. PICK m \in Nat : Queued' = m /\ m <= n + 1
      BY <1>1, <1>2, <2>1, <2>3 DEF Queued
    <2>5. /\ m + inputs + 2 * clock <= n + inputs' + 2 * clock'
          /\ inputs' <= MaxInputs /\ clock' <= MaxTime
      BY <1>1, <2>1, <2>4
    <2> QED BY <1>2, <2>1, <2>4, <2>5, NumbersKept
  <1>5. ASSUME NEW d \in Devices, Capture(d)
        PROVE  NumbersSuffice'
    <2>1. /\ inputs' = inputs + 1 /\ inputs < MaxInputs
          /\ UNCHANGED <<clock, traffic, netlink, tick, states>>
          /\ captured = {} /\ captured' # {}
      BY <1>5 DEF Capture, Input, loop
    <2>2. PICK m \in Nat : Queued' = m /\ m <= n + 1
      BY <1>1, <1>2, <2>1 DEF Queued
    <2>3. /\ m + inputs + 2 * clock <= n + inputs' + 2 * clock'
          /\ inputs' <= MaxInputs /\ clock' <= MaxTime
      BY <1>1, <2>1, <2>2
    <2> QED BY <1>2, <2>1, <2>2, <2>3, NumbersKept
  <1>6. CASE Deliver
    <2>1. PICK f \in captured : traffic' \in {traffic, Append(traffic, f)}
      BY <1>6 DEF Deliver
    <2>2. /\ UNCHANGED <<clock, inputs, netlink, tick, states>>
          /\ captured # {} /\ captured' = {}
      BY <1>6 DEF Deliver, environment, loop
    <2>3. f \in Frame
      BY DEF TypeOK
    <2>4. Len(traffic') \in {Len(traffic), Len(traffic) + 1}
      BY <1>1, <2>1, <2>3, AppendProperties
    <2>5. PICK m \in Nat : Queued' = m /\ m <= n
      BY <1>1, <1>2, <2>2, <2>4 DEF Queued
    <2>6. /\ m + inputs + 2 * clock <= n + inputs' + 2 * clock'
          /\ inputs' <= MaxInputs /\ clock' <= MaxTime
      BY <1>1, <2>2, <2>5
    <2> QED BY <1>2, <2>2, <2>5, <2>6, NumbersKept
  <1>7. ASSUME UNCHANGED <<clock, captured, traffic, netlink, tick, states>>,
               NEW i \in Nat, inputs' = i, inputs <= i, i <= MaxInputs
        PROVE  NumbersSuffice'
    <2>1. Queued' = n
      BY <1>2, <1>7 DEF Queued
    <2>2. n + inputs + 2 * clock <= n + i + 2 * clock
      BY <1>1, <1>7
    <2> QED BY <1>1, <1>2, <1>7, <2>1, <2>2, NumbersKept
  <1>8. ASSUME NEW p \in probes, ProbeAnswered(p)
        PROVE  NumbersSuffice'
    <2>1. /\ inputs' = inputs + 1 /\ inputs < MaxInputs
          /\ UNCHANGED <<clock, traffic, netlink, tick, captured, states>>
      BY <1>8 DEF ProbeAnswered, Input, loop, senses
    <2> QED BY <1>1, <1>7, <2>1
  <1>9. CASE \/ Cancel \/ SnifferEnds
             \/ \E p \in probes : ProbeStart(p) \/ ProbeFailed(p) \/ ProbeAbandoned(p)
             \/ TakeResult \/ TakeSnifferEnd \/ TakeDone \/ GoReceive \/ ReceiveNothing
             \/ ReceiveOverrun \/ EmitAccepted \/ EmitCanceled \/ UNCHANGED vars
    <2>1. UNCHANGED <<clock, inputs, captured, traffic, netlink, tick, states>>
      BY <1>9
      DEF Cancel, SnifferEnds, ProbeStart, ProbeFailed, ProbeAbandoned, TakeResult,
          TakeSnifferEnd, TakeDone, GoReceive, ReceiveNothing, ReceiveOverrun,
          EmitAccepted, EmitCanceled, vars, environment, senses, loop
    <2> QED BY <1>1, <1>7, <2>1
  <1> QED
    BY <1>3, <1>4, <1>5, <1>6, <1>8, <1>9 DEF Environment, Sniffer, ProbeStep

LEMMA RequestInvInit == Init => RequestInv
  <1> SUFFICES ASSUME Init
               PROVE  RequestInv
    OBVIOUS
  <1>1. /\ clock = 0 /\ inputs = 0 /\ captured = {} /\ traffic = <<>> /\ netlink = <<>>
        /\ tick = FALSE /\ probes = {} /\ probeResults = <<>> /\ held = {}
        /\ missed = [d \in Devices |-> NoTime]
        /\ MaxInputs \in Nat /\ MaxTime \in Nat
    BY CollectorAssumption DEF Init
  <1>2. PICK known \in SUBSET Devices : \E address \in [known -> Addresses] :
          states = [d \in known |-> NewDeviceState(address[d], FALSE, 0)]
    BY DEF Init
  <1>3. Outstanding = {} /\ Range(probeResults) = {}
    BY <1>1, EmptySeq, LenProperties DEF Outstanding, Range
  <1>4. \A d \in DOMAIN states :
          /\ d \in Devices
          /\ ~states[d].probePending /\ states[d].probeID = 0
          /\ states[d].offlineDeadline = NoTime
    BY <1>2 DEF NewDeviceState
  <1>5. RequestsAreDistinct /\ LiveRequestsArePending /\ ProbesRunForward
    <2>1. Len(probeResults) = 0
      BY <1>1, EmptySeq
    <2>2. AllDistinct(probeResults)
      BY <2>1 DEF AllDistinct
    <2> QED
      BY <1>1, <1>3, <2>2 DEF RequestsAreDistinct, LiveRequestsArePending, ProbesRunForward
  <1>6. PendingIsOutstanding /\ HeldWhileDraining
    BY <1>1, <1>4 DEF PendingIsOutstanding, HeldWhileDraining
  <1>7. CandidatesHaveMissed
    BY <1>1, <1>4 DEF CandidatesHaveMissed, NoTime
  <1>8. NumbersSuffice
    <2>1. Queued = 0
      BY <1>1, EmptySeq DEF Queued
    <2>2. \A d \in Devices : Used(d) = 0
      BY <1>4 DEF Used
    <2> QED BY <1>1, <2>1, <2>2 DEF NumbersSuffice
  <1> QED BY <1>5, <1>6, <1>7, <1>8 DEF RequestInv

LEMMA RequestInvStep ==
  ASSUME NumbersAreNotReused
  PROVE  (IInv /\ IInv' /\ RequestInv /\ [Next]_vars) => RequestInv'
  <1> SUFFICES ASSUME IInv, IInv', RequestInv, [Next]_vars
               PROVE  RequestInv'
    OBVIOUS
  <1>0. /\ TypeOK /\ TypeOK' /\ clock \in Nat
        /\ RequestsAreDistinct /\ LiveRequestsArePending /\ PendingIsOutstanding
        /\ HeldWhileDraining /\ ProbesRunForward /\ CandidatesHaveMissed
        /\ NumbersSuffice
    BY DEF IInv, RequestInv, TypeOK, Time
  <1>1. HeldWhileDraining'
    BY <1>0, DrainStep
  <1>2. CASE ApplyResult
    BY <1>2, ApplyStep
  <1>3. CASE TakeTick
    BY <1>0, <1>1, <1>3, TickStep DEF RequestInv
  <1>4. CASE TakeTraffic \/ Receive
    <2>1. /\ EntriesFollow
          /\ UNCHANGED <<probes, probeResults, held, clock, ctxDone, inputs>>
          /\ Queued' = Queued - 1
      BY <1>0, <1>4, EvidenceStep
    <2>2. Outstanding' = Outstanding
      BY <2>1 DEF Outstanding
    <2>3. RequestsFollow
      BY <2>2 DEF RequestsFollow, Descends, SameRequest
    <2>4. RequestsAreDistinct' /\ ProbesRunForward'
      BY <1>0, <2>1 DEF RequestsAreDistinct, AllDistinct, ProbesRunForward
    <2>5. CandidatesHaveMissed' /\ LiveRequestsArePending' /\ PendingIsOutstanding'
      BY <1>0, <2>1, <2>3, FollowStep
    <2>6. NumbersSuffice'
      <3>1. ASSUME NEW d \in Devices
            PROVE  Used(d)' <= Used(d) + 1 /\ Used(d) \in Nat /\ Used(d)' \in Nat
        <4>1. d \in DOMAIN states =>
                states[d].probeID \in Nat /\ states[d].probePending \in BOOLEAN
          BY <1>0, NumberTypes
        <4>2. CASE d \notin DOMAIN states'
          <5>1. d \notin DOMAIN states
            BY <2>1, <4>2 DEF EntriesFollow
          <5>2. Used(d)' = 0 /\ Used(d) = 0
            BY <4>2, <5>1 DEF Used
          <5> QED BY <5>2
        <4>3. CASE d \in DOMAIN states' /\ EntryKept(d)
          <5>1. Used(d)' = Used(d) /\ Used(d) \in Nat
            BY <4>1, <4>3 DEF Used, EntryKept, Alike
          <5> QED BY <5>1
        <4>4. CASE d \in DOMAIN states /\ EntryRenewed(d)
          <5>1. /\ d \in DOMAIN states' /\ ~states'[d].probePending
                /\ states'[d].probeID = states[d].probeID + 1
            BY <4>4 DEF EntryRenewed
          <5>2. Used(d)' = states[d].probeID + 1
            BY <4>1, <4>4, <5>1 DEF Used
          <5>3. Used(d) \in Nat /\ states[d].probeID <= Used(d)
            BY <4>1, <4>4 DEF Used
          <5> QED BY <4>1, <4>4, <5>2, <5>3
        <4>5. CASE d \notin DOMAIN states /\ EntryRenewed(d)
          <5>1. Used(d)' = 0 /\ Used(d) = 0
            BY <4>5 DEF Used, EntryRenewed
          <5> QED BY <5>1
        <4> QED BY <2>1, <4>2, <4>3, <4>4, <4>5 DEF EntriesFollow
      <3>2. inputs \in Nat /\ MaxInputs \in Nat /\ MaxTime \in Nat
        BY <1>0, CollectorAssumption DEF TypeOK
      <3>3. Queued \in Nat
        <4>1. Len(netlink) \in Nat /\ Len(traffic) \in Nat
          BY <1>0, LenProperties DEF TypeOK
        <4> QED BY <4>1 DEF Queued
      <3> QED BY <1>0, <2>1, <3>1, <3>2, <3>3 DEF NumbersSuffice
    <2> QED BY <1>1, <2>4, <2>5, <2>6 DEF RequestInv
  <1>5. ASSUME RequestsAreDistinct', ProbesRunForward', RequestsFollow, NumbersSuffice',
               UNCHANGED <<states, missed, clock>>, ctxDone => ctxDone'
        PROVE  RequestInv'
    <2>1. EntriesFollow
      BY <1>5 DEF EntriesFollow, EntryKept, Alike
    <2>2. CandidatesHaveMissed' /\ LiveRequestsArePending' /\ PendingIsOutstanding'
      BY <1>0, <1>5, <2>1, FollowStep
    <2> QED BY <1>1, <1>5, <2>2 DEF RequestInv
  <1>6. ASSUME NEW p \in probes, ProbeStep(p)
        PROVE  RequestInv'
    <2>1. NumbersSuffice'
      BY <1>0, <1>6, QueueStep
    <2>2. UNCHANGED <<states, missed, clock, ctxDone>>
      BY <1>6 DEF ProbeStep, ProbeStart, ProbeAnswered, ProbeFailed, ProbeAbandoned,
                  Input, environment, loop, history
    <2>3. RequestsAreDistinct' /\ ProbesRunForward' /\ RequestsFollow
      <3>1. CASE ProbeStart(p)
        BY <1>0, <3>1, StartKeepsRequests
      <3>2. CASE ProbeAnswered(p)
        <4>1. p.started # NoTime /\ ProbeReport(p, TRUE) /\ UNCHANGED <<held, clock>>
          BY <3>2 DEF ProbeAnswered, Input, loop
        <4> QED BY <1>0, <4>1, ReportKeepsRequests
      <3>3. CASE ProbeFailed(p)
        <4>1. p.started # NoTime /\ ProbeReport(p, FALSE) /\ UNCHANGED <<held, clock>>
          BY <3>3 DEF ProbeFailed, environment, loop
        <4> QED BY <1>0, <4>1, ReportKeepsRequests
      <3>4. CASE ProbeAbandoned(p)
        BY <1>0, <3>4, AbandonKeepsRequests
      <3> QED BY <1>6, <3>1, <3>2, <3>3, <3>4 DEF ProbeStep
    <2> QED BY <1>5, <2>1, <2>2, <2>3
  <1>7. CASE TakeResult
    <2>1. NumbersSuffice'
      BY <1>0, <1>7, QueueStep
    <2>2. UNCHANGED <<states, missed, clock, ctxDone>>
      BY <1>7 DEF TakeResult, environment, history
    <2> QED BY <1>0, <1>5, <1>7, <2>1, <2>2, TakeKeepsRequests
  <1>8. ASSUME \/ Environment \/ Sniffer \/ TakeSnifferEnd \/ TakeDone \/ GoReceive
               \/ ReceiveNothing \/ ReceiveOverrun \/ EmitAccepted \/ EmitCanceled
               \/ Terminated \/ UNCHANGED vars
        PROVE  /\ UNCHANGED <<probes, probeResults, held, states, missed>>
               /\ ctxDone' \in {ctxDone, TRUE}
               /\ clock' \in {clock, clock + 1}
    <2>1. CASE Tick
      BY <2>1 DEF Tick, probing, loop, history
    <2>2. CASE Environment /\ ~Tick
      BY <2>2 DEF Environment, Cancel, NeighborMessage, Input, probing, loop, history
    <2>3. CASE Sniffer
      BY <2>3 DEF Sniffer, Capture, Deliver, SnifferEnds, Input, environment, probing, loop,
                  history
    <2>4. CASE \/ TakeSnifferEnd \/ TakeDone \/ GoReceive \/ ReceiveNothing
               \/ ReceiveOverrun \/ EmitAccepted \/ EmitCanceled \/ Terminated
               \/ UNCHANGED vars
      BY <2>4 DEF TakeSnifferEnd, TakeDone, GoReceive, ReceiveNothing, ReceiveOverrun,
                  EmitAccepted, EmitCanceled, Terminated, vars, environment, probing,
                  loop, history
    <2> QED BY <1>8, <2>1, <2>2, <2>3, <2>4
  <1>9. CASE \/ Environment \/ Sniffer \/ TakeSnifferEnd \/ TakeDone \/ GoReceive
             \/ ReceiveNothing \/ ReceiveOverrun \/ EmitAccepted \/ EmitCanceled
             \/ Terminated \/ UNCHANGED vars
    <2>1. RequestsAreDistinct' /\ RequestsFollow /\ EntriesFollow
      BY <1>0, <1>8, <1>9, NothingToFollow
    <2>2. ctxDone => ctxDone'
      BY <1>8, <1>9
    <2>3. clock' \in {clock, clock + 1} /\ UNCHANGED <<probes, probeResults, held>>
      BY <1>8, <1>9
    <2>4. clock <= clock'
      BY <1>0, <2>3
    <2>5. CandidatesHaveMissed' /\ LiveRequestsArePending' /\ PendingIsOutstanding'
      BY <1>0, <2>1, <2>2, <2>4, FollowStep
    <2>6. ProbesRunForward'
      <3>1. \A p \in probes : p.started \in Int
        BY <1>0 DEF TypeOK, Probe, Time, NoTime
      <3> QED BY <1>0, <2>3, <3>1 DEF ProbesRunForward
    <2>7. NumbersSuffice'
      BY <1>0, <1>9, QueueStep DEF Terminated
    <2> QED BY <1>1, <2>1, <2>5, <2>6, <2>7 DEF RequestInv
  <1> QED
    BY <1>2, <1>3, <1>4, <1>6, <1>7, <1>9 DEF Next, MainLoop

\* As long as numbers are not given twice, every request in flight is told apart from
\* every other, and the one with the device's number began after its last sign.
THEOREM RequestsAreToldApart ==
  ASSUME NumbersAreNotReused
  PROVE  Spec => []RequestInv
  BY RequestInvInit, RequestInvStep, EvidenceIsAccountedFor, PTL DEF Spec
-----------------------------------------------------------------------------
(***************************************************************************)
(* What follows for the probes of a device.                                *)
(***************************************************************************)

LEMMA OneRequest ==
  ASSUME RequestsAreDistinct, NEW p \in Outstanding, NEW q \in Outstanding,
         SameRequest(p, q), TypeOK
  PROVE  p = q
  <1>1. SameRequest(q, p)
    BY DEF SameRequest
  <1>2. CASE p \in probes \/ q \in probes
    BY <1>1, <1>2 DEF RequestsAreDistinct, Outstanding
  <1>3. CASE p \in held /\ q \in held
    BY <1>3 DEF RequestsAreDistinct
  <1>4. CASE p \in Range(probeResults) /\ q \in Range(probeResults)
    <2>1. \A x \in Range(probeResults) : \E i \in 1 .. Len(probeResults) : x = probeResults[i]
      BY LenProperties DEF TypeOK, Range
    <2> QED BY <1>4, <2>1 DEF RequestsAreDistinct, AllDistinct
  <1>5. CASE \/ p \in held /\ q \in Range(probeResults)
             \/ q \in held /\ p \in Range(probeResults)
    BY <1>1, <1>5 DEF RequestsAreDistinct
  <1> QED BY <1>2, <1>3, <1>4, <1>5 DEF Outstanding

\* While the collector is not cancelled, a device that is marked as being probed has
\* exactly one probe whose result will be heard, and a device that is not marked none.
THEOREM EveryMarkHasItsProbe ==
  ASSUME NumbersAreNotReused
  PROVE  Spec => []PendingHasProbe
  <1>1. IInv /\ RequestInv => PendingHasProbe
    <2> SUFFICES ASSUME IInv, RequestInv, ~ctxDone, NEW d \in DOMAIN states
                 PROVE  Cardinality(Current(d)) = IF states[d].probePending THEN 1 ELSE 0
      BY DEF PendingHasProbe
    <2>1. \A p, q \in Current(d) : p = q
      <3>1. \A p, q \in Current(d) :
              p \in Outstanding /\ q \in Outstanding /\ SameRequest(p, q)
        BY DEF Current, SameRequest
      <3> QED BY <3>1, OneRequest DEF IInv, RequestInv
    <2>2. CASE states[d].probePending
      <3>1. PICK q \in Outstanding : q.key = d /\ Live(q)
        BY <2>2 DEF RequestInv, PendingIsOutstanding
      <3>2. q \in Current(d)
        BY <3>1 DEF RequestInv, LiveRequestsArePending, Live, Current
      <3>3. Current(d) = {q}
        BY <2>1, <3>2
      <3> QED BY <2>2, <3>3, FS_Singleton
    <2>3. CASE ~states[d].probePending
      <3>1. Current(d) = {}
        BY <2>3 DEF RequestInv, LiveRequestsArePending, Live, Current
      <3> QED BY <2>3, <3>1, FS_EmptySet
    <2> QED BY <2>2, <2>3
  <1> QED BY <1>1, EvidenceIsAccountedFor, RequestsAreToldApart, PTL

\* A device is declared disconnected only on the second of two failed probes, begun after
\* its last sign and after the first failure, and sent to its present address.
THEOREM DisconnectionTakesTwoProbes ==
  ASSUME NumbersAreNotReused
  PROVE  Spec => TwoFailedProbes
  <1>1. ASSUME IInv, RequestInv, Next, NEW d \in Devices, GoesOffline(d)
        PROVE  /\ states[d].lastSeen <= missed[d]
               /\ \E r \in held :
                    /\ r.key = d /\ r.ip = states[d].ip
                    /\ ~r.online
                    /\ missed[d] <= r.started
                    /\ r.deadline <= r.checked
    <2>1. PICK r \in held : /\ r \in Result /\ r.key = d
                            /\ BecomesOffline(states[d], r) /\ ~Superseded(states[d], r)
      BY <1>1, OfflineStep
    <2>2. d \in DOMAIN states
      BY <1>1 DEF GoesOffline
    <2>3. states[d].lastSeen <= missed[d]
      BY <1>1, <2>1, <2>2 DEF BecomesOffline, RequestInv, CandidatesHaveMissed
    <2>4. r \in Outstanding /\ Live(r) /\ r.ip = states[d].ip /\ r.started # NoTime
      BY <2>1 DEF Outstanding, Live, Superseded, Result, Time, NoTime
    <2>5. missed[d] <= r.started
      BY <1>1, <2>1, <2>4 DEF RequestInv, LiveRequestsArePending
    <2>6. ~r.online /\ r.deadline <= r.checked
      <3>1. r.deadline \in Nat /\ r.checked \in Nat
        BY <2>1 DEF Result, Time
      <3> QED BY <2>1, <3>1 DEF BecomesOffline, Missed
    <2> QED BY <2>1, <2>3, <2>4, <2>5, <2>6
  <1>2. IInv /\ RequestInv /\ [Next]_vars =>
          [\A d \in Devices : GoesOffline(d) =>
             /\ states[d].lastSeen <= missed[d]
             /\ \E r \in held :
                  /\ r.key = d /\ r.ip = states[d].ip
                  /\ ~r.online
                  /\ missed[d] <= r.started
                  /\ r.deadline <= r.checked]_vars
    BY <1>1
  <1> QED BY <1>2, EvidenceIsAccountedFor, RequestsAreToldApart, PTL
          DEF Spec, TwoFailedProbes
-----------------------------------------------------------------------------
(***************************************************************************)
(* No slot leaks away.                                                     *)
(***************************************************************************)

SlotInv == IsFiniteSet(probes) /\ NoProbeForgotten

\* One new probe for each device.
LEMMA AddNewProbes ==
  ASSUME NEW S, IsFiniteSet(S), NEW chosen, IsFiniteSet(chosen),
         NEW new \in [chosen -> Probe],
         \A d \in chosen : new[d].key = d /\ new[d] \notin S
  PROVE  LET T == S \cup {new[d] : d \in chosen} IN
         /\ IsFiniteSet(T)
         /\ Cardinality(T) = Cardinality(S) + Cardinality(chosen)
  <1> DEFINE N == {new[d] : d \in chosen}
  <1>1. new \in Bijection(chosen, N)
    BY DEF Bijection, Injection, Surjection, IsInjective
  <1>2. IsFiniteSet(N) /\ Cardinality(N) = Cardinality(chosen)
    BY <1>1, FS_Bijection DEF ExistsBijection
  <1>3. S \cap N = {}
    OBVIOUS
  <1>4. /\ Cardinality(S) \in Nat /\ Cardinality(chosen) \in Nat
        /\ Cardinality(S \cap N) = 0
    BY <1>3, FS_CardinalityType, FS_EmptySet
  <1>5. /\ IsFiniteSet(S \cup N)
        /\ Cardinality(S \cup N) = Cardinality(S) + Cardinality(N) - Cardinality(S \cap N)
    BY <1>2, FS_Union
  <1> QED BY <1>2, <1>4, <1>5

LEMMA SlotInvStep ==
  ASSUME NumbersAreNotReused
  PROVE  (IInv /\ IInv' /\ RequestInv /\ ProbeBudget /\ SlotInv /\ [Next]_vars) => SlotInv'
  <1> SUFFICES ASSUME IInv, IInv', RequestInv, ProbeBudget, SlotInv, [Next]_vars
               PROVE  SlotInv'
    OBVIOUS
  <1>0. /\ TypeOK /\ TypeOK' /\ IsFiniteSet(probes)
        /\ Cardinality(probes) \in Nat /\ Len(probeResults) \in Nat
        /\ activeProbes \in Int /\ MaxConcurrentProbes \in Nat
        /\ activeProbes <= MaxConcurrentProbes
        /\ RequestsAreDistinct
    BY FS_CardinalityType, LenProperties, CollectorAssumption
    DEF IInv, RequestInv, TypeOK, SlotInv, ProbeBudget
  <1>1. ASSUME NEW p \in probes, ProbeStart(p)
        PROVE  SlotInv'
    <2> DEFINE n == [p EXCEPT !.started = clock]
    <2>1. /\ n.key = p.key /\ n.probeID = p.probeID
          /\ n.started = clock /\ clock # NoTime
      BY <1>0 DEF TypeOK, Probe, Time, NoTime
    <2>2. /\ p.started = NoTime
          /\ probes' = (probes \ {p}) \cup {n}
          /\ UNCHANGED <<probeResults, activeProbes, ctxDone>>
      BY <1>1 DEF ProbeStart, loop, environment
    <2> HIDE DEF n
    <2>3. n \notin probes
      BY <1>0, <2>1, <2>2 DEF RequestsAreDistinct, SameRequest
    <2>4. IsFiniteSet(probes \ {p}) /\ Cardinality(probes \ {p}) = Cardinality(probes) - 1
      BY <1>0, FS_RemoveElement
    <2>5. IsFiniteSet(probes') /\ Cardinality(probes') = Cardinality(probes)
      BY <1>0, <2>2, <2>3, <2>4, FS_AddElement
    <2> QED BY <2>2, <2>5 DEF SlotInv, NoProbeForgotten
  <1>2. ASSUME NEW p \in probes, ProbeAnswered(p) \/ ProbeFailed(p)
        PROVE  SlotInv'
    <2>1. PICK online \in BOOLEAN : ProbeReport(p, online)
      BY <1>2 DEF ProbeAnswered, ProbeFailed
    <2>2. IsFiniteSet(probes') /\ Cardinality(probes') = Cardinality(probes) - 1
      BY <1>0, <2>1, ReplaceProbe DEF ProbeReport
    <2>3. Len(probeResults') = Len(probeResults) + 1
      <3> DEFINE r == [key |-> p.key, ip |-> p.ip, generation |-> p.generation,
                       probeID |-> p.probeID, deadline |-> p.deadline,
                       started |-> p.started, online |-> online, checked |-> clock]
      <3>1. probeResults' = Append(probeResults, r)
        BY <2>1 DEF ProbeReport
      <3> HIDE DEF r
      <3> QED BY <1>0, <3>1, AppendProperties DEF TypeOK
    <2>4. UNCHANGED <<activeProbes, ctxDone>>
      BY <1>2 DEF ProbeAnswered, ProbeFailed, Input, loop, environment
    <2>5. Cardinality(probes') + Len(probeResults') = Cardinality(probes) + Len(probeResults)
      BY <1>0, <2>2, <2>3
    <2> QED BY <2>2, <2>4, <2>5 DEF SlotInv, NoProbeForgotten
  <1>3. ASSUME NEW p \in probes, ProbeAbandoned(p)
        PROVE  SlotInv'
    <2>1. IsFiniteSet(probes') /\ ctxDone'
      BY <1>0, <1>3, ReplaceProbe DEF ProbeAbandoned, environment
    <2> QED BY <2>1 DEF SlotInv, NoProbeForgotten
  <1>4. CASE TakeResult
    <2>1. Len(probeResults') = Len(probeResults) - 1
      BY <1>0, <1>4, HeadTailProperties DEF TakeResult, TypeOK
    <2>2. activeProbes' = activeProbes - 1 /\ UNCHANGED <<probes, ctxDone>>
      BY <1>4 DEF TakeResult, environment
    <2>3. Cardinality(probes) + Len(probeResults) = activeProbes =>
            Cardinality(probes') + Len(probeResults') = activeProbes'
      BY <1>0, <2>1, <2>2
    <2> QED BY <1>0, <2>2, <2>3 DEF SlotInv, NoProbeForgotten
  <1>5. CASE TakeTick
    <2>1. UNCHANGED <<probeResults, ctxDone>>
      BY <1>5 DEF TakeTick, environment
    <2>2. CASE ~DetectOffline
      BY <1>5, <2>1, <2>2 DEF TakeTick, SlotInv, NoProbeForgotten
    <2>3. CASE DetectOffline
      <3>1. PICK chosen \in Selection(FreeProbes) :
              /\ probes' = probes \cup {NewProbe(d) : d \in chosen}
              /\ activeProbes' = activeProbes + Cardinality(chosen)
        BY <1>5, <2>3 DEF TakeTick
      <3>2. FreeProbes \in Nat
        BY <1>0 DEF FreeProbes
      <3>3. /\ IsFiniteSet(chosen) /\ Cardinality(chosen) \in Nat
            /\ chosen \subseteq DOMAIN states
        BY <1>0, <3>1, <3>2, SelectionInBudget
      <3> DEFINE new == [d \in chosen |-> NewProbe(d)]
      <3>4. new \in [chosen -> Probe]
        <4>1. \A d \in chosen : NewProbe(d) \in probes'
          BY <3>1
        <4> QED BY <1>0, <4>1 DEF TypeOK
      <3>5. \A d \in chosen : new[d].key = d /\ new[d] \notin probes
        <4> SUFFICES ASSUME NEW d \in chosen
                     PROVE  NewProbe(d).key = d /\ NewProbe(d) \notin probes
          OBVIOUS
        <4>1. \A q \in Outstanding : ~SameRequest(q, NewProbe(d))
          BY <1>0, <1>5, <3>3, FreshNumber DEF TakeTick, RequestInv
        <4> QED BY <4>1 DEF NewProbe, SameRequest, Outstanding
      <3>6. probes' = probes \cup {new[d] : d \in chosen}
        BY <3>1
      <3> HIDE DEF new
      <3>7. /\ IsFiniteSet(probes')
            /\ Cardinality(probes') = Cardinality(probes) + Cardinality(chosen)
        BY <1>0, <3>3, <3>4, <3>5, <3>6, AddNewProbes
      <3>8. Cardinality(probes) + Len(probeResults) = activeProbes =>
              Cardinality(probes') + Len(probeResults') = activeProbes'
        BY <1>0, <2>1, <3>1, <3>3, <3>7
      <3> QED BY <2>1, <3>7, <3>8 DEF SlotInv, NoProbeForgotten
    <2> QED BY <2>2, <2>3
  <1>6. CASE \/ Environment \/ Sniffer \/ TakeTraffic \/ ApplyResult
             \/ TakeSnifferEnd \/ TakeDone \/ GoReceive \/ Receive
             \/ ReceiveNothing \/ ReceiveOverrun \/ EmitAccepted \/ EmitCanceled
             \/ Terminated \/ UNCHANGED vars
    <2>1. UNCHANGED <<probes, probeResults, activeProbes>>
      BY <1>6
      DEF Environment, Tick, Cancel, NeighborMessage, Sniffer, Capture, Deliver,
          SnifferEnds, TakeTraffic, ApplyResult, TakeSnifferEnd, TakeDone, GoReceive,
          Receive, ReceiveNothing, ReceiveOverrun, EmitAccepted, EmitCanceled,
          Terminated, vars, probing, loop
    <2>2. ctxDone' \in {ctxDone, TRUE}
      BY <1>6
      DEF Environment, Tick, Cancel, NeighborMessage, Sniffer, Capture, Deliver, Input,
          SnifferEnds, TakeTraffic, ApplyResult, TakeSnifferEnd, TakeDone, GoReceive,
          Receive, ReceiveNothing, ReceiveOverrun, EmitAccepted, EmitCanceled,
          Terminated, vars, environment
    <2> QED BY <2>1, <2>2 DEF SlotInv, NoProbeForgotten
  <1> QED
    BY <1>1, <1>2, <1>3, <1>4, <1>5, <1>6 DEF Next, ProbeStep, MainLoop

\* Until the context is cancelled, activeProbes counts the probes that run and the results
\* that wait, and nothing else: no slot is lost.
THEOREM NoSlotLeaksAway ==
  ASSUME NumbersAreNotReused
  PROVE  Spec => []NoProbeForgotten
  <1>1. Init => SlotInv
    <2>1. Init => probes = {} /\ Len(probeResults) = 0 /\ activeProbes = 0
      BY EmptySeq DEF Init
    <2> QED BY <2>1, FS_EmptySet DEF SlotInv, NoProbeForgotten
  <1>2. SlotInv => NoProbeForgotten
    BY DEF SlotInv
  <1> QED BY <1>1, <1>2, SlotInvStep, EvidenceIsAccountedFor, RequestsAreToldApart,
             ProbesStayInBudget, PTL DEF Spec
=============================================================================
