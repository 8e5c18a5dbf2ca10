--------------------------- MODULE RuntimeProofs ---------------------------
(***************************************************************************)
(* Run waits for all that it has started and reports a failure exactly     *)
(* when there was one, and what it publishes is the feed of news, for any  *)
(* number of collectors and devices, any capacity of the bus and any       *)
(* schedule.                                                               *)
(***************************************************************************)
EXTENDS RuntimeProperties, SequenceTheorems, FiniteSetTheorems, TLAPS

-----------------------------------------------------------------------------
(***************************************************************************)
(* The invariant: every part that has returned is accounted for by a       *)
(* result that was received or is still in a channel, and so is every      *)
(* error.                                                                  *)
(***************************************************************************)

ReturnedOnes == {c \in Collectors : Returned(c)}

\* How many results App.Run has received, and how many each part has sent it.
Taken      == IF app = "first" THEN 0 ELSE IF app = "second" THEN 1 ELSE 2
Ended(part) == IF part = "returned" THEN 1 ELSE 0

AppAccounts ==
  /\ Len(errors) + Taken = Ended(pipeline) + Ended(multi)
  /\ closed <=> app = "returned"

MultiAccounts ==
  /\ received + Len(results) = Cardinality(ReturnedOnes)
  /\ multi = "returned" <=> received = Cardinality(Collectors)
  /\ multi = "first" <=> received = 0

HasError(s) == "error" \in Range(s)

ErrorsAccounted ==
  /\ failed # {} <=> \/ HasError(results) \/ multiError = "error"
                     \/ HasError(errors)  \/ appError = "error"
  /\ multi = "first" => multiError = "nil"
  /\ app = "first" => appError = "nil"
  /\ multi = "returned" /\ multiError = "error" => HasError(errors) \/ appError = "error"

RuntimeInv == TypeOK /\ AppAccounts /\ MultiAccounts /\ ErrorsAccounted
-----------------------------------------------------------------------------
\* What becomes of the errors in a channel when a result is sent.
LEMMA SendResult ==
  ASSUME NEW s \in Seq(Outcome), NEW o \in Outcome
  PROVE  /\ Append(s, o) \in Seq(Outcome)
         /\ Len(Append(s, o)) = Len(s) + 1
         /\ HasError(Append(s, o)) <=> HasError(s) \/ o = "error"
  <1>1. /\ Append(s, o) \in Seq(Outcome)
        /\ Len(Append(s, o)) = Len(s) + 1
        /\ DOMAIN Append(s, o) = 1 .. Len(s) + 1
        /\ DOMAIN s = 1 .. Len(s) /\ Len(s) \in Nat
        /\ \A i \in 1 .. Len(s) : Append(s, o)[i] = s[i]
        /\ Append(s, o)[Len(s) + 1] = o
    BY AppendProperties, LenProperties
  <1>2. Range(Append(s, o)) = Range(s) \cup {o}
    BY <1>1 DEF Range
  <1> QED BY <1>1, <1>2 DEF HasError

\* What becomes of the errors in a channel when a result is received.
LEMMA ReceiveResult ==
  ASSUME NEW s \in Seq(Outcome), s # <<>>
  PROVE  /\ Head(s) \in Outcome /\ Tail(s) \in Seq(Outcome)
         /\ Len(s) \in Nat \ {0}
         /\ Len(Tail(s)) = Len(s) - 1
         /\ HasError(s) <=> HasError(Tail(s)) \/ Head(s) = "error"
  <1>1. /\ Tail(s) \in Seq(Outcome) /\ Head(s) \in Outcome
        /\ Len(s) \in Nat \ {0}
        /\ Len(Tail(s)) = Len(s) - 1
        /\ DOMAIN s = 1 .. Len(s)
        /\ DOMAIN Tail(s) = 1 .. Len(s) - 1
        /\ \A i \in 1 .. Len(s) - 1 : Tail(s)[i] = s[i + 1]
        /\ Head(s) = s[1]
    BY HeadTailProperties, LenProperties, EmptySeq
  <1>2. \A x \in Range(s) : x = s[1] \/ x \in Range(Tail(s))
    <2> TAKE x \in Range(s)
    <2>1. PICK i \in 1 .. Len(s) : x = s[i]
      BY <1>1 DEF Range
    <2>2. CASE i = 1
      BY <2>1, <2>2
    <2>3. CASE i # 1
      <3>1. i - 1 \in 1 .. Len(s) - 1 /\ Tail(s)[i - 1] = s[i]
        BY <1>1, <2>3
      <3> QED BY <3>1, <2>1, <1>1 DEF Range
    <2> QED BY <2>2, <2>3
  <1>3. s[1] \in Range(s) /\ Range(Tail(s)) \subseteq Range(s)
    BY <1>1 DEF Range
  <1> QED BY <1>1, <1>2, <1>3 DEF HasError

\* A channel without results has none that is an error.
LEMMA NoResult ==
  ASSUME NEW s \in Seq(Outcome)
  PROVE  /\ Len(s) \in Nat
         /\ Len(s) = 0 <=> s = <<>>
         /\ Len(s) = 0 => ~HasError(s)
  BY LenProperties, EmptySeq DEF HasError, Range
-----------------------------------------------------------------------------
(***************************************************************************)
(* What a step does to the accounts.                                       *)
(***************************************************************************)

AccountsUntouched ==
  /\ UNCHANGED <<results, multi, multiError, received, errors, app, appError, closed,
                 failed>>
  /\ \A c \in Collectors : Returned(c)' <=> Returned(c)
  /\ pipeline' = "returned" <=> pipeline = "returned"

CollectorEnds ==
  \E c \in Collectors, outcome \in Outcome, cause \in Cause :
    collector[c] # "returned" /\ CollectorReturns(c, outcome, cause)

PipelineEnds ==
  /\ pipeline # "returned"
  /\ \E outcome \in Outcome, cause \in Cause : PipelineReturns(outcome, cause)
  /\ UNCHANGED <<ambient, sources, multis, bus, inFlight, states, app, appError, closed,
                 accepted, published>>

\* The steps, those of a kind taken together.
Handling ==
  \/ UNCHANGED vars \/ Signal \/ Terminated
  \/ \E c \in Collectors : \/ CollectorStarts(c) \/ EmitAccepted(c)
                           \/ \E e \in Event : Observe(c, e)
  \/ TakeEvent \/ ClientSends \/ PublishDone

LEMMA StepCases ==
  ASSUME [Next]_vars
  PROVE  \/ Handling
         \/ CollectorEnds
         \/ MultiReceives
         \/ PipelineEnds
         \/ AppReceivesFirst
         \/ AppReceivesSecond
  <1>1. ASSUME NEW c \in Collectors,
               \/ StartFails(c) \/ EmitCanceled(c) \/ CollectorStops(c)
               \/ CollectorFails(c)
        PROVE  CollectorEnds
    <2>1. "nil" \in Outcome /\ "error" \in Outcome
          /\ "failure" \in Cause /\ "cancellation" \in Cause
      BY DEF Outcome, Cause
    <2>2. CASE StartFails(c)
      BY <2>1, <2>2 DEF StartFails, CollectorEnds
    <2>3. CASE EmitCanceled(c)
      BY <2>1, <2>3 DEF EmitCanceled, CollectorEnds
    <2>4. CASE CollectorStops(c)
      BY <2>1, <2>4 DEF CollectorStops, CollectorEnds
    <2>5. CASE CollectorFails(c)
      BY <2>1, <2>5 DEF CollectorFails, CollectorEnds
    <2> QED BY <1>1, <2>2, <2>3, <2>4, <2>5
  <1>2. CASE PipelineStops \/ PublishFails \/ PublishCanceled
    BY <1>2 DEF PipelineStops, PublishFails, PublishCanceled, PipelineEnds, Outcome, Cause
  <1> QED BY <1>1, <1>2 DEF Next, CollectorStep, PipelineStep, Handling

\* What is neither the end of a part nor the receipt of a result leaves the accounts
\* alone.
LEMMA StepKinds ==
  ASSUME TypeOK, [Next]_vars
  PROVE  \/ AccountsUntouched
         \/ CollectorEnds
         \/ MultiReceives
         \/ PipelineEnds
         \/ AppReceivesFirst
         \/ AppReceivesSecond
  <1>1. CASE UNCHANGED vars \/ Signal \/ Terminated
    BY <1>1 DEF Signal, Terminated, AccountsUntouched, Returned, vars, sources, multis,
                sinks, apps, history
  <1>2. ASSUME NEW c \in Collectors,
               CollectorStarts(c) \/ EmitAccepted(c) \/ (\E e \in Event : Observe(c, e))
        PROVE  AccountsUntouched
    <2>1. /\ UNCHANGED <<results, multi, multiError, received, errors, app, appError,
                         closed, failed, pipeline>>
          /\ collector[c] # "returned"
          /\ \E w \in {"reading", "emitting"} : collector' = [collector EXCEPT ![c] = w]
      BY <1>2 DEF CollectorStarts, Observe, EmitAccepted, multis, sinks, apps, history
    <2>2. collector \in [Collectors -> {"starting", "reading", "emitting", "returned"}]
      BY DEF TypeOK
    <2> QED BY <2>1, <2>2 DEF AccountsUntouched, Returned
  <1>3. CASE TakeEvent \/ ClientSends \/ PublishDone
    BY <1>3 DEF TakeEvent, ClientSends, PublishDone, AccountsUntouched, Returned, sources,
                multis, apps, history
  <1> QED BY <1>1, <1>2, <1>3, StepCases DEF Handling
-----------------------------------------------------------------------------
(***************************************************************************)
(* Each part of the invariant is kept.                                     *)
(***************************************************************************)

LEMMA ReturnedOnesFinite ==
  /\ IsFiniteSet(Collectors) /\ IsFiniteSet(ReturnedOnes)
  /\ Cardinality(Collectors) \in Nat \ {0}
  /\ Cardinality(ReturnedOnes) \in Nat
  /\ Cardinality(ReturnedOnes) <= Cardinality(Collectors)
  /\ Cardinality(ReturnedOnes) = Cardinality(Collectors) => ReturnedOnes = Collectors
  <1>1. IsFiniteSet(Collectors) /\ Collectors # {}
    BY RuntimeAssumption
  <1>2. ReturnedOnes \in SUBSET Collectors
    BY DEF ReturnedOnes
  <1>3. Cardinality(Collectors) \in Nat /\ Cardinality(Collectors) # 0
    BY <1>1, FS_CardinalityType, FS_EmptySet
  <1>4. /\ IsFiniteSet(ReturnedOnes)
        /\ Cardinality(ReturnedOnes) <= Cardinality(Collectors)
        /\ Cardinality(Collectors) = Cardinality(ReturnedOnes) => Collectors = ReturnedOnes
    BY <1>1, <1>2, FS_Subset
  <1>5. Cardinality(ReturnedOnes) \in Nat
    BY <1>4, FS_CardinalityType
  <1> QED BY <1>1, <1>3, <1>4, <1>5

\* A collector returns once.
LEMMA OneMoreReturned ==
  ASSUME TypeOK, NEW c \in Collectors, collector[c] # "returned",
         collector' = [collector EXCEPT ![c] = "returned"]
  PROVE  Cardinality(ReturnedOnes)' = Cardinality(ReturnedOnes) + 1
  <1>1. collector \in [Collectors -> {"starting", "reading", "emitting", "returned"}]
    BY DEF TypeOK
  <1>2. ReturnedOnes' = ReturnedOnes \cup {c} /\ c \notin ReturnedOnes
    BY <1>1 DEF ReturnedOnes, Returned
  <1> QED BY <1>2, ReturnedOnesFinite, FS_AddElement

LEMMA MultiStep ==
  ASSUME TypeOK, MultiAccounts, [Next]_vars
  PROVE  MultiAccounts'
  <1> USE DEF MultiAccounts
  <1>1. CASE AccountsUntouched
    <2>1. ReturnedOnes' = ReturnedOnes
      BY <1>1 DEF AccountsUntouched, ReturnedOnes
    <2> QED BY <1>1, <2>1 DEF AccountsUntouched
  <1>2. CASE CollectorEnds
    <2>1. PICK c \in Collectors, outcome \in Outcome, cause \in Cause :
            collector[c] # "returned" /\ CollectorReturns(c, outcome, cause)
      BY <1>2 DEF CollectorEnds
    <2>2. Cardinality(ReturnedOnes)' = Cardinality(ReturnedOnes) + 1
      BY <2>1, OneMoreReturned DEF CollectorReturns
    <2>3. Len(results') = Len(results) + 1 /\ Len(results) \in Nat
      BY <2>1, SendResult, NoResult DEF TypeOK, CollectorReturns
    <2>4. UNCHANGED <<multi, received>>
      BY <2>1 DEF CollectorReturns, multis
    <2>5. received \in Nat
      BY ReturnedOnesFinite DEF TypeOK
    <2> QED BY <2>2, <2>3, <2>4, <2>5, ReturnedOnesFinite
  <1>3. CASE MultiReceives
    <2>1. ReturnedOnes' = ReturnedOnes
      BY <1>3 DEF MultiReceives, ReturnedOnes, Returned
    <2>2. /\ Len(results) \in Nat \ {0} /\ Len(results') = Len(results) - 1
          /\ received' = received + 1
      BY <1>3, ReceiveResult DEF MultiReceives, TypeOK
    <2>3. received \in Nat
      BY ReturnedOnesFinite DEF TypeOK
    <2>4. /\ multi' \in {"rest", "returned"}
          /\ multi' = "returned" <=> received' = Cardinality(Collectors)
      BY <1>3 DEF MultiReceives, MultiHasAll
    <2> QED BY <2>1, <2>2, <2>3, <2>4, ReturnedOnesFinite
  <1>4. CASE PipelineEnds \/ AppReceivesFirst \/ AppReceivesSecond
    <2>1. UNCHANGED <<collector, results, multi, received>>
      BY <1>4 DEF PipelineEnds, AppReceivesFirst, AppReceivesSecond, sources, multis
    <2>2. ReturnedOnes' = ReturnedOnes
      BY <2>1 DEF ReturnedOnes, Returned
    <2> QED BY <2>1, <2>2
  <1> QED BY <1>1, <1>2, <1>3, <1>4, StepKinds

LEMMA AppStep ==
  ASSUME TypeOK, AppAccounts, [Next]_vars
  PROVE  AppAccounts'
  <1> USE DEF AppAccounts, Taken, Ended
  <1>0. errors \in Seq(Outcome) /\ Len(errors) \in Nat
    BY NoResult DEF TypeOK
  <1>1. CASE AccountsUntouched
    BY <1>1 DEF AccountsUntouched
  <1>2. CASE CollectorEnds
    BY <1>2 DEF CollectorEnds, CollectorReturns, apps, sinks, multis
  <1>3. CASE MultiReceives
    <2>1. /\ UNCHANGED <<app, closed, pipeline>>
          /\ multi # "returned"
          /\ \/ multi' = "rest" /\ errors' = errors
             \/ multi' = "returned" /\ errors' = Append(errors, multiError')
      BY <1>3 DEF MultiReceives, sinks
    <2>2. multiError' \in Outcome
      BY <1>3, ReceiveResult DEF MultiReceives, TypeOK, WorstOf
    <2> QED BY <1>0, <2>1, <2>2, SendResult
  <1>4. CASE PipelineEnds
    <2>1. /\ UNCHANGED <<app, closed, multi>>
          /\ pipeline # "returned" /\ pipeline' = "returned"
          /\ \E outcome \in Outcome : errors' = Append(errors, outcome)
      BY <1>4 DEF PipelineEnds, PipelineReturns, multis
    <2> QED BY <1>0, <2>1, SendResult
  <1>5. CASE AppReceivesFirst
    <2>1. /\ UNCHANGED <<closed, pipeline, multi>>
          /\ app = "first" /\ app' = "second"
          /\ errors # <<>> /\ errors' = Tail(errors)
      BY <1>5 DEF AppReceivesFirst, sinks, multis
    <2> QED BY <1>0, <2>1, ReceiveResult
  <1>6. CASE AppReceivesSecond
    <2>1. /\ UNCHANGED <<pipeline, multi>>
          /\ app = "second" /\ app' = "returned" /\ closed' = TRUE
          /\ errors # <<>> /\ errors' = Tail(errors)
      BY <1>6 DEF AppReceivesSecond, sinks, multis
    <2> QED BY <1>0, <2>1, ReceiveResult
  <1> QED BY <1>1, <1>2, <1>3, <1>4, <1>5, <1>6, StepKinds

LEMMA ErrorStep ==
  ASSUME TypeOK, ErrorsAccounted, [Next]_vars
  PROVE  ErrorsAccounted'
  <1> USE DEF ErrorsAccounted
  <1>0. /\ errors \in Seq(Outcome) /\ results \in Seq(Outcome)
        /\ multiError \in Outcome /\ appError \in Outcome
    BY DEF TypeOK
  <1>1. CASE AccountsUntouched
    BY <1>1 DEF AccountsUntouched, HasError
  <1>2. CASE CollectorEnds
    <2>1. PICK outcome \in Outcome :
            /\ results' = Append(results, outcome)
            /\ failed' # {} <=> failed # {} \/ outcome = "error"
            /\ UNCHANGED <<errors, multi, multiError, app, appError>>
      BY <1>2 DEF CollectorEnds, CollectorReturns, apps, multis, Outcome
    <2>2. HasError(results') <=> HasError(results) \/ outcome = "error"
      BY <1>0, <2>1, SendResult
    <2>3. HasError(errors)' <=> HasError(errors)
      BY <2>1 DEF HasError
    <2>4. HasError(results)' <=> HasError(results')
      BY DEF HasError
    <2> QED BY <2>1, <2>2, <2>3, <2>4
  <1>3. CASE MultiReceives
    <2>1. /\ results # <<>> /\ results' = Tail(results)
          /\ multiError' = IF multi = "first" THEN Head(results)
                           ELSE WorstOf(multiError, Head(results))
          /\ UNCHANGED <<app, appError, failed>>
          /\ multi' # "first"
          /\ \/ multi' = "rest" /\ errors' = errors
             \/ multi' = "returned" /\ errors' = Append(errors, multiError')
      BY <1>3 DEF MultiReceives, history
    <2>2. /\ Head(results) \in Outcome
          /\ HasError(results) <=> HasError(results)' \/ Head(results) = "error"
      BY <1>0, <2>1, ReceiveResult DEF HasError
    <2>3. /\ multiError' \in Outcome
          /\ multiError' = "error" <=> multiError = "error" \/ Head(results) = "error"
      BY <1>0, <2>1, <2>2 DEF WorstOf, Outcome
    <2>4. CASE multi' = "rest"
      <3>1. HasError(errors)' <=> HasError(errors)
        BY <2>1, <2>4 DEF HasError
      <3> QED BY <2>1, <2>2, <2>3, <2>4, <3>1
    <2>5. CASE multi' = "returned"
      <3>0. PICK o \in Outcome : o = multiError' /\ errors' = Append(errors, o)
        BY <2>1, <2>3, <2>5
      <3>1. HasError(errors') <=> HasError(errors) \/ multiError' = "error"
        BY <1>0, <3>0, SendResult
      <3>2. HasError(errors)' <=> HasError(errors')
        BY DEF HasError
      <3> QED BY <2>1, <2>2, <2>3, <2>5, <3>1, <3>2
    <2> QED BY <2>1, <2>4, <2>5
  <1>4. CASE PipelineEnds
    <2>0. PICK outcome \in Outcome, cause \in Cause : PipelineReturns(outcome, cause)
      BY <1>4 DEF PipelineEnds
    <2>1. /\ errors' = Append(errors, outcome)
          /\ failed' # {} <=> failed # {} \/ outcome = "error"
          /\ UNCHANGED <<results, multi, multiError, app, appError>>
      BY <1>4, <2>0 DEF PipelineEnds, PipelineReturns, sources, multis
    <2>2. HasError(errors') <=> HasError(errors) \/ outcome = "error"
      BY <1>0, <2>1, SendResult
    <2>3. /\ HasError(errors)' <=> HasError(errors')
          /\ HasError(results)' <=> HasError(results)
      BY <2>1 DEF HasError
    <2> QED BY <2>1, <2>2, <2>3
  <1>5. CASE AppReceivesFirst
    <2>1. /\ errors # <<>> /\ errors' = Tail(errors) /\ appError' = Head(errors)
          /\ app = "first" /\ app' = "second"
          /\ UNCHANGED <<results, multi, multiError, failed>>
      BY <1>5 DEF AppReceivesFirst, sources, multis, history
    <2>2. /\ HasError(errors) <=> HasError(errors)' \/ appError' = "error"
          /\ HasError(results)' <=> HasError(results)
      BY <1>0, <2>1, ReceiveResult DEF HasError
    <2> QED BY <2>1, <2>2
  <1>6. CASE AppReceivesSecond
    <2>1. /\ errors # <<>> /\ errors' = Tail(errors)
          /\ appError' = WorstOf(appError, Head(errors))
          /\ app' = "returned"
          /\ UNCHANGED <<results, multi, multiError, failed>>
      BY <1>6 DEF AppReceivesSecond, sources, multis, history
    <2>2. /\ Head(errors) \in Outcome
          /\ HasError(errors) <=> HasError(errors)' \/ Head(errors) = "error"
          /\ HasError(results)' <=> HasError(results)
      BY <1>0, <2>1, ReceiveResult DEF HasError
    <2>3. appError' = "error" <=> appError = "error" \/ Head(errors) = "error"
      BY <1>0, <2>1, <2>2 DEF WorstOf, Outcome
    <2> QED BY <2>1, <2>2, <2>3
  <1> QED BY <1>1, <1>2, <1>3, <1>4, <1>5, <1>6, StepKinds

-----------------------------------------------------------------------------
LEMMA TypeStep ==
  ASSUME TypeOK, MultiAccounts, [Next]_vars
  PROVE  TypeOK'
  <1>1. CASE UNCHANGED vars
    BY <1>1 DEF TypeOK, vars, ambient, sources, multis, sinks, apps, history
  <1>2. CASE Signal \/ Terminated
    <2>1. CASE Signal
      BY <2>1 DEF Signal, TypeOK, sources, multis, sinks, apps, history
    <2>2. CASE Terminated
      BY <2>2 DEF Terminated, TypeOK, vars, ambient, sources, multis, sinks, apps, history
    <2> QED BY <1>2, <2>1, <2>2
  <1>3. ASSUME NEW c \in Collectors, CollectorStarts(c)
        PROVE  TypeOK'
    BY <1>3 DEF CollectorStarts, TypeOK, ambient, multis, sinks, apps, history
  <1>4. ASSUME NEW c \in Collectors, NEW e \in Event, Observe(c, e)
        PROVE  TypeOK'
    BY <1>4 DEF Observe, TypeOK, ambient, multis, sinks, apps, history
  <1>5. ASSUME NEW c \in Collectors, EmitAccepted(c)
        PROVE  TypeOK'
    <2>1. PICK e \in Event : bus' = Append(bus, e) /\ accepted' = Append(accepted, e)
      BY <1>5 DEF EmitAccepted, TypeOK
    <2>2. /\ bus' \in Seq(Event) /\ accepted' \in Seq(Event)
          /\ Len(bus') = Len(bus) + 1 /\ Len(bus) \in Nat
      BY <2>1, AppendProperties, LenProperties DEF TypeOK
    <2>3. Len(bus') <= BusCapacity
      BY <1>5, <2>2, RuntimeAssumption DEF EmitAccepted, HasRoom
    <2> QED
      BY <1>5, <2>2, <2>3
      DEF EmitAccepted, TypeOK, ambient, multis, sinks, apps, history
  <1>6. ASSUME NEW c \in Collectors, NEW outcome \in Outcome, NEW cause \in Cause,
               CollectorReturns(c, outcome, cause)
        PROVE  TypeOK'
    <2>1. results' \in Seq(Outcome)
      BY <1>6, SendResult DEF CollectorReturns, TypeOK
    <2>2. failed' \subseteq (Collectors \cup {"pipeline"}) \X Cause
      BY <1>6 DEF CollectorReturns, TypeOK
    <2> QED
      BY <1>6, <2>1, <2>2
      DEF CollectorReturns, TypeOK, ambient, multis, sinks, apps
  <1>7. CASE MultiReceives
    <2>1. results' \in Seq(Outcome) /\ Head(results) \in Outcome
          /\ Len(results) \in Nat \ {0}
      BY <1>7, ReceiveResult DEF MultiReceives, TypeOK
    <2>2. multiError' \in Outcome
      BY <1>7, <2>1 DEF MultiReceives, TypeOK, WorstOf
    <2>3. errors' \in Seq(Outcome)
      BY <1>7, <2>2, SendResult DEF MultiReceives, TypeOK
    <2>4. received' \in 0 .. Cardinality(Collectors)
      BY <1>7, <2>1, ReturnedOnesFinite DEF MultiReceives, MultiAccounts, TypeOK
    <2> QED
      BY <1>7, <2>1, <2>2, <2>3, <2>4 DEF MultiReceives, TypeOK, sinks, history
  <1>8. CASE PipelineEnds
    <2>1. PICK outcome \in Outcome, cause \in Cause : PipelineReturns(outcome, cause)
      BY <1>8 DEF PipelineEnds
    <2>2. errors' \in Seq(Outcome)
      BY <2>1, SendResult DEF PipelineReturns, TypeOK
    <2>3. failed' \subseteq (Collectors \cup {"pipeline"}) \X Cause
      BY <2>1 DEF PipelineReturns, TypeOK
    <2> QED
      BY <1>8, <2>1, <2>2, <2>3
      DEF PipelineEnds, PipelineReturns, TypeOK, ambient, sources, multis
  <1>9. CASE TakeEvent
    <2>1. /\ Head(bus) \in Event /\ Tail(bus) \in Seq(Event)
          /\ Len(Tail(bus)) = Len(bus) - 1 /\ Len(bus) \in Nat
      BY <1>9, HeadTailProperties, LenProperties DEF TakeEvent, TypeOK
    <2>2. Len(bus') <= BusCapacity
      BY <1>9, <2>1, RuntimeAssumption DEF TakeEvent, TypeOK
    <2>3. DOMAIN states' \subseteq Devices /\ states' \in [DOMAIN states' -> Type]
      BY <1>9, <2>1 DEF TakeEvent, TypeOK, Remembers, Event
    <2>4. inFlight' \in SUBSET Event /\ pipeline' \in {"idle", "publishing", "returned"}
      BY <1>9, <2>1 DEF TakeEvent, TypeOK
    <2> QED
      BY <1>9, <2>1, <2>2, <2>3, <2>4
      DEF TakeEvent, TypeOK, ambient, sources, multis, apps, history
  <1>10. CASE ClientSends
    <2>1. PICK e \in Event : published' = Append(published, e)
      BY <1>10 DEF ClientSends, TypeOK
    <2>2. published' \in Seq(Event)
      BY <2>1, AppendProperties DEF TypeOK
    <2> QED
      BY <1>10, <2>2 DEF ClientSends, TypeOK, ambient, sources, multis, apps
  <1>11. CASE PublishDone
    BY <1>11 DEF PublishDone, TypeOK, ambient, sources, multis, apps, history
  <1>12. CASE AppReceivesFirst \/ AppReceivesSecond
    <2>1. errors' \in Seq(Outcome) /\ Head(errors) \in Outcome
      BY <1>12, ReceiveResult DEF AppReceivesFirst, AppReceivesSecond, TypeOK
    <2> QED
      BY <1>12, <2>1
      DEF AppReceivesFirst, AppReceivesSecond, WorstOf, TypeOK, ambient, sources, multis,
          sinks, history
  <1>13. CollectorEnds => TypeOK'
    BY <1>6 DEF CollectorEnds
  <1> QED
    BY <1>1, <1>2, <1>3, <1>4, <1>5, <1>7, <1>8, <1>9, <1>10, <1>11, <1>12, <1>13,
       StepCases
    DEF Handling
-----------------------------------------------------------------------------
LEMMA InitialTypes == Init => TypeOK
  <1> SUFFICES ASSUME Init
               PROVE  TypeOK
    OBVIOUS
  <1>1. <<>> \in Seq(Outcome) /\ <<>> \in Seq(Event) /\ Len(<<>>) = 0
    BY EmptySeq
  <1>2. 0 <= BusCapacity /\ 0 \in 0 .. Cardinality(Collectors)
    BY RuntimeAssumption, ReturnedOnesFinite
  <1> QED BY <1>1, <1>2 DEF Init, TypeOK, Type, Outcome

LEMMA RuntimeInvHolds == Spec => []RuntimeInv
  <1>1. Init => RuntimeInv
    <2> SUFFICES ASSUME Init
                 PROVE  RuntimeInv
      OBVIOUS
    <2>1. Len(<<>>) = 0 /\ ~HasError(<<>>)
      BY EmptySeq DEF HasError, Range
    <2>3. TypeOK
      BY InitialTypes
    <2>4. ReturnedOnes = {} /\ Cardinality(ReturnedOnes) = 0
      BY FS_EmptySet DEF Init, ReturnedOnes, Returned
    <2>5. AppAccounts /\ MultiAccounts
      BY <2>1, <2>4, ReturnedOnesFinite
      DEF Init, AppAccounts, MultiAccounts, Taken, Ended
    <2>6. ErrorsAccounted
      BY <2>1 DEF Init, ErrorsAccounted
    <2> QED BY <2>3, <2>5, <2>6 DEF RuntimeInv
  <1>2. RuntimeInv /\ [Next]_vars => RuntimeInv'
    BY TypeStep, AppStep, MultiStep, ErrorStep DEF RuntimeInv
  <1> QED BY <1>1, <1>2, PTL DEF Spec

\* The variables of the runtime keep their types: the bus never holds more than its
\* capacity, and Multi never receives more results than it has collectors.
THEOREM RuntimeTypeCorrect == Spec => []TypeOK
  <1>1. RuntimeInv => TypeOK
    BY DEF RuntimeInv
  <1> QED BY <1>1, RuntimeInvHolds, PTL

\* When Run has returned, every part has.
LEMMA AllAreAccountedFor ==
  ASSUME RuntimeInv, app = "returned"
  PROVE  /\ pipeline = "returned" /\ multi = "returned"
         /\ ReturnedOnes = Collectors
         /\ results = <<>> /\ errors = <<>>
  <1>1. /\ results \in Seq(Outcome) /\ errors \in Seq(Outcome)
        /\ received \in 0 .. Cardinality(Collectors)
    BY DEF RuntimeInv, TypeOK
  <1>2. Len(results) \in Nat /\ Len(errors) \in Nat
    BY <1>1, NoResult
  <1>3. pipeline = "returned" /\ multi = "returned" /\ Len(errors) = 0
    BY <1>2 DEF RuntimeInv, AppAccounts, Taken, Ended
  <1>4. /\ received = Cardinality(Collectors)
        /\ received + Len(results) = Cardinality(ReturnedOnes)
    BY <1>3 DEF RuntimeInv, MultiAccounts
  <1>5. Len(results) = 0 /\ ReturnedOnes = Collectors
    BY <1>2, <1>4, ReturnedOnesFinite
  <1> QED BY <1>1, <1>3, <1>5, NoResult

\* App.Run returns, and closes the publisher, only when the pipeline and every
\* collector have returned.
THEOREM NothingIsLeftBehind == Spec => []NothingOutlivesRun
  <1>1. RuntimeInv => NothingOutlivesRun
    <2> SUFFICES ASSUME RuntimeInv, closed
                 PROVE  /\ pipeline = "returned"
                        /\ \A c \in Collectors : collector[c] = "returned"
      BY DEF NothingOutlivesRun
    <2>1. app = "returned"
      BY DEF RuntimeInv, AppAccounts
    <2> QED BY <2>1, AllAreAccountedFor DEF ReturnedOnes, Returned
  <1> QED BY <1>1, RuntimeInvHolds, PTL

\* App.Run returns an error exactly when a collector or the pipeline has returned one.
THEOREM FailuresAreReported == Spec => []FailureIsReported
  <1>1. RuntimeInv => FailureIsReported
    <2> SUFFICES ASSUME RuntimeInv, app = "returned"
                 PROVE  appError = "error" <=> failed # {}
      BY DEF FailureIsReported
    <2>1. /\ ~HasError(results) /\ ~HasError(errors) /\ multi = "returned"
      BY AllAreAccountedFor DEF HasError, Range
    <2> QED BY <2>1 DEF RuntimeInv, ErrorsAccounted
  <1> QED BY <1>1, RuntimeInvHolds, PTL
-----------------------------------------------------------------------------
(***************************************************************************)
(* The runtime implements the feed.  The pipeline has taken the first of   *)
(* the announcements and left the others in the bus; of the news among     *)
(* those it has taken all is published, but for one piece the client may   *)
(* still hold; and its memory tells repetitions from news.                 *)
(***************************************************************************)

\* How many announcements the pipeline has taken, and where the news is among them.
Processed == Len(accepted) - Len(bus)
NewsTaken == {i \in Feed!News(accepted) : i <= Processed}

\* The news among h up to the i-th announcement: the last of it has this rank.
NewsUpTo(h, i) == {j \in Feed!News(h) : j <= i}
Rank(h, i) == Cardinality(NewsUpTo(h, i))

\* The n-th message is the n-th piece of the news taken.
Publishes(e, n) ==
  \E i \in NewsTaken : Rank(accepted, i) = n /\ accepted[i] = e

BusIsBacklog ==
  /\ Len(bus) <= Len(accepted)
  /\ \A i \in 1 .. Len(bus) : bus[i] = accepted[Processed + i]

SentInOrder ==
  /\ \A n \in 1 .. Len(published) : Publishes(published[n], n)
  /\ \A e \in inFlight : Publishes(e, Len(published) + 1)
  /\ \A e, f \in inFlight : e = f
  /\ Cardinality(NewsTaken) =
       Len(published) + (IF inFlight = {} THEN 0 ELSE 1)
  /\ pipeline = "idle" => inFlight = {}

\* j is the place of the last announcement taken that is about d.
LastTaken(d, j) ==
  /\ j \in 1 .. Processed /\ accepted[j].mac = d
  /\ \A k \in 1 .. Processed : accepted[k].mac = d => k <= j

MemoryIsCurrent ==
  \A d \in Devices :
    \/ /\ d \notin DOMAIN states
       /\ \A k \in 1 .. Processed : accepted[k].mac # d
    \/ /\ d \in DOMAIN states
       /\ \E j \in 1 .. Processed : LastTaken(d, j) /\ accepted[j].type = states[d]

FeedInv == TypeOK /\ BusIsBacklog /\ SentInOrder /\ MemoryIsCurrent

LEMMA NewsType ==
  ASSUME NEW h \in Seq(Event)
  PROVE  /\ Len(h) \in Nat /\ DOMAIN h = 1 .. Len(h)
         /\ Feed!News(h) \subseteq 1 .. Len(h)
         /\ IsFiniteSet(Feed!News(h))
         /\ Cardinality(Feed!News(h)) \in Nat
  <1>1. Len(h) \in Nat /\ DOMAIN h = 1 .. Len(h)
    BY LenProperties
  <1>2. Feed!News(h) \subseteq 1 .. Len(h)
    BY <1>1 DEF Feed!News
  <1>3. IsFiniteSet(1 .. Len(h))
    <2>1. \A n \in Nat : IsFiniteSet(1 .. n)
      BY FS_Interval
    <2> QED BY <1>1, <2>1
  <1>4. IsFiniteSet(Feed!News(h))
    BY <1>2, <1>3, FS_Subset
  <1> QED BY <1>1, <1>2, <1>4, FS_CardinalityType

LEMMA NewsUpToType ==
  ASSUME NEW h \in Seq(Event), NEW i \in Int
  PROVE  /\ NewsUpTo(h, i) \subseteq Feed!News(h)
         /\ IsFiniteSet(NewsUpTo(h, i))
         /\ Rank(h, i) \in Nat
         /\ Rank(h, i) <= Cardinality(Feed!News(h))
  <1>1. NewsUpTo(h, i) \subseteq Feed!News(h)
    BY DEF NewsUpTo
  <1>2. IsFiniteSet(NewsUpTo(h, i)) /\ Rank(h, i) <= Cardinality(Feed!News(h))
    BY <1>1, NewsType, FS_Subset DEF Rank
  <1> QED BY <1>1, <1>2, FS_CardinalityType DEF Rank

\* No two pieces of news have the same rank.
LEMMA RankIsUnique ==
  ASSUME NEW h \in Seq(Event), NEW i \in Feed!News(h), NEW j \in Feed!News(h),
         Rank(h, i) = Rank(h, j)
  PROVE  i = j
  <1>1. i \in Int /\ j \in Int
    BY NewsType
  <1>2. ASSUME NEW k \in Feed!News(h), NEW l \in Feed!News(h), k < l,
               Rank(h, k) = Rank(h, l)
        PROVE  FALSE
    <2>1. k \in Int /\ l \in Int
      BY NewsType
    <2>2. NewsUpTo(h, k) \subseteq NewsUpTo(h, l)
      BY <1>2, <2>1, NewsType DEF NewsUpTo
    <2>3. l \in NewsUpTo(h, l) /\ l \notin NewsUpTo(h, k)
      BY <1>2, <2>1 DEF NewsUpTo
    <2>4. IsFiniteSet(NewsUpTo(h, l))
      BY <2>1, NewsUpToType
    <2> QED BY <1>2, <2>2, <2>3, <2>4, FS_Subset DEF Rank
  <1> QED BY <1>1, <1>2

\* The digest has a place for each piece of news, that of its rank.
LEMMA DigestProperties ==
  ASSUME NEW h \in Seq(Event)
  PROVE  /\ Len(Feed!Digest(h)) = Cardinality(Feed!News(h))
         /\ DOMAIN Feed!Digest(h) = 1 .. Cardinality(Feed!News(h))
         /\ Feed!Digest(h) = [n \in 1 .. Cardinality(Feed!News(h)) |-> Feed!Digest(h)[n]]
         /\ \A i \in Feed!News(h) :
              Rank(h, i) \in 1 .. Cardinality(Feed!News(h))
                => Feed!Digest(h)[Rank(h, i)] = h[i]
  <1> DEFINE N == Cardinality(Feed!News(h))
             At(n) == CHOOSE i \in Feed!News(h) :
                        Cardinality({j \in Feed!News(h) : j <= i}) = n
             D == [n \in 1 .. N |-> h[At(n)]]
  <1>1. Feed!Digest(h) = D
    BY DEF Feed!Digest, Feed!Cardinality, Cardinality
  <1>2. N \in Nat
    BY NewsType
  <1>3. Len(D) = N
    <2> DEFINE S == {h[At(n)] : n \in 1 .. N}
    <2>1. D \in [1 .. N -> S]
      OBVIOUS
    <2>2. \A f, T : (\E n \in Nat : f \in [1 .. n -> T]) => f \in Seq(T)
      BY SeqDef
    <2>3. D \in Seq(S)
      <3> HIDE DEF D, N, S
      <3> QED BY <1>2, <2>1, <2>2
    <2>4. DOMAIN D = 1 .. N
      OBVIOUS
    <2> HIDE DEF D, N, S
    <2> QED BY <1>2, <2>3, <2>4, LenProperties
  <1>4. ASSUME NEW i \in Feed!News(h), Rank(h, i) \in 1 .. N
        PROVE  D[Rank(h, i)] = h[i]
    <2>1. At(Rank(h, i)) \in Feed!News(h) /\ Rank(h, At(Rank(h, i))) = Rank(h, i)
      BY DEF Rank, NewsUpTo
    <2>2. At(Rank(h, i)) = i
      BY <2>1, RankIsUnique
    <2> QED BY <1>4, <2>2
  <1> QED BY <1>1, <1>3, <1>4

\* An announcement changes nothing about those before it.
LEMMA NewsAppended ==
  ASSUME NEW h \in Seq(Event), NEW e \in Event
  PROVE  /\ Append(h, e) \in Seq(Event)
         /\ Len(Append(h, e)) = Len(h) + 1
         /\ Append(h, e)[Len(h) + 1] = e
         /\ \A i \in 1 .. Len(h) :
              /\ Append(h, e)[i] = h[i]
              /\ i \in Feed!News(Append(h, e)) <=> i \in Feed!News(h)
              /\ Rank(Append(h, e), i) = Rank(h, i)
  <1> DEFINE g == Append(h, e)
  <1>1. /\ g \in Seq(Event)
        /\ Len(g) = Len(h) + 1 /\ Len(h) \in Nat
        /\ DOMAIN g = 1 .. Len(h) + 1
        /\ DOMAIN h = 1 .. Len(h)
        /\ \A i \in 1 .. Len(h) : g[i] = h[i]
        /\ g[Len(h) + 1] = e
    BY AppendProperties, LenProperties
  <1> HIDE DEF g
  <1>2. ASSUME NEW i \in 1 .. Len(h)
        PROVE  i \in Feed!News(g) <=> i \in Feed!News(h)
    <2>1. Feed!Earlier(g, i) = Feed!Earlier(h, i) /\ Feed!Earlier(h, i) \subseteq 1 .. Len(h)
      BY <1>1 DEF Feed!Earlier
    <2>2. Feed!Repeats(g, i) <=> Feed!Repeats(h, i)
      BY <1>1, <2>1 DEF Feed!Repeats
    <2> QED BY <1>1, <2>2 DEF Feed!News
  <1>3. ASSUME NEW i \in 1 .. Len(h)
        PROVE  NewsUpTo(g, i) = NewsUpTo(h, i)
    <2>1. ASSUME NEW j, j <= i
          PROVE  j \in Feed!News(g) <=> j \in Feed!News(h)
      <3>1. CASE j \in 1 .. Len(h)
        BY <1>2, <3>1
      <3>2. CASE j \notin 1 .. Len(h)
        <4>1. j \notin Feed!News(h)
          BY <3>2, NewsType
        <4>2. Feed!News(g) \subseteq 1 .. Len(h) + 1
          BY <1>1, NewsType
        <4> QED BY <1>1, <2>1, <3>2, <4>1, <4>2
      <3> QED BY <3>1, <3>2
    <2> QED BY <2>1 DEF NewsUpTo
  <1>4. \A i \in 1 .. Len(h) : Rank(g, i) = Rank(h, i)
    BY <1>3 DEF Rank
  <1> QED BY <1>1, <1>2, <1>4 DEF g
-----------------------------------------------------------------------------
(***************************************************************************)
(* Each step keeps the invariant, and is a step of the feed.               *)
(***************************************************************************)

FeedUntouched ==
  /\ UNCHANGED <<enabled, bus, inFlight, states, accepted, published>>
  /\ pipeline' = "idle" => pipeline = "idle" \/ inFlight = {}

Emits(e) ==
  /\ accepted' = Append(accepted, e) /\ bus' = Append(bus, e)
  /\ UNCHANGED <<enabled, inFlight, states, published, pipeline>>

Sends(e) ==
  /\ e \in inFlight /\ inFlight' = {}
  /\ published' = Append(published, e)
  /\ UNCHANGED <<enabled, bus, states, accepted, pipeline>>

LEMMA FeedKinds ==
  ASSUME TypeOK, [Next]_vars
  PROVE  \/ FeedUntouched
         \/ \E e \in Event : Emits(e) \/ Sends(e)
         \/ TakeEvent
  <1>1. CASE UNCHANGED vars \/ Signal \/ Terminated
    BY <1>1 DEF Signal, Terminated, FeedUntouched, vars, ambient, sinks, history
  <1>2. ASSUME NEW c \in Collectors,
               CollectorStarts(c) \/ (\E e \in Event : Observe(c, e))
        PROVE  FeedUntouched
    BY <1>2 DEF CollectorStarts, Observe, FeedUntouched, ambient, sinks, history
  <1>3. ASSUME NEW c \in Collectors, EmitAccepted(c)
        PROVE  \E e \in Event : Emits(e)
    <2>1. pending[c] \subseteq Event
      BY DEF TypeOK
    <2> QED BY <1>3, <2>1 DEF EmitAccepted, Emits, ambient, sinks
  <1>4. CASE ClientSends
    <2>1. inFlight \subseteq Event
      BY DEF TypeOK
    <2> QED BY <1>4, <2>1 DEF ClientSends, Sends, ambient
  <1>5. CASE PublishDone
    BY <1>5 DEF PublishDone, Sent, FeedUntouched, ambient, history
  <1>6. CASE CollectorEnds \/ PipelineEnds
    BY <1>6 DEF CollectorEnds, CollectorReturns, PipelineEnds, PipelineReturns,
                FeedUntouched, ambient, sinks
  <1>7. CASE MultiReceives \/ AppReceivesFirst \/ AppReceivesSecond
    BY <1>7 DEF MultiReceives, AppReceivesFirst, AppReceivesSecond, FeedUntouched,
                ambient, sinks, history
  <1> QED BY <1>1, <1>2, <1>3, <1>4, <1>5, <1>6, <1>7, StepCases DEF Handling

LEMMA ProcessedType ==
  ASSUME TypeOK, BusIsBacklog
  PROVE  /\ accepted \in Seq(Event) /\ bus \in Seq(Event) /\ published \in Seq(Event)
         /\ Len(accepted) \in Nat /\ Len(bus) \in Nat /\ Len(published) \in Nat
         /\ Processed \in 0 .. Len(accepted)
         /\ Len(accepted) = Processed + Len(bus)
         /\ NewsTaken \subseteq Feed!News(accepted)
         /\ IsFiniteSet(NewsTaken) /\ Cardinality(NewsTaken) \in Nat
  <1>1. accepted \in Seq(Event) /\ bus \in Seq(Event) /\ published \in Seq(Event)
    BY DEF TypeOK
  <1>2. Len(accepted) \in Nat /\ Len(bus) \in Nat /\ Len(published) \in Nat
    BY <1>1, LenProperties
  <1>3. NewsTaken = NewsUpTo(accepted, Processed)
    BY DEF NewsTaken, NewsUpTo
  <1>4. Processed \in 0 .. Len(accepted) /\ Len(accepted) = Processed + Len(bus)
    BY <1>2 DEF BusIsBacklog, Processed
  <1>5. NewsTaken \subseteq Feed!News(accepted) /\ IsFiniteSet(NewsTaken)
    BY <1>1, <1>3, <1>4, NewsUpToType
  <1> QED BY <1>1, <1>2, <1>4, <1>5, FS_CardinalityType

\* As long as the types enabled are, what is news in a history is.
LEMMA SameNews ==
  ASSUME enabled' = enabled
  PROVE  /\ Feed!News(accepted)' = Feed!News(accepted')
         /\ \A i : Rank(accepted, i)' = Rank(accepted', i)
  <1>1. Feed!News(accepted)' = Feed!News(accepted')
    BY DEF Feed!News, Feed!Repeats, Feed!Earlier
  <1> QED BY <1>1 DEF Rank, NewsUpTo

\* A step without an announcement leaves the news where it is.
LEMMA HistoryUntouched ==
  ASSUME UNCHANGED <<enabled, accepted>>
  PROVE  /\ Feed!News(accepted)' = Feed!News(accepted)
         /\ \A i : Rank(accepted, i)' = Rank(accepted, i)
  BY SameNews

\* Until the pipeline takes the next announcement, what it has taken stays the same.
LEMMA NothingTaken ==
  ASSUME TypeOK, BusIsBacklog, Processed' = Processed,
         \A i \in 1 .. Len(accepted) :
           /\ accepted'[i] = accepted[i]
           /\ i \in Feed!News(accepted)' <=> i \in Feed!News(accepted)
           /\ Rank(accepted, i)' = Rank(accepted, i),
         Feed!News(accepted)' \subseteq Nat \ {0}
  PROVE  /\ NewsTaken' = NewsTaken
         /\ \A x, n : Publishes(x, n)' <=> Publishes(x, n)
         /\ MemoryIsCurrent /\ states' = states => MemoryIsCurrent'
  <1>1. /\ Processed \in Nat /\ Processed <= Len(accepted)
        /\ Feed!News(accepted) \subseteq 1 .. Len(accepted)
        /\ Len(accepted) \in Nat
    BY ProcessedType, NewsType
  <1>2. NewsTaken' = NewsTaken
    BY <1>1 DEF NewsTaken
  <1>3. \A i \in NewsTaken : i \in 1 .. Len(accepted)
    BY <1>1 DEF NewsTaken
  <1>4. \A x, n : Publishes(x, n)' <=> Publishes(x, n)
    BY <1>2, <1>3 DEF Publishes
  <1>5. ASSUME MemoryIsCurrent, states' = states
        PROVE  MemoryIsCurrent'
    <2>1. \A i \in 1 .. Processed : accepted'[i] = accepted[i]
      BY <1>1
    <2>2. \A d, j : LastTaken(d, j)' <=> LastTaken(d, j)
      BY <2>1 DEF LastTaken
    <2> QED BY <1>5, <2>1, <2>2 DEF MemoryIsCurrent
  <1> QED BY <1>2, <1>4, <1>5

LEMMA FeedUntouchedStep ==
  ASSUME FeedInv, FeedUntouched
  PROVE  BusIsBacklog' /\ SentInOrder' /\ MemoryIsCurrent'
  <1> USE DEF FeedInv, FeedUntouched
  <1>1. Processed' = Processed /\ BusIsBacklog'
    BY DEF Processed, BusIsBacklog
  <1>2. Feed!News(accepted) \subseteq Nat \ {0}
    BY ProcessedType, NewsType
  <1>3. /\ NewsTaken' = NewsTaken
        /\ \A x, n : Publishes(x, n)' <=> Publishes(x, n)
        /\ MemoryIsCurrent'
    BY <1>1, <1>2, HistoryUntouched, NothingTaken
  <1>4. SentInOrder'
    BY <1>3 DEF SentInOrder
  <1> QED BY <1>1, <1>3, <1>4

LEMMA EmitStep ==
  ASSUME FeedInv, NEW e \in Event, Emits(e)
  PROVE  BusIsBacklog' /\ SentInOrder' /\ MemoryIsCurrent'
  <1>0. /\ accepted \in Seq(Event) /\ bus \in Seq(Event)
        /\ Len(accepted) \in Nat /\ Len(bus) \in Nat
        /\ Processed \in 0 .. Len(accepted)
        /\ Len(accepted) = Processed + Len(bus)
    BY ProcessedType DEF FeedInv
  <1>1. /\ accepted' \in Seq(Event)
        /\ Len(accepted') = Len(accepted) + 1
        /\ accepted'[Len(accepted) + 1] = e
        /\ \A i \in 1 .. Len(accepted) :
             /\ accepted'[i] = accepted[i]
             /\ i \in Feed!News(accepted') <=> i \in Feed!News(accepted)
             /\ Rank(accepted', i) = Rank(accepted, i)
    BY <1>0, NewsAppended DEF Emits
  <1>2. /\ Len(bus') = Len(bus) + 1
        /\ bus'[Len(bus) + 1] = e
        /\ \A i \in 1 .. Len(bus) : bus'[i] = bus[i]
    BY <1>0, AppendProperties DEF Emits
  <1>3. Processed' = Processed
    BY <1>0, <1>1, <1>2 DEF Processed
  <1>4. BusIsBacklog'
    <2>1. ASSUME NEW i \in 1 .. Len(bus')
          PROVE  bus'[i] = accepted'[Processed + i]
      <3>1. CASE i = Len(bus) + 1
        <4>1. Processed + i = Len(accepted) + 1
          BY <1>0, <3>1
        <4> QED BY <1>1, <1>2, <3>1, <4>1
      <3>2. CASE i # Len(bus) + 1
        <4>1. i \in 1 .. Len(bus) /\ Processed + i \in 1 .. Len(accepted)
          BY <1>0, <1>2, <3>2
        <4> QED BY <1>1, <1>2, <4>1 DEF BusIsBacklog, FeedInv
      <3> QED BY <3>1, <3>2
    <2>2. Len(bus') <= Len(accepted')
      BY <1>0, <1>1, <1>2
    <2> QED BY <1>3, <2>1, <2>2 DEF BusIsBacklog
  <1>5. \A i \in 1 .. Len(accepted) :
          /\ accepted'[i] = accepted[i]
          /\ i \in Feed!News(accepted)' <=> i \in Feed!News(accepted)
          /\ Rank(accepted, i)' = Rank(accepted, i)
    BY <1>1, SameNews DEF Emits
  <1>6. Feed!News(accepted)' \subseteq Nat \ {0}
    <2>1. Feed!News(accepted') \subseteq 1 .. Len(accepted')
      BY <1>1, NewsType
    <2>2. Feed!News(accepted)' = Feed!News(accepted')
      BY SameNews DEF Emits
    <2> QED BY <1>0, <1>1, <2>1, <2>2
  <1>7. /\ NewsTaken' = NewsTaken
        /\ \A x, n : Publishes(x, n)' <=> Publishes(x, n)
        /\ MemoryIsCurrent'
    BY <1>3, <1>5, <1>6, NothingTaken DEF FeedInv, Emits
  <1>8. SentInOrder'
    BY <1>7 DEF SentInOrder, FeedInv, Emits
  <1> QED BY <1>4, <1>7, <1>8

LEMMA SendStep ==
  ASSUME FeedInv, NEW e \in Event, Sends(e)
  PROVE  BusIsBacklog' /\ SentInOrder' /\ MemoryIsCurrent'
  <1> USE DEF FeedInv, Sends
  <1>0. /\ published \in Seq(Event) /\ Len(published) \in Nat
        /\ Cardinality(NewsTaken) \in Nat
    BY ProcessedType
  <1>1. Processed' = Processed /\ BusIsBacklog'
    BY DEF Processed, BusIsBacklog
  <1>2. Feed!News(accepted) \subseteq Nat \ {0}
    BY ProcessedType, NewsType
  <1>3. /\ NewsTaken' = NewsTaken
        /\ \A x, n : Publishes(x, n)' <=> Publishes(x, n)
        /\ MemoryIsCurrent'
    BY <1>1, <1>2, HistoryUntouched, NothingTaken
  <1>4. /\ Len(published') = Len(published) + 1
        /\ published'[Len(published) + 1] = e
        /\ \A n \in 1 .. Len(published) : published'[n] = published[n]
    BY <1>0, AppendProperties
  <1>5. \A n \in 1 .. Len(published) + 1 : Publishes(published'[n], n)
    <2> TAKE n \in 1 .. Len(published) + 1
    <2>1. CASE n = Len(published) + 1
      BY <1>4, <2>1 DEF SentInOrder
    <2>2. CASE n # Len(published) + 1
      <3>1. n \in 1 .. Len(published)
        BY <1>0, <2>2
      <3> QED BY <1>4, <3>1 DEF SentInOrder
    <2> QED BY <2>1, <2>2
  <1>6. Cardinality(NewsTaken') = Len(published')
    BY <1>0, <1>3, <1>4 DEF SentInOrder
  <1>7. SentInOrder'
    BY <1>0, <1>3, <1>4, <1>5, <1>6 DEF SentInOrder
  <1> QED BY <1>1, <1>3, <1>7

\* The pipeline's memory tells whether the next announcement is a repetition.
LEMMA MemoryTellsNews ==
  ASSUME FeedInv, bus # <<>>
  PROVE  /\ Processed + 1 \in 1 .. Len(accepted)
         /\ Head(bus) = accepted[Processed + 1] /\ Head(bus) \in Event
         /\ KnownAlready(Head(bus)) <=> Feed!Repeats(accepted, Processed + 1)
  <1> DEFINE e == Head(bus)
             k == Processed + 1
  <1>0. /\ accepted \in Seq(Event) /\ bus \in Seq(Event)
        /\ Len(accepted) \in Nat /\ Len(bus) \in Nat
        /\ Processed \in 0 .. Len(accepted)
        /\ Len(accepted) = Processed + Len(bus)
    BY ProcessedType DEF FeedInv
  <1>1. e = bus[1] /\ e \in Event /\ Len(bus) \in Nat \ {0}
    BY <1>0, HeadTailProperties, EmptySeq
  <1>2. k \in 1 .. Len(accepted)
    BY <1>0, <1>1
  <1>3. e = accepted[k]
    <2>1. 1 \in 1 .. Len(bus)
      BY <1>1
    <2> QED BY <1>1, <2>1 DEF BusIsBacklog, FeedInv
  <1>4. e.mac \in Devices
    BY <1>1 DEF Event
  <1>5. Feed!Earlier(accepted, k) = {j \in 1 .. Processed : accepted[j].mac = e.mac}
    <2>1. 1 .. k - 1 = 1 .. Processed
      BY <1>0
    <2> QED BY <1>3, <2>1 DEF Feed!Earlier
  <1>6. Feed!Repeats(accepted, k)
          <=> \E j \in 1 .. Processed :
                LastTaken(e.mac, j) /\ accepted[j].type = e.type
    BY <1>3, <1>5 DEF Feed!Repeats, LastTaken
  <1>7. CASE e.mac \notin DOMAIN states
    <2>1. \A j \in 1 .. Processed : accepted[j].mac # e.mac
      BY <1>4, <1>7 DEF FeedInv, MemoryIsCurrent
    <2>2. ~Feed!Repeats(accepted, k) /\ ~KnownAlready(e)
      BY <1>6, <1>7, <2>1 DEF LastTaken, KnownAlready
    <2> QED BY <1>1, <1>2, <1>3, <2>2
  <1>8. CASE e.mac \in DOMAIN states
    <2>1. PICK j \in 1 .. Processed :
            LastTaken(e.mac, j) /\ accepted[j].type = states[e.mac]
      BY <1>4, <1>8 DEF FeedInv, MemoryIsCurrent
    <2>2. \A i \in 1 .. Processed : LastTaken(e.mac, i) => i = j
      <3> TAKE i \in 1 .. Processed
      <3> HAVE LastTaken(e.mac, i)
      <3>1. i <= j /\ j <= i /\ i \in Int /\ j \in Int
        BY <2>1 DEF LastTaken
      <3> QED BY <3>1
    <2>3. Feed!Repeats(accepted, k) <=> accepted[j].type = e.type
      BY <1>6, <2>1, <2>2
    <2> QED BY <1>1, <1>2, <1>3, <1>8, <2>1, <2>3 DEF KnownAlready
  <1> QED BY <1>7, <1>8

LEMMA TakeMemoryStep ==
  ASSUME FeedInv, TakeEvent, Processed' = Processed + 1
  PROVE  MemoryIsCurrent'
  <1>a. PICK e \in Event, k \in 1 .. Len(accepted) :
          e = Head(bus) /\ k = Processed + 1 /\ e = accepted[k]
    BY MemoryTellsNews DEF TakeEvent
  <1>0. Processed \in Nat /\ accepted' = accepted /\ k \in Nat
    BY <1>a, ProcessedType DEF TakeEvent, FeedInv, history
  <1>1. LastTaken(e.mac, k)'
    BY <1>a, <1>0 DEF LastTaken
  <1>2. \A d, j : d # e.mac => (LastTaken(d, j)' <=> LastTaken(d, j))
    <2> SUFFICES ASSUME NEW d, NEW j, d # e.mac
                 PROVE  LastTaken(d, j)' <=> LastTaken(d, j)
      OBVIOUS
    <2>1. \A i \in 1 .. Processed + 1 : i = k \/ i \in 1 .. Processed
      BY <1>a, <1>0
    <2>2. 1 .. Processed \subseteq 1 .. Processed + 1
      BY <1>0
    <2> QED BY <1>a, <1>0, <2>1, <2>2 DEF LastTaken
  <1>3. e.mac \in DOMAIN states' /\ states'[e.mac] = e.type
    BY <1>a DEF TakeEvent, KnownAlready, Remembers
  <1>4. \A d : d # e.mac => /\ d \in DOMAIN states' <=> d \in DOMAIN states
                            /\ d \in DOMAIN states => states'[d] = states[d]
    BY <1>a DEF TakeEvent, KnownAlready, Remembers
  <1>5. ASSUME NEW d \in Devices
        PROVE  \/ /\ d \notin DOMAIN states'
                  /\ \A i \in 1 .. Processed + 1 : accepted[i].mac # d
               \/ /\ d \in DOMAIN states'
                  /\ \E j \in 1 .. Processed + 1 :
                       LastTaken(d, j)' /\ accepted[j].type = states'[d]
    <2>1. CASE d = e.mac
      <3>1. k \in 1 .. Processed + 1
        BY <1>a, <1>0
      <3> QED BY <1>a, <1>0, <1>1, <1>3, <2>1, <3>1
    <2>2. CASE d # e.mac /\ d \notin DOMAIN states
      <3>1. \A i \in 1 .. Processed : accepted[i].mac # d
        BY <2>2 DEF FeedInv, MemoryIsCurrent
      <3>2. \A i \in 1 .. Processed + 1 : accepted[i].mac # d
        <4>1. \A i \in 1 .. Processed + 1 : i = k \/ i \in 1 .. Processed
          BY <1>a, <1>0
        <4> QED BY <1>a, <1>0, <2>2, <3>1, <4>1
      <3> QED BY <1>4, <2>2, <3>2
    <2>3. CASE d # e.mac /\ d \in DOMAIN states
      <3>1. PICK j \in 1 .. Processed : LastTaken(d, j) /\ accepted[j].type = states[d]
        BY <2>3 DEF FeedInv, MemoryIsCurrent
      <3>2. j \in 1 .. Processed + 1
        BY <1>0
      <3> QED BY <1>2, <1>4, <2>3, <3>1, <3>2
    <2> QED BY <2>1, <2>2, <2>3
  <1> QED BY <1>0, <1>5 DEF MemoryIsCurrent

LEMMA TakeStep ==
  ASSUME FeedInv, TakeEvent
  PROVE  BusIsBacklog' /\ SentInOrder' /\ MemoryIsCurrent'
  <1>0. /\ accepted \in Seq(Event) /\ bus \in Seq(Event)
        /\ Len(accepted) \in Nat /\ Len(bus) \in Nat /\ Len(published) \in Nat
        /\ Processed \in 0 .. Len(accepted)
        /\ Len(accepted) = Processed + Len(bus)
        /\ IsFiniteSet(NewsTaken) /\ Cardinality(NewsTaken) \in Nat
    BY ProcessedType DEF FeedInv
  <1>1. UNCHANGED <<enabled, accepted, published>> /\ bus' = Tail(bus) /\ bus # <<>>
        /\ pipeline = "idle"
    BY DEF TakeEvent, ambient, history
  <1>2. /\ Len(bus') = Len(bus) - 1 /\ Len(bus) \in Nat \ {0}
        /\ \A i \in 1 .. Len(bus) - 1 : bus'[i] = bus[i + 1]
    BY <1>0, <1>1, HeadTailProperties, EmptySeq
  <1>3. Processed' = Processed + 1
    BY <1>0, <1>1, <1>2 DEF Processed
  <1>4. BusIsBacklog'
    <2>1. ASSUME NEW i \in 1 .. Len(bus')
          PROVE  bus'[i] = accepted'[Processed' + i]
      <3>1. i + 1 \in 1 .. Len(bus) /\ Processed' + i = Processed + (i + 1)
            /\ i \in 1 .. Len(bus) - 1
        BY <1>0, <1>2, <1>3
      <3>2. bus[i + 1] = accepted[Processed + (i + 1)]
        BY <3>1 DEF FeedInv, BusIsBacklog
      <3> QED BY <1>1, <1>2, <3>1, <3>2
    <2>2. Len(bus') <= Len(accepted')
      BY <1>0, <1>1, <1>2
    <2> QED BY <2>1, <2>2 DEF BusIsBacklog
  <1>5. MemoryIsCurrent'
    BY <1>3, TakeMemoryStep
  <1>a. PICK e \in Event, k \in 1 .. Len(accepted) :
          /\ e = Head(bus) /\ k = Processed + 1 /\ e = accepted[k]
          /\ KnownAlready(e) <=> Feed!Repeats(accepted, k)
    BY <1>1, MemoryTellsNews
  <1>6. k \in Feed!News(accepted) <=> e.type \in enabled /\ ~KnownAlready(e)
    <2>1. DOMAIN accepted = 1 .. Len(accepted)
      BY <1>0, NewsType
    <2> QED BY <1>a, <2>1 DEF Feed!News
  <1>7. /\ Feed!News(accepted)' = Feed!News(accepted)
        /\ \A i : Rank(accepted, i)' = Rank(accepted, i)
    BY <1>1, HistoryUntouched
  <1>8. Feed!News(accepted) \subseteq Nat
    BY <1>0, NewsType
  <1>9. inFlight = {}
    BY <1>1 DEF FeedInv, SentInOrder
  <1>10. /\ \A n \in 1 .. Len(published) : Publishes(published[n], n)
         /\ Cardinality(NewsTaken) = Len(published)
    BY <1>0, <1>9 DEF FeedInv, SentInOrder
  <1>11. NewsTaken \subseteq NewsTaken'
    BY <1>0, <1>3, <1>7, <1>8 DEF NewsTaken
  <1>12. \A x, n : Publishes(x, n) => Publishes(x, n)'
    BY <1>1, <1>7, <1>11 DEF Publishes
  <1>13. CASE k \in Feed!News(accepted)
    <2>1. NewsTaken' = NewsTaken \cup {k} /\ k \notin NewsTaken
      BY <1>a, <1>0, <1>3, <1>7, <1>8, <1>13 DEF NewsTaken
    <2>2. Cardinality(NewsTaken') = Len(published) + 1
      BY <1>0, <1>10, <2>1, FS_AddElement
    <2>3. NewsUpTo(accepted, k) = NewsTaken'
      BY <1>a, <1>3, <1>7 DEF NewsUpTo, NewsTaken
    <2>4. Rank(accepted, k) = Len(published) + 1
      BY <2>2, <2>3 DEF Rank
    <2>5. Publishes(e, Len(published) + 1)'
      <3>1. k \in NewsTaken' /\ accepted'[k] = e
        BY <1>a, <1>1, <2>1
      <3>2. Rank(accepted, k)' = (Len(published) + 1)'
        BY <1>1, <1>7, <2>4
      <3> QED BY <3>1, <3>2 DEF Publishes
    <2>6. inFlight' = {e} /\ pipeline' = "publishing"
      BY <1>a, <1>6, <1>13 DEF TakeEvent
    <2> QED BY <1>0, <1>1, <1>4, <1>5, <1>10, <1>12, <2>2, <2>5, <2>6 DEF SentInOrder
  <1>14. CASE k \notin Feed!News(accepted)
    <2>1. NewsTaken' = NewsTaken
      BY <1>a, <1>0, <1>3, <1>7, <1>8, <1>14 DEF NewsTaken
    <2>2. inFlight' = {}
      BY <1>a, <1>6, <1>9, <1>14 DEF TakeEvent
    <2> QED BY <1>0, <1>1, <1>4, <1>5, <1>10, <1>12, <2>1, <2>2 DEF SentInOrder
  <1> QED BY <1>13, <1>14

LEMMA FeedInvHolds == Spec => []FeedInv
  <1>1. Init => FeedInv
    <2> SUFFICES ASSUME Init
                 PROVE  FeedInv
      OBVIOUS
    <2>1. /\ accepted = <<>> /\ bus = <<>> /\ published = <<>> /\ inFlight = {}
          /\ DOMAIN states = {}
      BY DEF Init
    <2>2. TypeOK
      BY InitialTypes
    <2>3. Len(<<>>) = 0 /\ 1 .. 0 = {}
      OBVIOUS
    <2>4. Processed = 0 /\ BusIsBacklog
      BY <2>1, <2>3 DEF Processed, BusIsBacklog
    <2>5. NewsTaken = {}
      BY <2>1, <2>4, ProcessedType, NewsType, <2>2, <2>3 DEF NewsTaken
    <2>6. SentInOrder
      BY <2>1, <2>3, <2>5, FS_EmptySet DEF SentInOrder
    <2>7. MemoryIsCurrent
      BY <2>1, <2>3, <2>4 DEF MemoryIsCurrent
    <2> QED BY <2>2, <2>4, <2>6, <2>7 DEF FeedInv
  <1>2. RuntimeInv /\ FeedInv /\ [Next]_vars => FeedInv'
    <2> SUFFICES ASSUME RuntimeInv, FeedInv, [Next]_vars
                 PROVE  FeedInv'
      OBVIOUS
    <2>1. TypeOK /\ TypeOK'
      BY TypeStep DEF RuntimeInv
    <2>2. BusIsBacklog' /\ SentInOrder' /\ MemoryIsCurrent'
      BY <2>1, FeedKinds, FeedUntouchedStep, EmitStep, SendStep, TakeStep
    <2> QED BY <2>1, <2>2 DEF FeedInv
  <1> QED BY <1>1, <1>2, RuntimeInvHolds, PTL DEF Spec

\* What has been published is the digest of what the pipeline has taken, and the next
\* message the client sends is the next piece of news.
LEMMA PublishedIsDigest ==
  ASSUME FeedInv
  PROVE  /\ \A n \in 1 .. Len(published) :
              /\ n \in DOMAIN Feed!Digest(accepted)
              /\ published[n] = Feed!Digest(accepted)[n]
         /\ \A e \in inFlight :
              /\ Len(published) < Len(Feed!Digest(accepted))
              /\ e = Feed!Digest(accepted)[Len(published) + 1]
  <1>0. /\ accepted \in Seq(Event) /\ Len(published) \in Nat
        /\ NewsTaken \subseteq Feed!News(accepted)
    BY ProcessedType DEF FeedInv
  <1>1. ASSUME NEW x, NEW n \in Nat \ {0}, Publishes(x, n)
        PROVE  /\ n \in 1 .. Cardinality(Feed!News(accepted))
               /\ x = Feed!Digest(accepted)[n]
    <2>1. PICK i \in NewsTaken : Rank(accepted, i) = n /\ accepted[i] = x
      BY <1>1 DEF Publishes
    <2>2. i \in Feed!News(accepted) /\ i \in Int
      BY <1>0, NewsType
    <2>3. n \in 1 .. Cardinality(Feed!News(accepted))
      BY <1>0, <2>1, <2>2, NewsUpToType, NewsType
    <2> QED BY <1>0, <2>1, <2>2, <2>3, DigestProperties
  <1>2. /\ DOMAIN Feed!Digest(accepted) = 1 .. Cardinality(Feed!News(accepted))
        /\ Len(Feed!Digest(accepted)) = Cardinality(Feed!News(accepted))
        /\ Cardinality(Feed!News(accepted)) \in Nat
    BY <1>0, DigestProperties, NewsType
  <1>3. \A n \in 1 .. Len(published) : Publishes(published[n], n)
    BY DEF FeedInv, SentInOrder
  <1>4. \A e \in inFlight : Publishes(e, Len(published) + 1)
    BY DEF FeedInv, SentInOrder
  <1>5. ASSUME NEW e \in inFlight
        PROVE  /\ Len(published) < Len(Feed!Digest(accepted))
               /\ e = Feed!Digest(accepted)[Len(published) + 1]
    BY <1>0, <1>1, <1>2, <1>4
  <1> QED BY <1>0, <1>1, <1>2, <1>3, <1>5

\* The broker receives the news among the announcements, of the enabled types, in order
\* and each once, however the collectors, the bus, the pipeline and the client are timed
\* and wherever they stop.  (Publish, Run, process, Process)
THEOREM RuntimeImplementsFeed == Spec => ImplementsFeed
  <1>1. Init => Feed!FeedInit
    BY DEF Init, Feed!FeedInit, Type, Feed!Type
  <1>2. ASSUME TypeOK, FeedInv, [Next]_vars
        PROVE  [Feed!FeedNext]_<<enabled, accepted, published>>
    <2>1. CASE FeedUntouched \/ TakeEvent
      BY <2>1 DEF FeedUntouched, TakeEvent, ambient, history
    <2>2. ASSUME NEW e \in Event, Emits(e)
          PROVE  Feed!FeedNext
      BY <2>2 DEF Emits, Feed!FeedNext, Feed!Announce, Feed!Event, Feed!Type, Event, Type
    <2>3. ASSUME NEW e \in Event, Sends(e)
          PROVE  Feed!FeedNext
      <3>1. /\ Len(published) < Len(Feed!Digest(accepted))
            /\ e = Feed!Digest(accepted)[Len(published) + 1]
        BY <2>3, <1>2, PublishedIsDigest DEF Sends
      <3> QED BY <2>3, <3>1 DEF Sends, Feed!FeedNext, Feed!PublishNext
    <2> QED BY <1>2, <2>1, <2>2, <2>3, FeedKinds
  <1>3. FeedInv => TypeOK
    BY DEF FeedInv
  <1> QED BY <1>1, <1>2, <1>3, FeedInvHolds, PTL DEF Spec, ImplementsFeed, Feed!FeedSpec

\* While nothing has told the pipeline to stop, an empty bus and nothing to do mean that
\* all the news has been published.
THEOREM NothingLiesBehind == Spec => []CaughtUp
  <1>1. FeedInv => CaughtUp
    <2> SUFFICES ASSUME FeedInv, pipeline = "idle", bus = <<>>
                 PROVE  published = Feed!Digest(accepted)
      BY DEF CaughtUp
    <2>0. /\ accepted \in Seq(Event) /\ published \in Seq(Event)
          /\ Len(accepted) \in Nat /\ Len(published) \in Nat
      BY ProcessedType DEF FeedInv
    <2>1. Processed = Len(accepted)
      <3>1. Len(bus) = 0
        BY EmptySeq
      <3> QED BY <2>0, <3>1 DEF Processed
    <2>2. NewsTaken = Feed!News(accepted)
      BY <2>0, <2>1, NewsType DEF NewsTaken
    <2>3. Len(published) = Cardinality(Feed!News(accepted))
      BY <2>0, <2>2 DEF FeedInv, SentInOrder
    <2>4. DOMAIN Feed!Digest(accepted) = 1 .. Len(published)
      BY <2>0, <2>3, DigestProperties
    <2>5. \A n \in 1 .. Len(published) : published[n] = Feed!Digest(accepted)[n]
      BY PublishedIsDigest
    <2>6. published = [n \in 1 .. Len(published) |-> published[n]]
      BY <2>0, LenProperties
    <2>7. Feed!Digest(accepted) = [n \in 1 .. Len(published) |-> Feed!Digest(accepted)[n]]
      BY <2>0, <2>3, DigestProperties
    <2> QED BY <2>5, <2>6, <2>7
  <1> QED BY <1>1, FeedInvHolds, PTL
=============================================================================
