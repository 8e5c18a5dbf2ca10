------------------------- MODULE RuntimeProperties -------------------------
(***************************************************************************)
(* What the runtime promises: to the subscribers of the broker, to whoever *)
(* stops it, and to whoever reads its exit status.                         *)
(***************************************************************************)
EXTENDS Runtime

Feed == INSTANCE AnnouncementFeed

\* The broker receives the news among the announcements, in order and each
\* once, whatever the timing of the collectors, of a full bus, of the filter
\* on types and of a client that sends late.  (Publish, Run, process, Process)
ImplementsFeed == Feed!FeedSpec

\* While nothing has told it to stop, a pipeline with nothing to do has let
\* nothing lie: all the news has been published.
CaughtUp ==
  (pipeline = "idle" /\ bus = <<>>) => published = Feed!Digest(accepted)

\* Run returns when every goroutine it has started has returned, so nothing
\* is announced or published behind the closed connection.  (Run, Start)
NothingOutlivesRun ==
  closed =>
    /\ pipeline = "returned"
    /\ \A c \in Collectors : collector[c] = "returned"

\* Run reports a failure exactly when one of its parts has failed: an error is
\* neither lost behind the clean return of another part nor made up.
\* (Run, Start)
FailureIsReported ==
  app = "returned" => ((appError = "error") <=> (failed # {}))

\* A run that is told to stop, and in which nothing fails, is not reported as a
\* failure.  The tests ask this of App.Run (TestRunStopsWhenContextIsCanceled)
\* and of Pipeline.Run (TestRunPublishesQueuedEvent, which cancels as soon as the
\* message has been published); two of the collectors, and the pipeline between
\* two events, return nil for the sake of it.
StopIsNoFailure ==
  (app = "returned" /\ \A f \in failed : f[2] = "cancellation") => appError = "nil"
-----------------------------------------------------------------------------
(***************************************************************************)
(* Progress.  Each goroutine runs; each channel that can be received from  *)
(* is; an operation of the MQTT client is sent, fails or times out.  A     *)
(* collector notices a cancellation when it waits for something to read    *)
(* (for DHCP, if frames stop coming: DhcpLiveness).  Nothing is assumed of *)
(* the signal, of the collectors' observations or of failures.             *)
(***************************************************************************)
Fairness ==
  /\ \A c \in Collectors :
       /\ WF_vars(CollectorStarts(c) \/ StartFails(c))
       /\ WF_vars(EmitAccepted(c) \/ EmitCanceled(c))
       /\ SF_vars(CollectorStops(c))
  /\ WF_vars(MultiReceives)
  /\ WF_vars(PipelineStops \/ TakeEvent)
  /\ WF_vars(PublishDone \/ PublishFails \/ PublishCanceled)
  /\ WF_vars(AppReceivesFirst)
  /\ WF_vars(AppReceivesSecond)

FairSpec == Spec /\ Fairness

Returned(c) == collector[c] = "returned"

\* The end of one part, or the signal, ends all of them, and Run: nobody stays
\* behind at a full bus whose reader is gone, or at a channel.  (Run, Start,
\* Publish)
OneEndsAll ==
  (ctxDone \/ pipeline = "returned" \/ \E c \in Collectors : Returned(c))
    ~> app = "returned"

\* Once the collectors have fallen silent (here, after MaxEvents announcements),
\* all the news the bus has accepted has been published, or Run has ended.
NewsIsPublished ==
  <>[](published = Feed!Digest(accepted) \/ app = "returned")
=============================================================================
