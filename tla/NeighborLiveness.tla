-------------------------- MODULE NeighborLiveness --------------------------
(***************************************************************************)
(* What the neighbour collector must eventually do, and the fairness that  *)
(* the Go scheduler, the timers and the pipeline give it.                  *)
(***************************************************************************)
EXTENDS NeighborCollector

(***************************************************************************)
(* A runnable goroutine runs: weak fairness for what the main loop does    *)
(* once it has left its select, for the sniffer's delivery and for the     *)
(* goroutines of the probes.  The select picks among the ready cases at    *)
(* random, so a case that is ready again and again is eventually picked:   *)
(* strong fairness for each of them, and for the two outcomes of a read.   *)
(* The ticker keeps firing.  The pipeline either consumes the events or    *)
(* fails, which cancels the context.  Nothing is assumed of the            *)
(* environment: frames, messages, answers, errors and the cancellation may *)
(* never come.                                                             *)
(***************************************************************************)
Fairness ==
  /\ WF_vars(Tick \/ IdleTick)
  /\ WF_vars(Deliver)
  /\ \A d \in Devices :
       WF_vars(\E p \in probes : p.key = d /\ (ProbeStart(p) \/ ProbeFailed(p)))
  /\ WF_vars(ApplyResult)
  /\ WF_vars(EmitAccepted \/ EmitCanceled)
  /\ WF_vars(ReceiveNothing \/ ReceiveOverrun \/ Receive)
  /\ SF_vars(TakeTraffic)
  /\ SF_vars(TakeResult)
  /\ SF_vars(TakeTick)
  /\ SF_vars(TakeSnifferEnd)
  /\ SF_vars(TakeDone)
  /\ SF_vars(GoReceive)
  /\ SF_vars(Receive)

FairSpec == Init /\ [][Next \/ IdleTick]_vars /\ Fairness

\* A confirmed device that is believed online although the offline timeout has
\* run out (on a clock that stops at MaxTime).
Overdue(d) ==
  /\ d \in DOMAIN states
  /\ states[d].online
  /\ states[d].verified
  /\ states[d].lastSeen + OfflineTimeout <= clock

\* The collector has been told to stop, or has failed.
Stopping == ctxDone \/ ~Running

\* A probe asks about an instant that the bounded clock does not reach, so it
\* never ends: the bound cuts the behaviour here, not the program.
BeyondClock == \E p \in probes : p.deadline > MaxTime

\* A confirmed device that goes silent is eventually declared disconnected (or
\* gives a new sign of life): its two probes are begun, end, and are heard.
\* (beginProbes, runProbe, applyProbe, processAsync)
DepartureNoticed ==
  \A d \in Devices :
    Overdue(d) ~> (~Overdue(d) \/ Stopping \/ BeyondClock)

\* A cancelled collector returns, wherever it was: it is not kept by a full
\* bus, by a probe or by a busy select.
ShutdownCompletes == ctxDone ~> ~Running

=============================================================================
