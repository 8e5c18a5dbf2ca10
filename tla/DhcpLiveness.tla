---------------------------- MODULE DhcpLiveness ----------------------------
(***************************************************************************)
(* Whether the DHCP collector stops when it is told to.                    *)
(***************************************************************************)
EXTENDS DhcpCollector

Returned == pc \in {"returned nil", "returned error"}

\* The goroutine runs: a read that has something to return returns it, one that
\* has nothing times out unless a frame comes first, and an emission is either
\* taken by the pipeline or cancelled.
Fairness ==
  /\ WF_vars(ReadFrame)
  /\ WF_vars(ReadNothing)
  /\ WF_vars(EmitAccepted \/ EmitCanceled)

FairSpec == Init /\ [][Next]_vars /\ Fairness

\* The interface falls silent for longer than the receive timeout, again and
\* again.
QuietSpec == FairSpec /\ SF_vars(ReadNothing)

\* A cancelled collector returns.  collector.Multi waits for it: its comment
\* says that it stops all collectors when one exits.  (PacketCollector.Start)
StopsWhenCanceled == ctxDone ~> Returned
=============================================================================
