--------------------------- MODULE MCNeighborLive ---------------------------
(***************************************************************************)
(* Instances of the neighbour collector for the liveness runs.             *)
(***************************************************************************)
EXTENDS NeighborLiveness, TLC

CONSTANTS d1, d2, a1, a2

\* Two devices contend for the probes: one is in the snapshot, the sniffer sees
\* nothing, and nobody cancels the context.
ContendedSpec ==
  /\ Init /\ DOMAIN states = {d1}
  /\ [][(Next \/ IdleTick) /\ ~ctxDone' /\ sniffer' = "running" /\ captured' = {}]_vars
  /\ Fairness
=============================================================================
