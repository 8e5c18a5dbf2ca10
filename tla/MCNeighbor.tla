----------------------------- MODULE MCNeighbor -----------------------------
(***************************************************************************)
(* An instance of the neighbour collector for the safety run.              *)
(***************************************************************************)
EXTENDS NeighborRefinement, TLC

CONSTANTS d1, d2, a1, a2

\* The devices that the collector has met, and their addresses.
Met ==
  DOMAIN states \cup {f.mac : f \in captured \cup Range(traffic)}
                \cup {m.mac : m \in Range(netlink)}

MetAddresses ==
  {states[d].ip : d \in DOMAIN states} \cup {m.ip : m \in Range(netlink)}

\* Bounds, a state constraint: one device with both addresses and MaxInputs inputs (one if there is
\* a cancellation), or both devices with one address, one input and no
\* cancellation.
Focus ==
  /\ ctxDone => inputs <= 1
  /\ \/ Met \subseteq {d1}
     \/ ~ctxDone /\ inputs <= 1 /\ MetAddresses \subseteq {a1}
=============================================================================
