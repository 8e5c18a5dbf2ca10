----------------------------- MODULE MCRuntime -----------------------------
(***************************************************************************)
(* Instances of the runtime for TLC.                                       *)
(***************************************************************************)
EXTENDS RuntimeProperties

CONSTANTS dhcp, hostapd, neighbor, d1, d2

\* Where every collector announces both types, nothing tells one type from the
\* other: it is enough to disable one of them.  (A state constraint.)
FocusTypes == "connected" \in enabled

\* Both collectors announce the first device, and one of them finds the second.
\* (An action constraint; nothing is assumed of the progress of announcements.)
FocusStep ==
  /\ \A e \in pending'[hostapd] : e.mac = d1
  /\ \A e \in pending'[neighbor] : e.mac = d2 => e.type = "connected"
=============================================================================
