------------------------------- MODULE MCDhcp -------------------------------
(***************************************************************************)
(* An instance of the DHCP collector for the safety run.                   *)
(***************************************************************************)
EXTENDS DhcpSafety, TLC

CONSTANTS m1, m2, x1, i1, i2, h1, h2

\* Nothing tells two clients, or two addresses, from each other.
Interchangeable == Permutations(ClientMACs) \cup Permutations(IPs)

Messages == {log[i].message : i \in DOMAIN log} \cup Range(socket)

Detailed(m) ==
  m.yourIP # Absent \/ m.requestedIP # Absent \/ m.hostname # Absent

\* Bound: either messages without addresses and names, or those of one client
\* at one instant.
Focus ==
  \/ \A m \in Messages : ~Detailed(m)
  \/ clock = 0 /\ \A m, n \in Messages : m.clientMAC = n.clientMAC

FocusSpec == Init /\ log = <<>> /\ [][LoggedNext /\ Focus']_<<vars, log>>
=============================================================================
