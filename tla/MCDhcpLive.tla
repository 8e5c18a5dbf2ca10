----------------------------- MODULE MCDhcpLive -----------------------------
(***************************************************************************)
(* Instances of the DHCP collector for the liveness runs.                  *)
(***************************************************************************)
EXTENDS DhcpLiveness, TLC

CONSTANTS m1, m2, x1, i1, i2, h1, h2
=============================================================================
