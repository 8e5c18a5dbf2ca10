----------------------------- MODULE MCWireless -----------------------------
(***************************************************************************)
(* Instances of the two collectors of wireless stations for TLC.           *)
(***************************************************************************)
EXTENDS WirelessPresence

CONSTANTS d1, a1, a2
=============================================================================
