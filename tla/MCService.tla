------------------------------ MODULE MCService -----------------------------
(***************************************************************************)
(* The service with the configurations that are worth a case of their own. *)
(***************************************************************************)
EXTENDS ServiceProperties

Good ==
  [enabled |-> TRUE, routerID |-> "", logLevel |-> "info", busCapacity |-> "",
   connected |-> TRUE, disconnected |-> TRUE, offlineTimeout |-> "8s",
   qos |-> "1", timeout |-> ""]

\* What main alone finds wrong, what the script finds wrong, and what neither does.
SomeConfigs ==
  { Good,
    [Good EXCEPT !.qos = "0", !.disconnected = FALSE],
    [Good EXCEPT !.connected = FALSE, !.disconnected = FALSE],
    [Good EXCEPT !.enabled = FALSE, !.qos = "3"],
    [Good EXCEPT !.offlineTimeout = "7s"],
    [Good EXCEPT !.offlineTimeout = "7.9999999999999996s"],
    [Good EXCEPT !.busCapacity = "00"] }
=============================================================================
