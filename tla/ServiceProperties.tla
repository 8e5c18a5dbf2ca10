------------------------- MODULE ServiceProperties --------------------------
(***************************************************************************)
(* What the service promises over its lifetime: to the user who edits its  *)
(* configuration, and to the subscriber of its messages.                   *)
(***************************************************************************)
EXTENDS Service

Settled == script = "idle" /\ ~reloadDue

\* Once every edit has been answered, a valid configuration is the one that
\* counts: the instance procd keeps is there iff the configuration enables the
\* service, and it has been given this configuration, whatever edits came between
\* the steps of reload_service.  (What the script refuses leaves the old one.)
ServiceMatchesConfig ==
  Settled /\ Validates(config) =>
    /\ config.enabled <=> instance # "none"
    /\ instance # "none" => env = Loaded(config)

\* reload_service looks at the configuration before it stops the service.  A start
\* that leaves an enabled service stopped is therefore the one at boot, or an edit
\* came between the two looks, and that edit is still to be answered.
StopsOnlyWhenTold ==
  [][script = "starting" /\ script' = "idle" /\ instance' = "none" =>
       ~config.enabled \/ reloadDue \/ edits = 0]_service

\* At QoS 1 or 2 a publication that is done has reached the subscriber, although
\* the connection may have been lost and made again meanwhile: between two
\* publications it believes of each device what DeviceState remembers.
BeliefFollowsState ==
  process = "running" /\ publishing = {} /\ env.qos # "0" =>
    \A d \in DOMAIN states : Enabled(states[d]) => belief[d] = states[d]
-----------------------------------------------------------------------------
(***************************************************************************)
(* Liveness.  The script and procd do their next step, and the process     *)
(* does what it has started.  Nobody has to edit anything, no device has   *)
(* to appear, and the process may fail again and again.                    *)
(***************************************************************************)

ServiceFairness ==
  /\ WF_service(Reload) /\ WF_service(StopService) /\ WF_service(StartService)
  /\ WF_service(Respawn)
  /\ WF_service(StartIdle) /\ WF_service(StartConnecting) /\ WF_service(StartRunning)

FairServiceSpec == ServiceSpec /\ ServiceFairness

Deserves == broker /\ config.enabled /\ FromEnvironment(Loaded(config))

\* Up with what the configuration asks for.
Serves ==
  process = IF config.connected \/ config.disconnected THEN "running" ELSE "idle"

\* Once the broker stays reachable and the configuration is one that both readers
\* take, the service is up again and again, unless it has failed so often that procd
\* has given it up: then only the next edit brings it back.
Served == <>[]Deserves => []<>Serves \/ <>[](instance = "failed")
=============================================================================
