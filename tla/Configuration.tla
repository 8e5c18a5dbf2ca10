--------------------------- MODULE Configuration ---------------------------
(***************************************************************************)
(* The configuration of the service as it is read twice: by the init       *)
(* script, in shell and awk, and by config.FromEnvironment, in Go, from    *)
(* the environment the script has set.  migrate-config changes it once,    *)
(* when the package is installed.                                          *)
(*                                                                         *)
(* Every option is a text.  The texts of a number or a duration stand for  *)
(* the cases that the two readers distinguish; "" is an option that is not *)
(* set.  Options without a check, and interface and broker, which are      *)
(* never empty because both readers have a default, are left out.          *)
(***************************************************************************)
EXTENDS Integers

CONSTANT SystemHostname  \* that of the router, or ""

\* "router" stands for every name that is not empty.
ASSUME ConfigurationAssumption == SystemHostname \in {"", "router"}

Refused == -1

\* Texts of bus_capacity, and what strconv.Atoi makes of them.
Capacity == {"", "128", "0", "00", "2^64", "many"}

Atoi(text) ==
  CASE text = "128"        -> 128
    [] text \in {"0", "00"} -> 0
    [] OTHER               -> Refused

\* Texts of a duration, and its whole seconds according to time.ParseDuration,
\* which drops what is left of a nanosecond (of 7.9999999999999996s it keeps
\* 7.999999999s) and does not take 2^63 of them.
Duration ==
  {"", "10s", "8s", "7.9999999999999996s", "7s", "0s", "0.1ns", "2562048h", "soon"}

ParseDuration(text) ==
  CASE text = "10s"               -> 10
    [] text = "8s"                -> 8
    [] text \in {"7s", "7.9999999999999996s"} -> 7
    [] text \in {"0s", "0.1ns"}   -> 0
    [] OTHER                      -> Refused

Config ==
  [enabled : BOOLEAN, routerID : {"", "router"}, logLevel : {"info", "loud"},
   busCapacity : Capacity, connected : BOOLEAN, disconnected : BOOLEAN,
   offlineTimeout : Duration, qos : {"", "0", "1", "2", "3"}, timeout : Duration]
-----------------------------------------------------------------------------
(***************************************************************************)
(* The init script.                                                        *)
(***************************************************************************)

OrDefault(text, default) == IF text = "" THEN default ELSE text

\* load_runtime_config.
Loaded(c) ==
  [c EXCEPT !.routerID       = OrDefault(@, SystemHostname),
            !.busCapacity    = OrDefault(@, "128"),
            !.offlineTimeout = OrDefault(@, "8s"),
            !.qos            = OrDefault(@, "0"),
            !.timeout        = OrDefault(@, "10s")]

\* is_positive_integer looks for digits, and refuses the text "0" only.
IsPositiveInteger(text) == text \in {"128", "00", "2^64"}

\* The pattern of a duration.
IsDuration(text) == text \in Duration \ {"", "soon"}

\* is_positive_duration looks for a digit other than 0.
IsPositiveDuration(text) == IsDuration(text) /\ text # "0s"

\* is_minimum_offline_duration adds up in floating point, where the number nearest
\* to 7.9999999999999996 is 8.
IsMinimumOfflineDuration(text) ==
  text \in {"10s", "8s", "7.9999999999999996s", "2562048h"}

\* validate_runtime_config.
Valid(c) ==
  /\ c.routerID # ""
  /\ c.logLevel = "info"
  /\ c.qos \in {"0", "1", "2"}
  /\ IsPositiveInteger(c.busCapacity)
  /\ IsPositiveDuration(c.timeout)
  /\ IsPositiveDuration(c.offlineTimeout)
  /\ IsMinimumOfflineDuration(c.offlineTimeout)

\* validate: a disabled service needs no valid configuration.
Validates(c) == ~c.enabled \/ Valid(Loaded(c))

\* migrate-config raises a duration below the minimum.
Migrated(c) ==
  IF c.offlineTimeout = "" \/ (/\ IsDuration(c.offlineTimeout)
                               /\ ~IsMinimumOfflineDuration(c.offlineTimeout))
  THEN [c EXCEPT !.offlineTimeout = "8s"]
  ELSE c
-----------------------------------------------------------------------------
(***************************************************************************)
(* config.FromEnvironment, on what the script has exported.                *)
(***************************************************************************)

MinimumOfflineTimeout == 8

\* The process takes the environment, or main exits at once.  (The script leaves
\* no option without a text that has a default here.)
FromEnvironment(c) ==
  /\ ParseDuration(c.offlineTimeout) >= MinimumOfflineTimeout
  /\ c.qos \in {"0", "1", "2"}
  /\ ParseDuration(c.timeout) > 0
  /\ Atoi(c.busCapacity) > 0
  /\ c.routerID # ""
=============================================================================
