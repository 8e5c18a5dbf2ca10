--------------------------- MODULE DevicePresence ---------------------------
(***************************************************************************)
(* What the neighbour collector promises, without its probes, deadlines,   *)
(* queues and goroutines: each device is somewhere between unknown and     *)
(* absent, it moves there only on the evidence that justifies the move,    *)
(* and every move that is news is announced, one at a time.                *)
(*                                                                         *)
(* NeighborCollector implements this specification (NeighborRefinement).   *)
(***************************************************************************)
EXTENDS Integers

CONSTANTS Devices, OfflineTimeout

ASSUME PresenceAssumption == OfflineTimeout \in Nat

VARIABLES
  clock,
  running,
  status,   \* what is believed of each device
  heard,    \* the last trusted sign of each device
  lostAt,   \* when each device was last found to be absent
  pending,  \* the announcement that is on its way to the bus
  told      \* the last announcement about each device

presence == <<clock, running, status, heard, lostAt, pending, told>>

NoTime == -1
Silent == ""

\* A device that has only been read from the kernel's table is "listed".
Status == {"unknown", "listed", "present", "absent"}

News(d, type) == [key |-> d, type |-> type]

PresenceInit ==
  /\ clock = 0
  /\ running = TRUE
  /\ status \in [Devices -> {"unknown", "listed"}]
  /\ heard = [d \in Devices |-> NoTime]
  /\ lostAt = [d \in Devices |-> NoTime]
  /\ pending = {}
  /\ told = [d \in Devices |-> Silent]
-----------------------------------------------------------------------------
Pass ==
  /\ clock' = clock + 1
  /\ UNCHANGED <<running, status, heard, lostAt, pending, told>>

\* A sign of device d, which may be some time old.
Heed(d) ==
  \E t \in heard[d] .. clock : heard' = [heard EXCEPT ![d] = t]

Hear(d) ==
  /\ Heed(d)
  /\ UNCHANGED <<clock, running, status, lostAt, pending, told>>

\* Nothing moves while an announcement is pending.
Move(d, from, to) ==
  /\ running /\ pending = {}
  /\ status[d] = from
  /\ status' = [status EXCEPT ![d] = to]
  /\ UNCHANGED <<clock, running, told>>

\* A device that nobody knew is announced.
Appear(d) ==
  /\ Move(d, "unknown", "present")
  /\ Heed(d) /\ heard'[d] # NoTime
  /\ pending' = {News(d, "connected")}
  /\ UNCHANGED lostAt

\* A device that was there before the collector is confirmed in silence.
Confirm(d) ==
  /\ Move(d, "listed", "present")
  /\ Heed(d) /\ heard'[d] # NoTime
  /\ UNCHANGED <<lostAt, pending>>

\* It takes a sign of life from after the disconnection.
Return(d) ==
  /\ Move(d, "absent", "present")
  /\ Heed(d) /\ lostAt[d] <= heard'[d]
  /\ pending' = {News(d, "connected")}
  /\ UNCHANGED lostAt

\* It takes OfflineTimeout without a sign.
Lose(d) ==
  /\ Move(d, "present", "absent")
  /\ \E t \in heard[d] + OfflineTimeout .. clock : lostAt' = [lostAt EXCEPT ![d] = t]
  /\ pending' = {News(d, "disconnected")}
  /\ UNCHANGED heard

Tell ==
  /\ running
  /\ \E n \in pending : told' = [told EXCEPT ![n.key] = n.type]
  /\ pending' = {}
  /\ UNCHANGED <<clock, running, status, heard, lostAt>>

\* The collector returns, with or without the announcement it was making.
Stop ==
  /\ running
  /\ running' = FALSE
  /\ pending' = {}
  /\ UNCHANGED <<clock, status, heard, lostAt, told>>

PresenceNext ==
  \/ Pass
  \/ \E d \in Devices :
       Hear(d) \/ Appear(d) \/ Confirm(d) \/ Return(d) \/ Lose(d)
  \/ Tell
  \/ Stop

PresenceSpec == PresenceInit /\ [][PresenceNext]_presence
=============================================================================
