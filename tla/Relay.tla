--------------------------------- MODULE Relay ---------------------------------
(***************************************************************************)
(* Two-threshold relays, one per id: on at or above Hi, off below Lo,      *)
(* unchanged in the band between.  fan-governor promises two of them for   *)
(* every group: the emergency latch and zero-RPM (see FanGovernor).        *)
(***************************************************************************)
EXTENDS Integers

CONSTANTS
  Ids,
  Hi, Lo,       \* the thresholds of each id
  Readings,     \* the temperatures a relay can be shown
  StartsOn      \* the position of a relay that has been shown none

VARIABLES
  on,           \* the position of each relay
  reading       \* the last temperature it was shown

rvars == <<on, reading>>

NoReading == -1

Start ==
  /\ on = [i \in Ids |-> StartsOn]
  /\ reading = [i \in Ids |-> NoReading]

Show(i, r) ==
  /\ reading' = [reading EXCEPT ![i] = r]
  /\ on' = [on EXCEPT ![i] = \/ r >= Hi[i]
                             \/ r >= Lo[i] /\ on[i]]

\* The daemon ended and a later one begins afresh.
Reset ==
  /\ on' = [i \in Ids |-> StartsOn]
  /\ reading' = [i \in Ids |-> NoReading]

Step == Reset \/ \E i \in Ids, r \in Readings : Show(i, r)

Safe == Start /\ [][Step]_rvars
================================================================================
