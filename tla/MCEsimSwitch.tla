---------------------------- MODULE MCEsimSwitch ----------------------------
(***************************************************************************)
(* EsimSwitch for TLC: two calls of SwitchProfile on a card with two         *)
(* profiles, so that one switch can overtake another.                        *)
(***************************************************************************)
EXTENDS EsimSwitch

CONSTANTS a, b

MCSwitches == 1..2
MCProfiles == {a, b}

\* Without and with RadioCycle; WiFi calling on one profile or on both.
MCConfigs == {[cycle |-> TRUE, vowifi |-> {b}], [cycle |-> FALSE, vowifi |-> {a, b}]}
=============================================================================
