-------------------------- MODULE MCHostMaintenance --------------------------
(* Two images of one schema revision and one that migrates.                *)
EXTENDS HostMaintenance

CONSTANTS i1, i2, i3

MCImages == {i1, i2, i3}
MCHeadOf == [i \in MCImages |-> IF i = i3 THEN 2 ELSE 1]
=============================================================================
