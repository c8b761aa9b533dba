------------------------------ MODULE MCAlerts ------------------------------
(* An ADOM with two devices: package p1 is installed on a device, package p2 on  *)
(* that device and on a device group with the other one.                         *)
EXTENDS PackageAlerts, TLC

CONSTANTS p1, p2, d1, d2, g1, r1, c1, e1, e2

MCScope   == (p1 :> {d1} @@ p2 :> {d1, g1})
FaultScope == (p2 :> {d1, g1})
MCMembers == (g1 :> {d2})
MCWatchList == {{}, {p2}}

=============================================================================
