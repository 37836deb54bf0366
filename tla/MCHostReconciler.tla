------------------------- MODULE MCHostReconciler -------------------------
(* A host with two NICs, two addresses on the first and one device.        *)
EXTENDS HostReconciler

CONSTANTS n1, n2, a1, a2, d1

MCNics == {n1, n2}
MCIps == {a1, a2}
MCDevices == {d1}
MCNicOf == [a \in MCIps |-> n1]

=============================================================================
