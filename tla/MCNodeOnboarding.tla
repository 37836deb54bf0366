-------------------------- MODULE MCNodeOnboarding --------------------------
(* Two devices, the second one with a serial number that is not valid; one *)
(* host is registered by the user, another may be made by CreateNodes.     *)
EXTENDS NodeOnboarding, TLC

CONSTANTS d1, d2, h1, h2, k1, k2

MCDevices == {d1, d2}
MCValidSerials == {d1}
MCHosts == {h1, h2}
MCUserHosts == {h1}
MCHandlers == {k1, k2}
HandlerSymmetry == Permutations(MCHandlers)

=============================================================================
