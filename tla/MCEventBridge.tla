---------------------------- MODULE MCEventBridge ----------------------------
(* EventBridge for TLC: the symmetry of its two sets of interchangeable    *)
(* model values, for runs that check no liveness.                          *)
EXTENDS EventBridgeInv, BridgeLocks, TLC

Symmetry == Permutations(Session) \cup Permutations(Event)

=============================================================================
