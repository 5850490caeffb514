-------------------------- MODULE MCHeartbeatMonitor --------------------------
(* Instances of HeartbeatMonitor for TLC.                                  *)
EXTENDS HeartbeatMonitor, TLC

MCSymmetry == Permutations(Lanes) \cup Permutations(Sockets)
              \cup Permutations(Probes) \cup Permutations(Loops)
=============================================================================
