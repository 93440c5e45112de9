---------------------------- MODULE MCThreatResponse ---------------------------
(* ThreatResponse for TLC.                                                  *)
EXTENDS ThreatResponse, TLC

CONSTANTS a1, syn, udp

FloodSymmetry == Permutations(FloodTypes)

================================================================================
