------------------------------ MODULE MCEventFabric ----------------------------
(* EventFabric for TLC. *)
EXTENDS EventFabric

CONSTANTS h1, t1, d1, d2, u1, p1

================================================================================
