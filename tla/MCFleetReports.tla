----------------------------- MODULE MCFleetReports ----------------------------
(* FleetReports for TLC. *)
EXTENDS FleetReports

CONSTANT p1

AllFaults == {"save", "read"}

================================================================================
