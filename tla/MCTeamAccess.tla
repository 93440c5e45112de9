------------------------------ MODULE MCTeamAccess -----------------------------
(* TeamAccess for TLC. *)
EXTENDS TeamAccess

CONSTANTS admin, bob, boot, other

AllFaults == {"save", "read"}

================================================================================
