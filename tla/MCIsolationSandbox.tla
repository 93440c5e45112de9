--------------------------- MODULE MCIsolationSandbox --------------------------
(***************************************************************************)
(* IsolationSandbox for TLC: scores in units of ten points.  A medium alert *)
(* of the IDS or of the firewall counts 1, a high one 2, a critical one 4;  *)
(* 10 stands for any threat that crosses both thresholds at once.           *)
(***************************************************************************)
EXTENDS IsolationSandbox

MediumAlert  == 1
EventScores  == {2, 4, 10}
SuspicionTen == 4
IsolationTen == 7

================================================================================
