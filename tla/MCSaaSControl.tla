----------------------------- MODULE MCSaaSControl -----------------------------
(***************************************************************************)
(* SaaSControl for TLC.                                                    *)
(***************************************************************************)
EXTENDS SaaSControl
================================================================================
