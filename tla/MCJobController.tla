--------------------------- MODULE MCJobController ---------------------------
(* One job for TLC. *)
EXTENDS JobController, JobScenarioCases
==============================================================================
