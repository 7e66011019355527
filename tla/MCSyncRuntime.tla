---------------------------- MODULE MCSyncRuntime ----------------------------
(* Connects, a pause, a restore or import and a reader on one workspace, with *)
(* the shell around it.                                                       *)
EXTENDS WorkspaceMaintenance
=============================================================================
