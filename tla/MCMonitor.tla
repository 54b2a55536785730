----------------------------- MODULE MCMonitor -----------------------------
(* Two scripts, cron's and the operator's, that may overlap once, and two     *)
(* faults.                                                                   *)
EXTENDS Monitor
=============================================================================
