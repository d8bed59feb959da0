------------------------------ MODULE MCServer ------------------------------
(* Small instances of Server for TLC. *)
EXTENDS Server, FiniteSets

(* Every end of a server is a fault, so that launchd is never out of pids  *)
(* when there are more servers than faults.                                *)
ASSUME EnoughServers == Exclusive => Cardinality(Server) > MaxFaults
============================================================================
