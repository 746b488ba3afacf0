----------------------------- MODULE MCSupervisor -----------------------------
(* An instance of Supervisor for TLC: everything comes from the cfg files.   *)
EXTENDS Supervisor
==============================================================================
