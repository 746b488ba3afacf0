----------------------------- MODULE MCEventTail -----------------------------
(* An instance of EventTail for TLC: everything comes from the cfg files.   *)
EXTENDS EventTail
==============================================================================
