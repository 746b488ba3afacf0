---------------------------- MODULE MCBootSession ----------------------------
(* Instances of BootSession for TLC; the bounds are in the cfg files.       *)
EXTENDS BootSession
==============================================================================
