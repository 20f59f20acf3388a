------------------------------ MODULE MCShutdown ------------------------------
(* Instance of Shutdown for TLC: the constants get their values in the cfg.  *)
EXTENDS Shutdown
=============================================================================
