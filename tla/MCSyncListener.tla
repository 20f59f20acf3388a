---------------------------- MODULE MCSyncListener ----------------------------
(* An instance of SyncListener for TLC.                                      *)
EXTENDS SyncListener
CONSTANTS k1, k2, f1, mon
=============================================================================
