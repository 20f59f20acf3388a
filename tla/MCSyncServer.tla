----------------------------- MODULE MCSyncServer -----------------------------
(* Instances of SyncServer for TLC.                                          *)
EXTENDS SyncServer
=============================================================================
