----------------------------- MODULE MCSyncClient -----------------------------
(* Instances of SyncClient for TLC.                                          *)
EXTENDS SyncClient
CONSTANTS c1, c2, c3
=============================================================================
