------------------------------ MODULE MCTypedRpc ------------------------------
(* TypedRpc for TLC.                                                         *)
EXTENDS TypedRpc
=============================================================================
