-------------------------- MODULE MCAsyncListener --------------------------
(* Two listeners, one of them custom, two peers, two starts. *)
EXTENDS AsyncListener
============================================================================
