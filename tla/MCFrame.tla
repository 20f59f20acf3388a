------------------------------ MODULE MCFrame ------------------------------
(* Instances of Frame for TLC. *)
EXTENDS Frame
============================================================================
