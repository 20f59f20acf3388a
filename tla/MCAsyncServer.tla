----------------------------- MODULE MCAsyncServer -----------------------------
(* Instances of AsyncServer for TLC.                                         *)
EXTENDS AsyncServer
CONSTANTS u1, u2, s1

(* Two unary requests, one of them with an even stream id; or one stream.    *)
UnaryOrStream == {{u1, u2}, {s1}}
Everything == {Rpc}
=============================================================================
