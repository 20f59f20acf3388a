----------------------------- MODULE MCAsyncClient -----------------------------
(* Instances of AsyncClient for TLC.                                         *)
EXTENDS AsyncClient
CONSTANTS u1, u2, u3, o1, s1, s2

OneStream == [s \in Send |-> o1]

ThreeCalls == {[tasks |-> {u1, u2, u3}, transform |-> FALSE]}

(* A duplex stream with a send() racing a close_send(), plain and through a  *)
(* transform; and two unary calls through a transform, the second of which   *)
(* may get the stream id of the first again.                                 *)
StreamsAndTransform == {[tasks |-> {o1, s1, s2}, transform |-> FALSE],
                        [tasks |-> {o1, s1, s2}, transform |-> TRUE],
                        [tasks |-> {u1, u2}, transform |-> TRUE]}
=============================================================================
