----------------------------- MODULE FrameFifo -----------------------------
(***************************************************************************)
(* What the wire format promises to the code above it, whatever the        *)
(* transport does with the bytes: the reader sees the frames whose writing *)
(* began, whole, in order, without a gap and at most once, and a frame     *)
(* over the limit as an error that carries its header.                     *)
(***************************************************************************)
EXTENDS Naturals, Sequences

CONSTANTS MaxLen,  \* MESSAGE_LENGTH_MAX
          Lengths  \* lengths a frame may have

VARIABLES sent,   \* lengths of the frames whose writing began
          got     \* what the reader returned: frame number and outcome

Outcome(len) == IF len > MaxLen THEN "oversize" ELSE "msg"

FifoInit == sent = <<>> /\ got = <<>>

Send == /\ \E len \in Lengths : sent' = Append(sent, len)
        /\ UNCHANGED got

Deliver == /\ Len(got) < Len(sent)
           /\ got' = Append(got, [f |-> Len(got) + 1,
                                  kind |-> Outcome(sent[Len(got) + 1])])
           /\ UNCHANGED sent

FifoNext == Send \/ Deliver
FifoSpec == FifoInit /\ [][FifoNext]_<<sent, got>>
============================================================================
