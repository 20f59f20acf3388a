------------------------------- MODULE Frame -------------------------------
(***************************************************************************)
(* One direction of a connection, byte by byte: the outbound pipeline that *)
(* checks and transforms a payload (ConnectionContext), the writer that    *)
(* puts header and payload on the transport (write_message_buffered and    *)
(* write_frame), a transport that accepts and delivers any number of bytes *)
(* at a time, and the reader that cuts the bytes into frames again         *)
(* (GenMessage::read_from and sync::channel::read_message).                *)
(*                                                                         *)
(* A byte is modelled by where it comes from: its frame and its offset.    *)
(* So nothing but reading the right bytes yields a header or a payload; a  *)
(* header put together from other bytes is garbage.                        *)
(***************************************************************************)
EXTENDS Naturals, Sequences, FiniteSets

CONSTANTS
  HeaderLen,  \* MESSAGE_HEADER_LENGTH
  PageSize,   \* DEFAULT_PAGE_SIZE
  MaxLen,     \* MESSAGE_LENGTH_MAX
  Overhead,   \* PayloadTransform::max_overhead
  Sizes,      \* payload sizes the application sends
  MaxFrames,  \* bound on the frames of a behaviour
  Buffer      \* bytes the transport holds

(* A transform whose overhead alone exceeds the limit is left out: every    *)
(* frame it seals could be refused after the nonce advanced.                *)
ASSUME FrameAssumption ==
  /\ HeaderLen \in Nat \ {0} /\ PageSize \in Nat /\ HeaderLen < PageSize
  /\ MaxLen \in Nat /\ Overhead \in 0..MaxLen
  /\ Sizes \subseteq Nat /\ MaxFrames \in Nat /\ Buffer \in Nat \ {0}

(* Who writes: the async writer task, the response thread of the sync      *)
(* server, the sender thread of the sync client, or a peer of another      *)
(* implementation that does not check sizes.                               *)
Writer == {"async", "server", "client", "foreign"}

VARIABLES
  who,        \* the writer
  side,       \* the reader: async or sync
  xform,      \* whether the connection has a payload transform
  snonce,     \* messages the sending transform has processed
  rnonce,     \* messages the receiving transform has processed
  chan,       \* at most one frame between the pipeline and the writer
  sent,       \* lengths of the frames whose writing began
  nonces,     \* their nonces
  wst, woff,  \* the writer, and how much of its frame is written
  broken,     \* the transport failed: it takes no further byte
  wire,       \* bytes in flight
  eof,        \* the writing end is closed
  rst,        \* what the reader is reading
  rbuf,       \* the bytes of the current read_exact or read_into
  rhead,      \* frame whose header was decoded last
  disc,       \* need_discard
  got         \* what the reader returned

pipe   == <<snonce, chan>>
writer == <<sent, nonces, wst, woff, broken>>
reader == <<rst, rbuf, rhead, disc, got, rnonce>>
conf   == <<who, side, xform>>
vars   == <<conf, pipe, writer, wire, eof, reader>>

NoFrame == [len |-> 0, nonce |-> 0, some |-> FALSE]

Init ==
  /\ who \in Writer /\ side \in {"async", "sync"}
  /\ xform \in BOOLEAN /\ (who = "foreign" => ~xform)
  /\ snonce = 0 /\ rnonce = 0 /\ chan = NoFrame
  /\ sent = <<>> /\ nonces = <<>>
  /\ wst = "idle" /\ woff = 0 /\ broken = FALSE
  /\ wire = <<>> /\ eof = FALSE
  /\ rst = "header" /\ rbuf = <<>> /\ rhead = 0 /\ disc = 0 /\ got = <<>>

MinOf(a, b) == IF a < b THEN a ELSE b

----------------------------------------------------------------------------
(* The outbound pipeline. *)
Oversize(len) == len > MaxLen

\* MESSAGE_LENGTH_MAX.saturating_sub(max_overhead)
MaxRaw == IF xform THEN MaxLen - Overhead ELSE MaxLen

\* Mutant: the overhead of the transform is not taken into account.
PreCheckMax(n) == n <= MaxLen

\* The pre-check that keeps a payload from advancing the transform in vain.
PreCheck(n) == ~xform \/ n <= MaxRaw

\* The lengths a frame can have on the wire.
Lengths == {n + g : n \in Sizes, g \in 0..Overhead}

Full == snonce = MaxFrames \/ Len(sent) = MaxFrames

\* The frame the pipeline hands to the writer.
Handed(len) == [len |-> len, nonce |-> snonce, some |-> TRUE]

(* outbound, outbound_buf: a payload that fails the pre-check is refused    *)
(* before the transform runs, and one the transform refuses changes nothing *)
(* either; the transform adds at most Overhead bytes; then the size is      *)
(* checked again.                                                           *)
Submit(n) ==
  /\ who # "foreign" /\ ~chan.some /\ ~eof /\ ~Full
  /\ PreCheck(n)
  /\ \E len \in n..(IF xform THEN n + Overhead ELSE n) :
       chan' = IF Oversize(len) THEN chan ELSE Handed(len)
  /\ snonce' = IF xform THEN snonce + 1 ELSE snonce
  /\ UNCHANGED <<conf, writer, wire, eof, reader>>

SubmitForeign(n) ==
  /\ who = "foreign" /\ ~chan.some /\ ~eof /\ ~Full
  /\ chan' = Handed(n)
  /\ UNCHANGED <<conf, snonce, writer, wire, eof, reader>>

----------------------------------------------------------------------------
(* The writer. *)
WLen == sent[Len(sent)]

\* Bytes i+1..j of the frame being written.
Bytes(i, j) == [k \in 1..(j - i) |-> [f |-> Len(sent), i |-> i + k]]

\* The first write covers the header and the start of the payload, bounded
\* by a page; the second one the rest.
PrefixEnd == HeaderLen + MinOf(WLen, PageSize - HeaderLen)
SegmentEnd == IF woff < PrefixEnd THEN PrefixEnd ELSE HeaderLen + WLen

StartFrame ==
  /\ wst = "idle" /\ chan.some /\ ~eof
  /\ sent' = Append(sent, chan.len) /\ nonces' = Append(nonces, chan.nonce)
  /\ chan' = NoFrame /\ wst' = "writing" /\ woff' = 0
  /\ UNCHANGED <<conf, snonce, broken, wire, eof, reader>>

\* A controlled frame whose caller is gone or late is dropped before its
\* first byte; only frames that no transform has numbered are controlled.
Controlled == who = "async" /\ ~xform

Discard ==
  /\ wst = "idle" /\ chan.some /\ Controlled
  /\ chan' = NoFrame
  /\ UNCHANGED <<conf, snonce, writer, wire, eof, reader>>

\* write(remaining) takes any part of the segment.
Write ==
  /\ wst = "writing" /\ ~broken /\ ~eof
  /\ \E j \in (woff + 1)..SegmentEnd :
       /\ Len(wire) + (j - woff) <= Buffer
       /\ wire' = wire \o Bytes(woff, j)
       /\ woff' = j
       /\ wst' = IF j = HeaderLen + WLen THEN "idle" ELSE wst
  /\ UNCHANGED <<conf, pipe, sent, nonces, broken, eof, reader>>

\* A write fails or takes nothing.  The sender thread of the sync client
\* reports the error and goes on to its next request, the others end.
AfterFailure == IF who \in {"client", "foreign"} THEN "idle" ELSE "ended"

WriteFails ==
  /\ wst = "writing"
  /\ broken' = TRUE
  /\ wst' = AfterFailure
  /\ UNCHANGED <<conf, pipe, sent, nonces, woff, wire, eof, reader>>

\* Mutant: an interrupted writer goes on with the next frame.
InterruptGoesOn ==
  /\ wst = "writing" /\ Controlled
  /\ wst' = "idle"
  /\ UNCHANGED <<conf, pipe, sent, nonces, woff, broken, wire, eof, reader>>

\* Cancelled or late while bytes of the frame may be out: the writer ends.
Interrupt ==
  /\ wst = "writing" /\ Controlled
  /\ wst' = "ended"
  /\ UNCHANGED <<conf, pipe, sent, nonces, woff, broken, wire, eof, reader>>

\* The socket is closed, by its owner at any time.
CloseWriter ==
  /\ ~eof /\ eof' = TRUE /\ wst' = "ended"
  /\ UNCHANGED <<conf, pipe, sent, nonces, woff, broken, wire, reader>>

----------------------------------------------------------------------------
(* The reader. *)
Last == Len(rbuf)

\* How many bytes the current read asks for.
Want == CASE rst = "header"  -> HeaderLen
          [] rst = "body"    -> sent[rhead]
          [] rst = "discard" -> MinOf(PageSize, disc)
          [] OTHER           -> 0

ReadSome ==
  /\ rst # "ended" /\ wire # <<>> /\ Last < Want
  /\ \E n \in 1..MinOf(Want - Last, Len(wire)) :
       /\ rbuf' = rbuf \o SubSeq(wire, 1, n)
       /\ wire' = SubSeq(wire, n + 1, Len(wire))
  /\ UNCHANGED <<conf, pipe, writer, eof, rst, rhead, disc, got, rnonce>>

\* MessageHeader::from: the header of frame f, or garbage.
IsHeader(buf) == \E f \in 1..Len(sent) :
                   buf = [k \in 1..HeaderLen |-> [f |-> f, i |-> k]]
IsPayload(buf, f) == buf = [k \in 1..sent[f] |-> [f |-> f, i |-> HeaderLen + k]]

Enter(st, n) == rst' = st /\ disc' = n /\ rbuf' = <<>>

DecodeHeader ==
  /\ rst = "header" /\ Last = HeaderLen
  /\ IF IsHeader(rbuf)
     THEN /\ rhead' = rbuf[1].f
          /\ IF Oversize(sent[rhead']) THEN Enter("discard", sent[rhead'])
             ELSE Enter("body", 0)
     ELSE Enter("garbage", 0) /\ UNCHANGED rhead
  /\ UNCHANGED <<conf, pipe, writer, wire, eof, got, rnonce>>

Return(kind) == got' = Append(got, [f |-> rhead, kind |-> kind])

\* The payload is complete: the inbound pipeline undoes the transform, which
\* fails unless it is the message the receiving transform expects.
ReturnFrame ==
  /\ rst = "body" /\ Last = Want
  /\ LET numbered == ~xform \/ nonces[rhead] = rnonce
         whole    == IsPayload(rbuf, rhead) IN
       /\ Return(IF whole /\ numbered THEN "msg" ELSE "bad")
       /\ rnonce' = IF xform /\ numbered THEN rnonce + 1 ELSE rnonce
  /\ Enter("header", 0)
  /\ UNCHANGED <<conf, pipe, writer, wire, eof, rhead>>

\* need_discard -= once_discard
Discarded(n) ==
  /\ IF disc > n
     THEN Enter("discard", disc - n) /\ UNCHANGED got
     ELSE Enter("header", 0) /\ Return("oversize")
  /\ UNCHANGED <<conf, pipe, writer, wire, eof, rhead, rnonce>>

DiscardChunk == rst = "discard" /\ Last = Want /\ Discarded(Want)

Stop == rst' = "ended" /\ UNCHANGED <<rbuf, rhead, disc, got, rnonce>>

\* The transport is at its end in the middle of a read.  read_exact fails.
\* In the sync reader read_into returns what there is: discard_count does not
\* look at it; for a header or a payload, nothing at all is Error::Socket and
\* ends the loop of the caller, something is INVALID_ARGUMENT, after which
\* the caller reads on.
AtEof == wire = <<>> /\ eof /\ rst # "ended" /\ Last < Want

EofAsync ==
  /\ AtEof /\ side = "async"
  /\ Stop /\ UNCHANGED <<conf, pipe, writer, wire, eof>>

\* Mutant: only what was read is counted as discarded.
EofSyncCounts ==
  /\ AtEof /\ side = "sync"
  /\ CASE rst = "discard" -> Discarded(Last)
       [] rst # "discard" /\ Last = 0 ->
            Stop /\ UNCHANGED <<conf, pipe, writer, wire, eof>>
       [] OTHER ->
            /\ Enter("header", 0)
            /\ UNCHANGED <<conf, pipe, writer, wire, eof, rhead, got, rnonce>>

EofSync ==
  /\ AtEof /\ side = "sync"
  /\ CASE rst = "discard" -> Discarded(Want)
       [] rst # "discard" /\ Last = 0 ->
            Stop /\ UNCHANGED <<conf, pipe, writer, wire, eof>>
       [] OTHER ->
            /\ Enter("header", 0)
            /\ UNCHANGED <<conf, pipe, writer, wire, eof, rhead, got, rnonce>>

ReadFails ==
  /\ rst # "ended" /\ Last < Want
  /\ Stop /\ UNCHANGED <<conf, pipe, writer, wire, eof>>

----------------------------------------------------------------------------
ReaderStep == \/ ReadSome \/ DecodeHeader \/ ReturnFrame \/ DiscardChunk
              \/ EofAsync \/ EofSync

Next ==
  \/ \E n \in Sizes : Submit(n) \/ SubmitForeign(n)
  \/ StartFrame \/ Discard \/ Write \/ WriteFails \/ Interrupt \/ CloseWriter
  \/ ReaderStep \/ ReadFails

Spec == Init /\ [][Next]_vars

\* The reader's loop reads on, and the writer writes while there is room.
FairSpec == Spec /\ WF_vars(ReaderStep) /\ WF_vars(Write)

----------------------------------------------------------------------------
(* Properties. *)
TypeOK ==
  /\ who \in Writer /\ side \in {"async", "sync"} /\ xform \in BOOLEAN
  /\ snonce \in 0..MaxFrames /\ rnonce \in 0..MaxFrames
  /\ chan.len \in Nat /\ chan.some \in BOOLEAN
  /\ wst \in {"idle", "writing", "ended"}
  /\ Len(nonces) = Len(sent) /\ Len(sent) <= MaxFrames
  /\ sent # <<>> => woff \in 0..(HeaderLen + WLen)
  /\ Len(wire) <= Buffer
  /\ rst \in {"header", "body", "discard", "garbage", "ended"}
  /\ rhead \in 0..Len(sent)
  /\ Last <= Want \/ rst = "ended"
  /\ eof \in BOOLEAN /\ broken \in BOOLEAN

\* Whatever the transport does with the bytes (short writes, short reads,
\* failures in the middle of a frame, a close at any byte), the reader returns
\* the frames whole, in order and without a gap, and reports one over the
\* limit by its own header and goes on with the next: the specification of
\* the wire format is implemented.
Fifo == INSTANCE FrameFifo
FramesRefine == Fifo!FifoSpec

\* The outbound pipeline is exact.  A transform never runs for a payload that
\* is then refused, and no frame it numbered is dropped before its first byte:
\* what the sending transform has processed is on its way or in the channel,
\* so both ends count alike.  What leaves the pipeline is within the limit the
\* peer checks, so a peer of this implementation never sees it as oversized.
PipelineExact ==
  /\ TypeOK
  /\ xform /\ wst # "ended" /\ ~eof =>
       snonce = Len(sent) + (IF chan.some THEN 1 ELSE 0)
  /\ who # "foreign" => \A i \in 1..Len(sent) : sent[i] <= MaxLen

\* A closed transport ends the reader, also in the middle of a frame it
\* discards; and a reader that is still reading makes room, so a frame under
\* way is written to its end unless the writer or the transport gives up.
EofEnds ==
  /\ eof ~> rst = "ended"
  /\ wst = "writing" ~> (wst # "writing" \/ broken \/ rst = "ended")
=============================================================================
