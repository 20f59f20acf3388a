------------------------------ MODULE AsyncClient ------------------------------
(***************************************************************************)
(* One connection of the asynchronous client: the calls that share it      *)
(* (Client::request and Client::new_stream), the sends on open streams     *)
(* (StreamSender::send and close_send), the bounded outbound channel with  *)
(* its permits, the writer task (run_writer), the connection task          *)
(* (Connection::run) and the stream registry that routes inbound frames.   *)
(*                                                                         *)
(* Payloads are abstracted away: a task sends one frame, named by the      *)
(* task, and an inbound item is its kind and the call the peer answered.   *)
(* Tasks interleave at every shared access; what happens between two       *)
(* shared accesses is one step.                                            *)
(***************************************************************************)
EXTENDS Naturals, Sequences, FiniteSets

CONSTANTS Unary,        \* calls of Client::request
          Open,         \* calls of Client::new_stream
          Send,         \* calls of StreamSender::send and close_send
          StreamOf,     \* the stream each member of Send belongs to
          Closing,      \* the members of Send that are close_send
          Receivable,   \* streams opened with streaming_server
          Deadline,     \* unary calls whose timeout_nano is not zero
          Workload,     \* what an application does on a connection: the tasks
                        \* it starts, and whether it installed a transform
          QueueCap,     \* capacity of the outbound channel (100 in new_inner)
          IdSpace,      \* number of stream ids before wrapping (2^32)
          MaxData,      \* bound: DATA frames the peer sends on one stream
          NoCall

Call == Unary \cup Open
Task == Call \cup Send
Id == {i \in 1..IdSpace : i % 2 = 1}

ASSUME TaskAssumption ==
  /\ IsFiniteSet(Task) /\ NoCall \notin Task
  /\ Unary \cap Open = {} /\ Call \cap Send = {}
  /\ StreamOf \in [Send -> Open]
  /\ Closing \subseteq Send /\ Receivable \subseteq Open /\ Deadline \subseteq Unary
ASSUME BoundAssumption ==
  /\ QueueCap \in Nat \ {0} /\ MaxData \in Nat
  /\ Workload \subseteq [tasks : SUBSET Task, transform : BOOLEAN]
  /\ IdSpace \in Nat \ {0} /\ IdSpace % 2 = 0

VARIABLES
  pc, result,             \* control point and outcome of each task
  id, next_stream_id,     \* stream ids, Client.next_stream_id
  streams,                \* Client.streams: stream id -> registered call
  mailbox,                \* the unbounded response channel of each call
  rclosed,                \* StreamReceiver.remote_closed
  sclosed,                \* StreamSender.local_closed
  sender, client,         \* is a StreamSender / the Client still alive?
  expired,                \* calls whose deadline has passed
  chan, stuck,            \* the outbound channel; frames pushed after its end
  nonce, next_nonce,      \* transform state: the order frames were sealed in;
                          \* next_nonce is 0 when there is no transform
  ack,                    \* the oneshot result channel of each send
  wstate, wmsg,           \* writer task and the frame in its hands
  wire, torn,             \* whole frames written; was one written in part?
  run,                    \* control point of Connection::run
  replied, peerDone       \* the peer: DATA frames sent, last frame sent

clientVars == <<pc, result, id, next_stream_id>>
streamVars == <<rclosed, sclosed, sender>>
chanVars   == <<chan, stuck, nonce, next_nonce>>
writerVars == <<wstate, wmsg, wire, torn>>
peerVars   == <<replied, peerDone>>
vars == <<clientVars, streams, mailbox, streamVars, client, expired, chanVars, ack,
          writerVars, run, peerVars>>

PC == {"init", "register", "reserve", "permit", "ack", "wait", "open", "done"}
Result == {"none", "rejected", "closed", "timeout", "error", "cancelled", "answered",
           "crossed", "failed", "remote_closed", "local_closed", "sent", "unsent"}
Item == [kind : {"response", "data", "last", "err"}, call : Call]

TypeOK ==
  /\ pc \in [Task -> PC] /\ result \in [Task -> Result]
  /\ id \in [Call -> Id \cup {0}] /\ next_stream_id \in Id
  /\ streams \in [Id -> Call \cup {NoCall}]
  /\ mailbox \in [Call -> Seq(Item)]
  /\ rclosed \in [Open -> BOOLEAN] /\ sclosed \in [Open -> BOOLEAN]
  /\ sender \in [Open -> BOOLEAN] /\ client \in BOOLEAN
  /\ expired \subseteq Deadline
  /\ chan \in Seq(Task) /\ stuck \subseteq Task
  /\ nonce \in [Task -> Nat] /\ next_nonce \in Nat
  /\ ack \in [Send -> {"none", "ok", "err"}]
  /\ wstate \in {"recv", "write", "ok", "err", "aborted"}
  /\ wmsg \in Task \cup {NoCall}
  /\ wire \in Seq(Task) /\ torn \in BOOLEAN
  /\ run \in {"select", "reading", "abort", "disconnect", "end"}
  /\ replied \in [Call -> 0..MaxData] /\ peerDone \in [Call -> BOOLEAN]

Init ==
  /\ \E w \in Workload :
       /\ pc = [t \in Task |-> IF t \in w.tasks THEN "init" ELSE "done"]
       /\ next_nonce = IF w.transform THEN 1 ELSE 0
  /\ result = [t \in Task |-> "none"]
  /\ id = [c \in Call |-> 0] /\ next_stream_id = 1
  /\ streams = [i \in Id |-> NoCall]
  /\ mailbox = [c \in Call |-> <<>>]
  /\ rclosed = [c \in Open |-> FALSE] /\ sclosed = [c \in Open |-> FALSE]
  /\ sender = [c \in Open |-> FALSE] /\ client = TRUE
  /\ expired = {}
  /\ chan = <<>> /\ stuck = {}
  /\ nonce = [t \in Task |-> 0]
  /\ ack = [s \in Send |-> "none"]
  /\ wstate = "recv" /\ wmsg = NoCall
  /\ wire = <<>> /\ torn = FALSE
  /\ run = "select"
  /\ replied = [c \in Call |-> 0] /\ peerDone = [c \in Call |-> FALSE]

-----------------------------------------------------------------------------
(* The outbound channel (tokio mpsc, external). The receiver lives inside    *)
(* the writer task, so the channel is closed once that task has ended. A     *)
(* permit taken before that can still be used afterwards: the frame is then  *)
(* pushed into a channel nobody reads.                                       *)
Ended == wstate \in {"ok", "err", "aborted"}
Permits == {t \in Task : pc[t] = "permit"}
Free == Len(chan) + Cardinality(Permits) < QueueCap

(* The response receiver of a call exists from before its registration until *)
(* the call (or the stream's receiving half) is gone.                        *)
RxOpen(c) == pc[c] \in {"register", "reserve", "permit", "wait", "open"}

(* A payload transform is configured.                                        *)
Transform == next_nonce > 0

(* Mutant of Controlled: a transformed request keeps its MessageControl.     *)
ControlledAlways(t) == t \in Unary

(* MessageControl travels with unary requests, and transform_send_inner      *)
(* removes it from a frame whose transform has advanced.                     *)
Controlled(t) == t \in Unary /\ ~Transform

(* StreamRegistrationGuard::drop, and StreamReceiver's Drop.                 *)
Unregister(c) == streams' = [streams EXCEPT ![id[c]] = NoCall]

(* A task returns. A call that fails before its guard was disarmed removes   *)
(* its registration; sends have none.                                        *)
Return(t, r) ==
  /\ pc' = [pc EXCEPT ![t] = "done"]
  /\ result' = [result EXCEPT ![t] = r]

Abandon(t, r) ==
  /\ Return(t, r)
  /\ IF t \in Call THEN Unregister(t) ELSE UNCHANGED streams

-----------------------------------------------------------------------------
(* Mutant of Begin: the counter is read and not advanced.                    *)
BeginSameId(c) ==
  /\ client /\ pc[c] = "init"
  /\ id' = [id EXCEPT ![c] = next_stream_id]
  /\ pc' = [pc EXCEPT ![c] = "register"]
  /\ UNCHANGED <<next_stream_id, result, streams, mailbox, streamVars, client, expired,
                 chanVars, ack, writerVars, run, peerVars>>

(* request / new_stream: take a stream id, then validate the message.        *)
Begin(c) ==
  /\ client /\ pc[c] = "init"
  /\ id' = [id EXCEPT ![c] = next_stream_id]
  /\ next_stream_id' = (next_stream_id + 2) % IdSpace
  /\ \/ pc' = [pc EXCEPT ![c] = "register"] /\ UNCHANGED result
     \/ Return(c, "rejected")
  /\ UNCHANGED <<streams, mailbox, streamVars, client, expired, chanVars, ack,
                 writerVars, run, peerVars>>

(* Insert the response sender into the registry and arm the guard.           *)
Register(c) ==
  /\ pc[c] = "register"
  /\ pc' = [pc EXCEPT ![c] = "reserve"]
  /\ streams' = [streams EXCEPT ![id[c]] = c]
  /\ UNCHANGED <<result, id, next_stream_id, mailbox, streamVars, client, expired,
                 chanVars, ack, writerVars, run, peerVars>>

(* StreamSender::send and close_send: the local_closed test.                 *)
StartSend(s) ==
  /\ pc[s] = "init" /\ sender[StreamOf[s]]
  /\ IF sclosed[StreamOf[s]]
     THEN Return(s, "local_closed")
     ELSE pc' = [pc EXCEPT ![s] = "reserve"] /\ UNCHANGED result
  /\ UNCHANGED <<id, next_stream_id, streams, mailbox, streamVars, client, expired,
                 chanVars, ack, writerVars, run, peerVars>>

(* reserve_message_slot: a permit, or an error once the channel is closed.   *)
Reserve(t) ==
  /\ pc[t] = "reserve"
  /\ \/ Ended /\ Abandon(t, "closed")
     \/ /\ ~Ended /\ Free
        /\ pc' = [pc EXCEPT ![t] = "permit"]
        /\ UNCHANGED <<result, streams>>
  /\ UNCHANGED <<id, next_stream_id, mailbox, streamVars, client, expired,
                 chanVars, ack, writerVars, run, peerVars>>

(* transform_send_inner with the permit in hand: seal the frame under the    *)
(* outbound lock and push it, with no await in between.                      *)
Enqueue(t) ==
  /\ pc[t] = "permit"
  /\ IF Transform
     THEN nonce' = [nonce EXCEPT ![t] = next_nonce] /\ next_nonce' = next_nonce + 1
     ELSE UNCHANGED <<nonce, next_nonce>>
  /\ IF Ended THEN stuck' = stuck \cup {t} /\ UNCHANGED chan
              ELSE chan' = Append(chan, t) /\ UNCHANGED stuck
  /\ pc' = [pc EXCEPT ![t] = CASE t \in Unary -> "wait"
                               [] t \in Open  -> "open"
                               [] t \in Send  -> "ack"]
  /\ sender' = [c \in Open |-> sender[c] \/ c = t]
  /\ UNCHANGED <<result, id, next_stream_id, streams, mailbox, rclosed, sclosed, client,
                 expired, ack, writerVars, run, peerVars>>

(* outbound() refuses the payload and the permit goes back: the transform    *)
(* fails, or, with no transform too, the DATA of a send() is oversized. The  *)
(* requests were measured in Begin.                                          *)
TransformFails(t) ==
  /\ Transform \/ t \in Send \ Closing
  /\ pc[t] = "permit"
  /\ Abandon(t, "error")
  /\ UNCHANGED <<id, next_stream_id, mailbox, streamVars, client, expired, chanVars, ack,
                 writerVars, run, peerVars>>

(* Mutant of RecvAck: any verdict of the writer counts as success.           *)
RecvAckAny(s) ==
  /\ pc[s] = "ack" /\ ack[s] # "none"
  /\ Return(s, "sent")
  /\ UNCHANGED <<id, next_stream_id, streams, mailbox, streamVars, client, expired,
                 chanVars, ack, writerVars, run, peerVars>>

(* send and close_send: the writer's verdict. A successful close_send then   *)
(* sets local_closed.                                                        *)
RecvAck(s) ==
  /\ pc[s] = "ack" /\ ack[s] # "none"
  /\ Return(s, IF ack[s] = "ok" THEN "sent" ELSE "unsent")
  /\ sclosed' = [sclosed EXCEPT ![StreamOf[s]] = @ \/ (s \in Closing /\ ack[s] = "ok")]
  /\ UNCHANGED <<id, next_stream_id, streams, mailbox, rclosed, sender, client, expired,
                 chanVars, ack, writerVars, run, peerVars>>

(* request: an item arrives; the guard is disarmed, the registry untouched.  *)
(* The caller cannot tell an answer given to another call from its own: the  *)
(* model records it as "crossed".                                            *)
RecvResult(c) ==
  /\ c \in Unary /\ pc[c] = "wait" /\ mailbox[c] # <<>>
  /\ LET item == Head(mailbox[c])
     IN  Return(c, CASE item.kind = "err"                    -> "failed"
                     [] item.kind # "err" /\ item.call = c -> "answered"
                     [] OTHER                                -> "crossed")
  /\ mailbox' = [mailbox EXCEPT ![c] = Tail(@)]
  /\ UNCHANGED <<id, next_stream_id, streams, streamVars, client, expired, chanVars, ack,
                 writerVars, run, peerVars>>

(* request: every sender of the response channel is gone (recv gives None).  *)
(* The senders are the registry's and the one inside an unwritten frame.     *)
SendersGone(c) ==
  /\ \A i \in Id : streams[i] # c
  /\ Controlled(c) => /\ wmsg # c /\ c \notin stuck
                      /\ \A k \in 1..Len(chan) : chan[k] # c

RecvNone(c) ==
  /\ c \in Unary /\ pc[c] = "wait" /\ mailbox[c] = <<>> /\ SendersGone(c)
  /\ Abandon(c, "remote_closed")
  /\ UNCHANGED <<id, next_stream_id, mailbox, streamVars, client, expired, chanVars, ack,
                 writerVars, run, peerVars>>

-----------------------------------------------------------------------------
(* The deadline of a call passes.                                            *)
Expire(c) ==
  /\ c \in Deadline \ expired /\ pc[c] \notin {"init", "done"}
  /\ expired' = expired \cup {c}
  /\ UNCHANGED <<clientVars, streams, mailbox, streamVars, client, chanVars, ack,
                 writerVars, run, peerVars>>

(* Where a task is suspended: waiting for a permit, for the outbound lock    *)
(* that another sender holds, for an item, or for an acknowledgement.        *)
Suspended(t) ==
  \/ pc[t] = "reserve" /\ ~Free /\ ~Ended
  \/ pc[t] = "permit" /\ Permits # {t}
  \/ pc[t] = "wait" /\ mailbox[t] = <<>>
  \/ pc[t] = "ack" /\ ack[t] = "none"

(* Mutant of Timeout: the deadline covers only the wait for the response.    *)
TimeoutResponseOnly(c) ==
  /\ c \in expired /\ Suspended(c) /\ pc[c] = "wait"
  /\ Abandon(c, "timeout")
  /\ UNCHANGED <<id, next_stream_id, mailbox, streamVars, client, expired, chanVars, ack,
                 writerVars, run, peerVars>>

(* timeout_at around the three waits of a unary call.                        *)
Timeout(c) ==
  /\ c \in expired /\ Suspended(c)
  /\ Abandon(c, "timeout")
  /\ UNCHANGED <<id, next_stream_id, mailbox, streamVars, client, expired, chanVars, ack,
                 writerVars, run, peerVars>>

(* The caller drops the future at one of its await points.                   *)
Cancel(t) ==
  /\ Suspended(t)
  /\ Abandon(t, "cancelled")
  /\ UNCHANGED <<id, next_stream_id, mailbox, streamVars, client, expired, chanVars, ack,
                 writerVars, run, peerVars>>

-----------------------------------------------------------------------------
(* StreamReceiver::recv. The terminal RESPONSE, a close, and DATA on a       *)
(* stream that expects none close the receiving half.                        *)
StreamRecv(c) ==
  /\ c \in Open /\ pc[c] = "open" /\ ~rclosed[c] /\ mailbox[c] # <<>>
  /\ mailbox' = [mailbox EXCEPT ![c] = Tail(@)]
  /\ LET kind == Head(mailbox[c]).kind
     IN  rclosed' = [rclosed EXCEPT ![c] = \/ kind \in {"response", "last"}
                                           \/ kind = "data" /\ c \notin Receivable]
  /\ UNCHANGED <<clientVars, streams, sclosed, sender, client, expired, chanVars, ack,
                 writerVars, run, peerVars>>

(* Mutant of DropReceiver: StreamReceiver has no Drop.                       *)
DropReceiverLeaks(c) ==
  /\ c \in Open /\ pc[c] = "open"
  /\ pc' = [pc EXCEPT ![c] = "done"]
  /\ UNCHANGED <<result, id, next_stream_id, streams, mailbox, streamVars, client, expired,
                 chanVars, ack, writerVars, run, peerVars>>

(* StreamReceiver::drop.                                                     *)
DropReceiver(c) ==
  /\ c \in Open /\ pc[c] = "open"
  /\ pc' = [pc EXCEPT ![c] = "done"]
  /\ Unregister(c)
  /\ UNCHANGED <<result, id, next_stream_id, mailbox, streamVars, client, expired,
                 chanVars, ack, writerVars, run, peerVars>>

(* The last StreamSender of a stream is dropped; a send borrows it.          *)
DropSender(c) ==
  /\ sender[c]
  /\ \A s \in Send : StreamOf[s] = c => pc[s] \in {"init", "done"}
  /\ sender' = [sender EXCEPT ![c] = FALSE]
  /\ UNCHANGED <<clientVars, streams, mailbox, rclosed, sclosed, client, expired, chanVars,
                 ack, writerVars, run, peerVars>>

(* The last Client clone is dropped; a call borrows it.                      *)
DropClient ==
  /\ client
  /\ \A c \in Call : pc[c] \in {"init", "open", "done"}
  /\ client' = FALSE
  /\ UNCHANGED <<clientVars, streams, mailbox, streamVars, expired, chanVars, ack,
                 writerVars, run, peerVars>>

-----------------------------------------------------------------------------
(* run_writer. The task ends with outcome w; the frame in its hands and the  *)
(* queued ones are dropped with their result channels.                       *)
WriterEnds(w) ==
  /\ wstate' = w
  /\ wmsg' = NoCall
  /\ chan' = <<>>
  /\ ack' = [s \in Send |->
               IF s = wmsg \/ \E k \in 1..Len(chan) : chan[k] = s THEN "err" ELSE ack[s]]

(* recv gives a frame: a cancelled or expired request is discarded before    *)
(* the first byte, any other frame is written.                               *)
WriterRecv ==
  /\ wstate = "recv" /\ chan # <<>>
  /\ chan' = Tail(chan)
  /\ LET t == Head(chan)
     IN  IF Controlled(t) /\ (~RxOpen(t) \/ t \in expired)
         THEN UNCHANGED <<wstate, wmsg>>
         ELSE wstate' = "write" /\ wmsg' = t
  /\ UNCHANGED <<clientVars, streams, mailbox, streamVars, client, expired, stuck, nonce,
                 next_nonce, ack, wire, torn, run, peerVars>>

(* recv gives None: every MessageSender is gone and the channel is empty.    *)
WriterNone ==
  /\ wstate = "recv" /\ chan = <<>>
  /\ ~client /\ \A c \in Open : ~sender[c]
  /\ WriterEnds("ok")
  /\ UNCHANGED <<clientVars, streams, mailbox, streamVars, client, expired, stuck, nonce,
                 next_nonce, wire, torn, run, peerVars>>

(* WriteOutcome::Complete(Ok).                                               *)
WriteOk ==
  /\ wstate = "write"
  /\ wire' = Append(wire, wmsg)
  /\ wstate' = "recv" /\ wmsg' = NoCall
  /\ ack' = [s \in Send |-> IF s = wmsg THEN "ok" ELSE ack[s]]
  /\ UNCHANGED <<clientVars, streams, mailbox, streamVars, client, expired, chanVars, torn,
                 run, peerVars>>

(* The outcomes that end the connection: the socket fails, or the request is *)
(* cancelled or expires with its frame perhaps half written.                 *)
WriteFails ==
  /\ wstate = "write"
  /\ torn' = TRUE
  /\ WriterEnds("err")
  /\ UNCHANGED <<clientVars, streams, mailbox, streamVars, client, expired, stuck, nonce,
                 next_nonce, wire, run, peerVars>>

(* Mutant of WriteInterrupted: the writer drops the frame and goes on.       *)
WriteInterruptedGoesOn ==
  /\ wstate = "write" /\ Controlled(wmsg) /\ (~RxOpen(wmsg) \/ wmsg \in expired)
  /\ torn' = TRUE /\ wstate' = "recv" /\ wmsg' = NoCall
  /\ UNCHANGED <<clientVars, streams, mailbox, streamVars, client, expired, chanVars, ack,
                 wire, run, peerVars>>

WriteInterrupted ==
  /\ Controlled(wmsg) /\ (~RxOpen(wmsg) \/ wmsg \in expired)
  /\ WriteFails

-----------------------------------------------------------------------------
(* Connection::run, one iteration of the biased select: the writer's end     *)
(* comes first. A writer that ended because all senders are gone ends the    *)
(* connection without disconnect().                                          *)
SelectWriter ==
  /\ run \in {"select", "reading"} /\ Ended
  /\ run' = IF wstate = "ok" THEN "end" ELSE "disconnect"
  /\ UNCHANGED <<clientVars, streams, mailbox, streamVars, client, expired, chanVars, ack,
                 writerVars, peerVars>>

(* The writer is still running: the frame reader is polled. The writer may   *)
(* end before the frame is handled.                                          *)
SelectRead ==
  /\ run = "select" /\ ~Ended
  /\ run' = "reading"
  /\ UNCHANGED <<clientVars, streams, mailbox, streamVars, client, expired, chanVars, ack,
                 writerVars, peerVars>>

(* The socket (external): a conforming peer answers calls whose request it   *)
(* has received, a unary call once and never with DATA (handle_msg would     *)
(* route that and leave the entry, which request() no longer guards once it  *)
(* has an item), a stream with DATA frames and one last frame.               *)
(* "bad" is a frame the reader cannot accept: oversized, rejected by the     *)
(* inbound transform, or of an unknown type.                                 *)
PeerSends(c, kind) ==
  /\ ~peerDone[c] /\ \E k \in 1..Len(wire) : wire[k] = c
  /\ c \in Unary => kind \in {"response", "bad"}
  /\ kind = "data" => replied[c] < MaxData
  /\ replied' = [replied EXCEPT ![c] = IF kind = "data" THEN @ + 1 ELSE @]
  /\ peerDone' = [peerDone EXCEPT ![c] = c \in Unary \/ kind \in {"response", "last"}]

(* get_resp_tx, send_result and fail_stream: the call registered under the   *)
(* frame's stream id gets the item; every frame but plain DATA unregisters   *)
(* it, and so does a send to a receiver that is gone.                        *)
Route(i, item) ==
  LET c == streams[i]
  IN  IF c = NoCall
      THEN UNCHANGED <<streams, mailbox>>
      ELSE /\ mailbox' = IF RxOpen(c) THEN [mailbox EXCEPT ![c] = Append(@, item)] ELSE mailbox
           /\ streams' = IF item.kind = "data" /\ RxOpen(c)
                         THEN streams ELSE [streams EXCEPT ![i] = NoCall]

(* ClientReader::handle_msg and handle_err.                                  *)
HandleMsg(c, kind) ==
  /\ run = "reading"
  /\ PeerSends(c, kind)
  /\ Route(id[c], [kind |-> IF kind = "bad" THEN "err" ELSE kind, call |-> c])
  /\ run' = "select"
  /\ UNCHANGED <<clientVars, streamVars, client, expired, chanVars, ack, writerVars>>

(* Mutant of ReadError: disconnect() while the writer still runs.            *)
ReadErrorNoAbort ==
  /\ run = "reading"
  /\ run' = "disconnect"
  /\ UNCHANGED <<clientVars, streams, mailbox, streamVars, client, expired, chanVars, ack,
                 writerVars, peerVars>>

(* read_from fails (end of file or an I/O error): abort the writer ...       *)
ReadError ==
  /\ run = "reading"
  /\ run' = "abort"
  /\ UNCHANGED <<clientVars, streams, mailbox, streamVars, client, expired, chanVars, ack,
                 writerVars, peerVars>>

(* ... and wait until it is gone, unless it ended by itself.                 *)
AwaitWriter ==
  /\ run = "abort"
  /\ run' = "disconnect"
  /\ IF Ended THEN UNCHANGED <<writerVars, chan, ack>>
     ELSE WriterEnds("aborted") /\ torn' = (torn \/ wstate = "write") /\ UNCHANGED wire
  /\ UNCHANGED <<clientVars, streams, mailbox, streamVars, client, expired, stuck, nonce,
                 next_nonce, peerVars>>

(* ClientReader::disconnect: take the whole registry and fail every entry.   *)
Disconnect ==
  /\ run = "disconnect"
  /\ run' = "end"
  /\ streams' = [i \in Id |-> NoCall]
  /\ mailbox' = [c \in Call |->
                   IF RxOpen(c) /\ \E i \in Id : streams[i] = c
                   THEN Append(mailbox[c], [kind |-> "err", call |-> c])
                   ELSE mailbox[c]]
  /\ UNCHANGED <<clientVars, streamVars, client, expired, chanVars, ack, writerVars, peerVars>>

-----------------------------------------------------------------------------
TaskStep(t) ==
  \/ t \in Call /\ Register(t)
  \/ Reserve(t) \/ Enqueue(t) \/ Timeout(t)
  \/ t \in Send /\ RecvAck(t)
  \/ RecvResult(t) \/ RecvNone(t)

ConnStep == SelectWriter \/ SelectRead \/ AwaitWriter \/ Disconnect

Next ==
  \/ \E c \in Call : Begin(c)
  \/ \E s \in Send : StartSend(s)
  \/ \E t \in Task : TaskStep(t) \/ TransformFails(t) \/ Cancel(t) \/ Expire(t)
  \/ \E c \in Open : StreamRecv(c) \/ DropReceiver(c) \/ DropSender(c)
  \/ DropClient
  \/ WriterRecv \/ WriterNone \/ WriteOk \/ WriteFails \/ WriteInterrupted
  \/ ConnStep \/ ReadError
  \/ \E c \in Call, kind \in {"response", "data", "last", "bad"} : HandleMsg(c, kind)

Spec == Init /\ [][Next]_vars

(* Tokio keeps polling runnable tasks and timers fire: the tasks inside a    *)
(* call, the connection task, and time itself are fair. The peer, the        *)
(* socket's readiness to accept bytes and the application's choices are not. *)
FairSpec ==
  /\ Spec
  /\ \A t \in Task : WF_vars(TaskStep(t))
  /\ \A c \in Deadline : WF_vars(Expire(c))
  /\ WF_vars(ConnStep)
  /\ WF_vars(WriterRecv \/ WriterNone)

-----------------------------------------------------------------------------
(* A registry entry always belongs to the call that owns its stream id, and  *)
(* to one that can still receive: no call, however it ended (answered, timed *)
(* out, cancelled, rejected by the transform, stream dropped), leaves its    *)
(* entry behind (client.rs:37-63, 239-262, stream.rs:694-698).               *)
RegistryExact ==
  /\ TypeOK
  /\ \A i \in Id : streams[i] # NoCall =>
       /\ id[streams[i]] = i
       /\ pc[streams[i]] \in {"reserve", "permit", "wait", "open"}

(* What callers of request() see is what UnaryCalls promises: a call ends at *)
(* most once, and succeeds only with an answer the peer gave to this call    *)
(* ("crossed" is no state of UnaryCalls), whatever is cancelled, expires, is *)
(* retried under another id or torn down.                                    *)
CallView == [c \in Unary |-> CASE result[c] = "answered" -> "ok"
                              [] result[c] = "crossed" -> "crossed"
                              [] result[c] = "none" /\ pc[c] \in {"init", "done"} -> "idle"
                              [] result[c] = "none" /\ pc[c] \notin {"init", "done"} -> "pending"
                              [] OTHER -> "failed"]
Calls == INSTANCE UnaryCalls WITH Calls <- Unary, call <- CallView,
                                  produced <- {c \in Unary : peerDone[c]}
CallsRefine == Calls!CallSpec

(* Once the connection has been torn down, no call waits in vain: a call     *)
(* that got as far as the channel has an item to read, and no entry is left  *)
(* that a reader would have to serve. This is why request() registers before *)
(* it reserves, and why run() lets the writer end before disconnect().       *)
TeardownReachesAll ==
  (run = "end" /\ wstate # "ok") =>
    \A c \in Call :
      /\ pc[c] \in {"permit", "wait"} => mailbox[c] # <<>>
      /\ pc[c] = "open" => mailbox[c] # <<>> \/ SendersGone(c)

(* A frame that may be half written is the last thing on the wire.           *)
FramesWhole == [][torn => wire' = wire /\ torn']_vars

(* With a stateful transform the frames on the wire carry consecutive        *)
(* nonces: no sealed frame is dropped, duplicated or overtaken while the     *)
(* connection lives (security_extension.rs:707-806).                         *)
NonceOrder == Transform => \A k \in 1..Len(wire) : nonce[wire[k]] = k

(* send() and close_send() report success only for a frame that is           *)
(* completely on the wire.                                                   *)
AckTruthful ==
  \A s \in Send : result[s] = "sent" => \E k \in 1..Len(wire) : wire[k] = s

(* A unary call with a deadline ends, whatever the peer, the socket and the  *)
(* other callers do.                                                         *)
DeadlineBounds ==
  \A c \in Deadline : pc[c] = "register" ~> pc[c] = "done"

(* After teardown every call in progress ends, deadline or not, and so does  *)
(* one that starts on the dead connection.                                   *)
TeardownEndsCalls == run = "end" ~> \A c \in Unary : pc[c] \in {"init", "done"}
=============================================================================
