------------------------------ MODULE AsyncServer ------------------------------
(***************************************************************************)
(* One connection of the asynchronous server: Connection::run with         *)
(* ServerReader, one spawned task per inbound frame (HandlerContext), the  *)
(* stream handlers with their bounded channels, the writer task, and the   *)
(* two shutdown notifiers that tie them together (server_shutdown of the   *)
(* Server, handler_shutdown of the connection).                            *)
(*                                                                         *)
(* A frame is <<r, k>>: frame k of RPC r in wire order. Frame 0 is the     *)
(* REQUEST; on a stream, frames 1..NumData carry data and frame NumData+1  *)
(* is the close. Payloads are left out.                                    *)
(***************************************************************************)
EXTENDS Naturals, Sequences, FiniteSets

CONSTANTS Unary,       \* RPCs answered by a MethodHandler
          Stream,      \* RPCs answered by a StreamHandler
          NumData,     \* DATA frames the peer sends on a stream before its close
          NoData,      \* streams opened with FLAG_NO_DATA
          EvenId,      \* RPCs whose stream id is even
          Transform,   \* may an inbound transform reject frames?
          OutCap,      \* capacity of the outbound channel (100)
          StreamCap,   \* capacity of a stream's inbound channel (100)
          MaxSend,     \* bound: DATA frames a stream handler sends
          Offered,     \* the sets of RPCs a peer may send on a connection
          NoFrame

Rpc == Unary \cup Stream
Frame == (Unary \X {0}) \cup (Stream \X (0..NumData + 1))

ASSUME RpcAssumption ==
  /\ IsFiniteSet(Rpc) /\ Unary \cap Stream = {} /\ NoData \subseteq Stream
  /\ EvenId \subseteq Rpc /\ Offered \subseteq SUBSET Rpc
  /\ NoFrame \notin Frame
ASSUME CapAssumption ==
  /\ NumData \in Nat /\ MaxSend \in Nat /\ Transform \in BOOLEAN
  /\ OutCap \in Nat \ {0} /\ StreamCap \in Nat \ {0}

VARIABLES
  received,    \* per RPC: how many of its frames the reader has consumed
  run, frame,  \* Connection::run; the frame whose wait_rx or error it awaits
  elapsed,     \* did exit() give up waiting for the handlers?
  pc,          \* per frame: control point of its spawned task
  verdict,     \* per frame: what the task will respond with
  streams,     \* the stream registry: ids with a registered sender
  hpc, hrx,    \* stream handler task; does its StreamReceiver still exist?
  hbox, got,   \* its inbound channel; the frames it has received (history)
  sends,       \* frames the handler has sent
  out,         \* the outbound channel
  wstate, wmsg, wire,      \* writer task, frame in its hands, frames written
  server_shutdown, handler_shutdown   \* the flags of the two notifiers

readerVars  == <<received, run, frame, elapsed>>
taskVars    == <<pc, verdict>>
handlerVars == <<streams, hpc, hrx, hbox, got, sends>>
writerVars  == <<out, wstate, wmsg, wire>>
shutVars    == <<server_shutdown, handler_shutdown>>
vars == <<readerVars, taskVars, handlerVars, writerVars, shutVars>>

TaskPC == {"none", "start", "even_id", "method", "fake", "task", "deliver", "respond", "gone", "lost"}
Kind == {"result", "status", "inactive", "data"}
Msg == [rpc : Rpc, kind : Kind]

TypeOK ==
  /\ received \in [Rpc -> 0..NumData + 2]
  /\ run \in {"select", "reading", "wait", "handle_err", "abort", "exit", "end"}
  /\ frame \in Frame \cup {NoFrame} /\ elapsed \in BOOLEAN
  /\ pc \in [Frame -> TaskPC] /\ verdict \in [Frame -> Kind]
  /\ streams \subseteq Stream
  /\ hpc \in [Stream -> {"none", "run", "sending", "done"}] /\ hrx \in [Stream -> BOOLEAN]
  /\ hbox \in [Stream -> Seq(0..NumData + 1)] /\ \A s \in Stream : Len(hbox[s]) <= StreamCap
  /\ got \in [Stream -> Seq(0..NumData + 1)]
  /\ sends \in [Stream -> 0..MaxSend]
  /\ out \in Seq(Msg) /\ Len(out) <= OutCap
  /\ wstate \in {"recv", "write", "ok", "err", "aborted"}
  /\ wmsg \in Msg \cup {NoFrame} /\ wire \in Seq(Msg)
  /\ server_shutdown \in BOOLEAN /\ handler_shutdown \in BOOLEAN

(* An RPC that is not offered has no frame left to receive.                  *)
Init ==
  /\ \E rs \in Offered : received = [r \in Rpc |-> IF r \in rs THEN 0 ELSE NumData + 2]
  /\ run = "select" /\ frame = NoFrame /\ elapsed = FALSE
  /\ pc = [f \in Frame |-> "none"] /\ verdict = [f \in Frame |-> "result"]
  /\ streams = {}
  /\ hpc = [s \in Stream |-> "none"] /\ hrx = [s \in Stream |-> FALSE]
  /\ hbox = [s \in Stream |-> <<>>] /\ got = [s \in Stream |-> <<>>]
  /\ sends = [s \in Stream |-> 0]
  /\ out = <<>> /\ wstate = "recv" /\ wmsg = NoFrame /\ wire = <<>>
  /\ server_shutdown = FALSE /\ handler_shutdown = FALSE

-----------------------------------------------------------------------------
Ended == wstate \in {"ok", "err", "aborted"}

(* The tasks that hold a Waiter of handler_shutdown: one per live frame task.*)
Waiters == {f \in Frame : pc[f] \notin {"none", "gone", "lost"}}

(* The next frame of an RPC on the wire: the REQUEST first, then in order.   *)
NextFrame(r) == <<r, received[r]>>

(* The biased select of Connection::run reaches the reader only while the    *)
(* writer lives and the server is not shut down; either may change before    *)
(* the frame is handled.                                                     *)
SelectRead ==
  /\ run = "select" /\ ~Ended /\ ~server_shutdown
  /\ run' = "reading"
  /\ UNCHANGED <<received, frame, elapsed, taskVars, handlerVars, writerVars, shutVars>>

(* ServerReader::handle_msg: spawn the frame's task and wait for wait_rx.    *)
HandleMsg(r) ==
  /\ run = "reading" /\ NextFrame(r) \in Frame
  /\ received' = [received EXCEPT ![r] = @ + 1]
  /\ pc' = [pc EXCEPT ![NextFrame(r)] = "start"]
  /\ run' = "wait" /\ frame' = NextFrame(r)
  /\ UNCHANGED <<elapsed, verdict, handlerVars, writerVars, shutVars>>

(* handle_msg with an inbound transform that rejects the frame: no task.     *)
DropFrame(r) ==
  /\ Transform /\ run = "reading" /\ NextFrame(r) \in Frame
  /\ received' = [received EXCEPT ![r] = @ + 1]
  /\ run' = "select"
  /\ UNCHANGED <<frame, elapsed, taskVars, handlerVars, writerVars, shutVars>>

(* Mutant of WaitRx: the reader goes on without waiting for wait_rx.         *)
WaitRxEarly ==
  /\ run = "wait"
  /\ run' = "select" /\ frame' = NoFrame
  /\ UNCHANGED <<received, elapsed, taskVars, handlerVars, writerVars, shutVars>>

(* wait_tx is dropped when the task has classified its frame (a stream is    *)
(* registered by then), for an even stream id only when it has responded.    *)
WaitRx ==
  /\ run = "wait" /\ pc[frame] \notin {"start", "even_id"}
  /\ run' = "select" /\ frame' = NoFrame
  /\ UNCHANGED <<received, elapsed, taskVars, handlerVars, writerVars, shutVars>>

(* An oversized frame: handle_err responds from the reader itself, so the    *)
(* reader waits for room in the outbound channel.                            *)
ReadOversize(r) ==
  /\ run = "reading" /\ NextFrame(r) \in Frame
  /\ received' = [received EXCEPT ![r] = @ + 1]
  /\ run' = "handle_err" /\ frame' = NextFrame(r)
  /\ UNCHANGED <<elapsed, taskVars, handlerVars, writerVars, shutVars>>

(* transform_send of a frame by its task, the reader or a handler: wait for  *)
(* room, transform and enqueue.                                              *)
TransformSend(m) == ~Ended /\ Len(out) < OutCap /\ out' = Append(out, m)

(* transform_send fails: the writer is gone, or with a permit in hand the    *)
(* outbound transform refuses the frame or leaves it too large. The frame is *)
(* dropped; the connection stays as it is.                                   *)
TransformFails == (Ended \/ Len(out) < OutCap) /\ UNCHANGED out

HandleErr ==
  /\ run = "handle_err"
  /\ TransformSend([rpc |-> frame[1], kind |-> "status"]) \/ TransformFails
  /\ run' = "select" /\ frame' = NoFrame
  /\ UNCHANGED <<received, elapsed, taskVars, handlerVars, wstate, wmsg, wire, shutVars>>

-----------------------------------------------------------------------------
(* HandlerContext::handle_msg: a frame with an even stream id is refused.    *)
RefuseId(f) ==
  /\ pc[f] = "start" /\ f[1] \in EvenId
  /\ pc' = [pc EXCEPT ![f] = "even_id"]
  /\ verdict' = [verdict EXCEPT ![f] = "status"]
  /\ UNCHANGED <<readerVars, handlerVars, writerVars, shutVars>>

(* handle_request refuses: undecodable, unknown service or method.           *)
RefuseRequest(f) ==
  /\ pc[f] = "start" /\ f[1] \notin EvenId /\ f[2] = 0
  /\ pc' = [pc EXCEPT ![f] = "respond"]
  /\ verdict' = [verdict EXCEPT ![f] = "status"]
  /\ UNCHANGED <<readerVars, handlerVars, writerVars, shutVars>>

(* handle_request finds a method: drop wait_tx, run it.                      *)
HandleRequest(f) ==
  /\ pc[f] = "start" /\ f[1] \in Unary \ EvenId
  /\ pc' = [pc EXCEPT ![f] = "method"]
  /\ UNCHANGED <<readerVars, verdict, handlerVars, writerVars, shutVars>>

(* handle_method: the handler returns, fails or exceeds timeout_nano.        *)
HandleMethod(f) ==
  /\ pc[f] = "method"
  /\ pc' = [pc EXCEPT ![f] = "respond"]
  /\ UNCHANGED <<readerVars, verdict, handlerVars, writerVars, shutVars>>

(* handle_stream: register the stream, then drop wait_tx and spawn the       *)
(* handler; unless FLAG_NO_DATA is set the request is its first message.     *)
HandleStream(f) ==
  /\ pc[f] = "start" /\ f[1] \in Stream \ EvenId /\ f[2] = 0
  /\ streams' = streams \cup {f[1]}
  /\ hpc' = [hpc EXCEPT ![f[1]] = "run"]
  /\ hrx' = [hrx EXCEPT ![f[1]] = TRUE]
  /\ pc' = [pc EXCEPT ![f] = IF f[1] \in NoData THEN "task" ELSE "fake"]
  /\ UNCHANGED <<readerVars, verdict, hbox, got, sends, writerVars, shutVars>>

(* handle_msg on DATA: drop wait_tx, look the stream up.                     *)
HandleData(f) ==
  /\ pc[f] = "start" /\ f[1] \notin EvenId /\ f[2] > 0
  /\ IF f[1] \in streams
     THEN pc' = [pc EXCEPT ![f] = "deliver"] /\ UNCHANGED verdict
     ELSE /\ pc' = [pc EXCEPT ![f] = "respond"]
          /\ verdict' = [verdict EXCEPT ![f] = "inactive"]
  /\ UNCHANGED <<readerVars, handlerVars, writerVars, shutVars>>

(* stream_tx.send of a DATA frame, and of the "fake" first message: wait for *)
(* room; an error if the handler has dropped its receiver.                   *)
Deliver(f) ==
  /\ pc[f] \in {"deliver", "fake"}
  /\ IF hrx[f[1]]
     THEN /\ Len(hbox[f[1]]) < StreamCap
          /\ hbox' = [hbox EXCEPT ![f[1]] = Append(@, f[2])]
          /\ pc' = [pc EXCEPT ![f] = IF pc[f] = "fake" THEN "task" ELSE "gone"]
          /\ UNCHANGED verdict
     ELSE /\ pc' = [pc EXCEPT ![f] = "respond"]
          /\ verdict' = [verdict EXCEPT ![f] = IF pc[f] = "fake" THEN "status" ELSE "inactive"]
          /\ UNCHANGED hbox
  /\ UNCHANGED <<readerVars, streams, hpc, hrx, got, sends, writerVars, shutVars>>

(* Mutant of AwaitHandler: respond without awaiting the handler's task.      *)
AwaitHandlerNot(f) ==
  /\ pc[f] = "task"
  /\ pc' = [pc EXCEPT ![f] = "respond"]
  /\ UNCHANGED <<readerVars, verdict, handlerVars, writerVars, shutVars>>

(* handle_stream: task.await gives the handler's result.                     *)
AwaitHandler(f) ==
  /\ pc[f] = "task" /\ hpc[f[1]] = "done"
  /\ pc' = [pc EXCEPT ![f] = "respond"]
  /\ UNCHANGED <<readerVars, verdict, handlerVars, writerVars, shutVars>>

(* respond, respond_with_status, or the close frame of a stream; a failure   *)
(* is logged and the answer lost.                                            *)
Respond(f) ==
  /\ pc[f] \in {"respond", "even_id"}
  /\ \/ /\ TransformSend([rpc |-> f[1], kind |-> verdict[f]])
        /\ pc' = [pc EXCEPT ![f] = "gone"]
     \/ /\ TransformFails
        /\ pc' = [pc EXCEPT ![f] = "lost"]
  /\ UNCHANGED <<readerVars, verdict, handlerVars, wstate, wmsg, wire, shutVars>>

(* The select of the spawned task: wait_shutdown wins at an await point. The *)
(* stream handler was spawned on its own and is not cancelled with it.       *)
CancelTask(f) ==
  /\ handler_shutdown /\ f \in Waiters
  /\ pc' = [pc EXCEPT ![f] = "gone"]
  /\ UNCHANGED <<readerVars, verdict, handlerVars, writerVars, shutVars>>
-----------------------------------------------------------------------------
(* The stream handler (application code) with its StreamInner: recv() until  *)
(* the close frame, send() with the writer's acknowledgement.                *)
RemoteClosed(s) == \E k \in 1..Len(got[s]) : got[s][k] = NumData + 1

HandlerRecv(s) ==
  /\ hpc[s] = "run" /\ hrx[s] /\ ~RemoteClosed(s) /\ hbox[s] # <<>>
  /\ got' = [got EXCEPT ![s] = Append(@, Head(hbox[s]))]
  /\ hbox' = [hbox EXCEPT ![s] = Tail(@)]
  /\ UNCHANGED <<readerVars, taskVars, streams, hpc, hrx, sends, writerVars, shutVars>>

HandlerSend(s) ==
  /\ hpc[s] = "run" /\ sends[s] < MaxSend
  /\ \/ /\ TransformSend([rpc |-> s, kind |-> "data"])
        /\ hpc' = [hpc EXCEPT ![s] = "sending"]
     \/ TransformFails /\ UNCHANGED hpc
  /\ sends' = [sends EXCEPT ![s] = @ + 1]
  /\ UNCHANGED <<readerVars, taskVars, streams, hrx, hbox, got, wstate, wmsg, wire, shutVars>>

(* The handler drops its receiving half while it keeps the sending one: the  *)
(* stream leaves the registry.                                               *)
DropReceiver(s) ==
  /\ hpc[s] = "run" /\ hrx[s]
  /\ hrx' = [hrx EXCEPT ![s] = FALSE]
  /\ streams' = streams \ {s}
  /\ hbox' = [hbox EXCEPT ![s] = <<>>]
  /\ UNCHANGED <<readerVars, taskVars, hpc, got, sends, writerVars, shutVars>>

(* The handler returns.                                                      *)
HandlerReturns(s) ==
  /\ hpc[s] = "run"
  /\ hpc' = [hpc EXCEPT ![s] = "done"]
  /\ hrx' = [hrx EXCEPT ![s] = FALSE]
  /\ streams' = streams \ {s}
  /\ hbox' = [hbox EXCEPT ![s] = <<>>]
  /\ UNCHANGED <<readerVars, taskVars, got, sends, writerVars, shutVars>>

-----------------------------------------------------------------------------
(* run_writer with a ServerWriter; no server frame carries a MessageControl. *)
WriterRecv ==
  /\ wstate = "recv" /\ out # <<>>
  /\ wstate' = "write" /\ wmsg' = Head(out) /\ out' = Tail(out)
  /\ UNCHANGED <<readerVars, taskVars, handlerVars, wire, shutVars>>

(* A handler that waits for the acknowledgement of send() resumes.           *)
Acknowledge(S) == hpc' = [s \in Stream |-> IF s \in S /\ hpc[s] = "sending" THEN "run" ELSE hpc[s]]

WriteOk ==
  /\ wstate = "write"
  /\ wire' = Append(wire, wmsg)
  /\ wstate' = "recv" /\ wmsg' = NoFrame
  /\ Acknowledge(IF wmsg.kind = "data" THEN {wmsg.rpc} ELSE {})
  /\ UNCHANGED <<readerVars, taskVars, streams, hrx, hbox, got, sends, out, shutVars>>

(* The writer's end drops the queued frames and their result channels.       *)
WriterEnds(w) ==
  /\ wstate' = w /\ wmsg' = NoFrame /\ out' = <<>>
  /\ Acknowledge(Stream)
  /\ UNCHANGED <<streams, hrx, hbox, got, sends, wire>>

WriteFails ==
  /\ wstate = "write"
  /\ WriterEnds("err")
  /\ UNCHANGED <<readerVars, taskVars, shutVars>>

(* recv gives None: the reader, the frame tasks and the stream handlers have *)
(* dropped their clones of the outbound sender.                              *)
WriterNone ==
  /\ wstate = "recv" /\ out = <<>>
  /\ run = "end" /\ Waiters = {} /\ \A s \in Stream : hpc[s] \in {"none", "done"}
  /\ WriterEnds("ok")
  /\ UNCHANGED <<readerVars, taskVars, shutVars>>

-----------------------------------------------------------------------------
(* Connection::run: the writer failed; disconnect() and leave the loop.      *)
SelectWriter ==
  /\ run \in {"select", "reading"} /\ Ended
  /\ run' = "exit" /\ handler_shutdown' = TRUE
  /\ UNCHANGED <<received, frame, elapsed, taskVars, handlerVars, writerVars, server_shutdown>>

SelectShutdown ==
  /\ run \in {"select", "reading"} /\ ~Ended /\ server_shutdown
  /\ run' = "exit"
  /\ UNCHANGED <<received, frame, elapsed, taskVars, handlerVars, writerVars, shutVars>>

(* End of file or an I/O error: abort the writer, await it, disconnect().    *)
ReadError ==
  /\ run = "reading"
  /\ run' = "abort"
  /\ UNCHANGED <<received, frame, elapsed, taskVars, handlerVars, writerVars, shutVars>>

AwaitWriter ==
  /\ run = "abort"
  /\ IF Ended THEN UNCHANGED <<handlerVars, writerVars>> ELSE WriterEnds("aborted")
  /\ run' = "exit" /\ handler_shutdown' = TRUE
  /\ UNCHANGED <<received, frame, elapsed, taskVars, server_shutdown>>

(* Mutant of ReaderDropped: Notifier has no Drop.                            *)
ReaderDroppedSilently == run' = "end" /\ UNCHANGED handler_shutdown

(* ServerReader::exit: wait_all_exit on the frame tasks, for at most         *)
(* DEFAULT_CONN_SHUTDOWN_TIMEOUT; the reader is dropped after it, and its    *)
(* Notifier's Drop shuts the remaining tasks down.                           *)
ReaderDropped == run' = "end" /\ handler_shutdown' = TRUE

(* Mutant of ExitAll: exit() does not wait for the tasks.                    *)
ExitAtOnce ==
  /\ run = "exit"
  /\ ReaderDropped
  /\ UNCHANGED <<received, frame, elapsed, taskVars, handlerVars, writerVars, server_shutdown>>

ExitAll ==
  /\ run = "exit" /\ Waiters = {}
  /\ ReaderDropped
  /\ UNCHANGED <<received, frame, elapsed, taskVars, handlerVars, writerVars, server_shutdown>>

ExitElapsed ==
  /\ run = "exit" /\ Waiters # {}
  /\ ReaderDropped /\ elapsed' = TRUE
  /\ UNCHANGED <<received, frame, taskVars, handlerVars, writerVars, server_shutdown>>

(* Server::disconnect, or the Server's drop, notifies the connection.        *)
Shutdown ==
  /\ ~server_shutdown
  /\ server_shutdown' = TRUE
  /\ UNCHANGED <<readerVars, taskVars, handlerVars, writerVars, handler_shutdown>>

-----------------------------------------------------------------------------
(* A frame task up to the application's code, and its cancellation.          *)
TaskStep(f) ==
  \/ RefuseId(f) \/ HandleRequest(f) \/ HandleStream(f) \/ HandleData(f)
  \/ Deliver(f) \/ AwaitHandler(f) \/ Respond(f) \/ CancelTask(f)

ReaderStep ==
  SelectRead \/ WaitRx \/ HandleErr \/ SelectWriter \/ SelectShutdown \/ AwaitWriter \/ ExitAll \/ ExitElapsed

Next ==
  \/ \E r \in Rpc : HandleMsg(r) \/ DropFrame(r) \/ ReadOversize(r)
  \/ \E f \in Frame : TaskStep(f) \/ RefuseRequest(f) \/ HandleMethod(f)
  \/ \E s \in Stream : HandlerRecv(s) \/ HandlerSend(s) \/ DropReceiver(s) \/ HandlerReturns(s)
  \/ WriterRecv \/ WriteOk \/ WriteFails \/ WriterNone
  \/ ReaderStep \/ ReadError \/ Shutdown

Spec == Init /\ [][Next]_vars

(* The runtime polls every ready task and the exit timer fires; the peer     *)
(* takes what is written or the socket fails. Handlers may run forever.      *)
FairSpec ==
  /\ Spec
  /\ \A f \in Frame : WF_vars(TaskStep(f))
  /\ WF_vars(ReaderStep)
  /\ WF_vars(WriterRecv \/ WriterNone) /\ WF_vars(WriteOk \/ WriteFails)

-----------------------------------------------------------------------------
(* A DATA frame is answered "Stream is no longer active" only when its       *)
(* stream is over, never because its REQUEST is still being set up: what     *)
(* wait_tx and wait_rx are for (server.rs:456, 482, 523-572, 697).           *)
RegisteredInTime ==
  /\ TypeOK
  /\ \A s \in Stream, k \in 1..NumData + 1 :
       verdict[<<s, k>>] = "inactive" =>
         IF hpc[s] = "none"
         THEN pc[<<s, 0>>] = "none" \/ verdict[<<s, 0>>] = "status"
         ELSE ~hrx[s]

(* A shutdown drains: when the connection has ended without its five-second  *)
(* limit and without an error, every request it took on was answered on the  *)
(* wire, except those whose answer the outbound transform refused, which the *)
(* server only logs (server.rs:439-449, 542-549, connection.rs:65-111).      *)
GracefulDrain ==
  (run = "end" /\ wstate = "ok" /\ ~elapsed) =>
    \A r \in Rpc : pc[<<r, 0>>] \notin {"none", "lost"} =>
      \E k \in 1..Len(wire) : wire[k].rpc = r /\ wire[k].kind \in {"result", "status"}

(* The final frame of a stream is behind every DATA frame its handler sent   *)
(* (server.rs:717-740, stream.rs:710-724).                                   *)
ResultIsLast ==
  \A k \in 1..Len(wire) :
    wire[k].kind = "result" => \A l \in k + 1..Len(wire) :
      ~(wire[l].kind = "data" /\ wire[l].rpc = wire[k].rpc)

(* Server::disconnect ends the connection task and every frame task, even if *)
(* a handler never returns; unless a stream handler still runs, the writer   *)
(* ends too (server.rs:311-334, 439-449, connection.rs:159-217).             *)
ShutdownCompletes ==
  server_shutdown ~>
    /\ run = "end" /\ Waiters = {}
    /\ (\A s \in Stream : hpc[s] \in {"none", "done"}) => Ended

(* A handler receives the frames of its stream in wire order: none reaches   *)
(* it while an earlier one is still on its way.                              *)
InOrder ==
  \A s \in Stream : \A k \in 1..Len(got[s]) : \A j \in 0..NumData + 1 :
    j < got[s][k] => pc[<<s, j>>] \notin {"deliver", "fake"}
=============================================================================
