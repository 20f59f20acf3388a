------------------------------ MODULE SyncServer ------------------------------
(***************************************************************************)
(* One connection of the synchronous server: the client_handler thread     *)
(* with its reader thread, response thread and worker pool, the listener   *)
(* that inserts the connection into the map, the reaper that closes it,    *)
(* and Server::disconnect.                                                 *)
(*                                                                         *)
(* Worker threads are interchangeable, so the model keeps the number of    *)
(* them at each control point. Requests and responses are counted, their   *)
(* content is left out. quit and wtc are SeqCst atomics: one access is one *)
(* step.                                                                   *)
(***************************************************************************)
EXTENDS Integers

CONSTANTS Default, MinWait, MaxWait,  \* thread_count_default, _min and _max
          MaxReq                      \* bound: requests the peer sends

(* What Server::start checks before it starts to listen.                     *)
ASSUME PoolAssumption ==
  /\ MinWait \in Nat /\ Default \in Nat /\ MaxWait \in Nat /\ MaxReq \in Nat
  /\ MinWait < Default /\ Default < MaxWait

VARIABLES
  main, left,        \* client_handler; threads it still has to start
  reader, responder, \* reader thread, response thread
  at,                \* worker threads at each control point
  wtc, quit,         \* waiting-thread count, quit flag
  sent, queue, res,  \* requests read so far, workload channel, response channel
  inMap, reapMsg, fd,  \* entry in connections, fd sent to the reaper, descriptor
  server             \* Server::disconnect on this connection

poolVars == <<at, wtc>>
dataVars == <<sent, queue, res>>
fdVars   == <<inMap, reapMsg, fd>>
vars == <<main, left, reader, responder, poolVars, quit, dataVars, fdVars, server>>

WorkerPC == {"loop", "add", "over", "recv", "woken", "taken", "closed", "notify",
             "handle", "quit"}

TypeOK ==
  /\ main \in {"start", "loop", "check", "refill", "recv", "join", "sync", "end"}
  /\ left \in 0..Default
  /\ reader \in {"loop", "read", "send", "ctl", "done"} /\ responder \in {"recv", "done"}
  /\ at \in [WorkerPC -> Nat] /\ wtc \in Nat /\ quit \in BOOLEAN
  /\ sent \in 0..MaxReq /\ queue \in Nat /\ res \in Nat
  /\ inMap \in {"no", "yes", "removed"} /\ reapMsg \in BOOLEAN /\ fd \in {"open", "closed"}
  /\ server \in {"run", "quit", "done"}

Init ==
  /\ main = "start" /\ left = Default
  /\ reader = "loop" /\ responder = "recv"
  /\ at = [p \in WorkerPC |-> 0] /\ wtc = 0 /\ quit = FALSE
  /\ sent = 0 /\ queue = 0 /\ res = 0
  /\ inMap = "no" /\ reapMsg = FALSE /\ fd = "open"
  /\ server = "run"

-----------------------------------------------------------------------------
Workers == at["loop"] + at["add"] + at["over"] + at["recv"] + at["woken"] + at["taken"]
           + at["closed"] + at["notify"] + at["handle"] + at["quit"]

(* A worker thread moves from p to q; Leave: it ends at p.                   *)
Move(p, q) == at[p] > 0 /\ at' = [at EXCEPT ![p] = @ - 1, ![q] = @ + 1]
Leave(p)   == at[p] > 0 /\ at' = [at EXCEPT ![p] = @ - 1]

(* The control channel has no buffer: a send completes together with main's  *)
(* recv, or fails at once when main has dropped the receiver.                *)
ControlRx == main \notin {"join", "sync", "end"}
ControlSend ==
  \/ main = "recv" /\ main' = "loop"
  \/ ~ControlRx /\ UNCHANGED main

-----------------------------------------------------------------------------
(* client_handler: start_method_handler_threads, at the start and for a      *)
(* refill, looks at quit before every thread it starts.                      *)
Spawn ==
  /\ main \in {"start", "refill"} /\ left > 0 /\ ~quit
  /\ left' = left - 1 /\ at' = [at EXCEPT !["loop"] = @ + 1]
  /\ UNCHANGED <<main, reader, responder, wtc, quit, dataVars, fdVars, server>>

Spawned ==
  /\ main \in {"start", "refill"} /\ (left = 0 \/ quit)
  /\ main' = IF main = "start" THEN "loop" ELSE "recv"
  /\ left' = 0
  /\ UNCHANGED <<reader, responder, poolVars, quit, dataVars, fdVars, server>>

(* The loop's condition. Leaving it drops control_rx, res_tx, workload_rx.   *)
MainLoop ==
  /\ main = "loop"
  /\ main' = IF quit THEN "join" ELSE "check"
  /\ UNCHANGED <<left, reader, responder, poolVars, quit, dataVars, fdVars, server>>

(* check_method_handler_threads.                                             *)
CheckThreads ==
  /\ main = "check"
  /\ IF wtc < MinWait THEN main' = "refill" /\ left' = Default - wtc
                      ELSE main' = "recv" /\ UNCHANGED left
  /\ UNCHANGED <<reader, responder, poolVars, quit, dataVars, fdVars, server>>

(* Mutant of Join: the reader thread is not joined.                          *)
JoinNoReader ==
  /\ main = "join" /\ responder = "done"
  /\ main' = "sync"
  /\ UNCHANGED <<left, reader, responder, poolVars, quit, dataVars, fdVars, server>>

(* Join the response thread and the reader thread; workers are not joined.   *)
Join ==
  /\ main = "join" /\ responder = "done" /\ reader = "done"
  /\ main' = "sync"
  /\ UNCHANGED <<left, reader, responder, poolVars, quit, dataVars, fdVars, server>>

(* Mutant of NotifyReaper: no sync_rx, the fd is sent at once.               *)
NotifyReaperEarly ==
  /\ main = "sync"
  /\ main' = "end" /\ reapMsg' = TRUE
  /\ UNCHANGED <<left, reader, responder, poolVars, quit, dataVars, inMap, fd, server>>

(* sync_rx: wait until the listener has inserted the connection, then tell   *)
(* the reaper.                                                               *)
NotifyReaper ==
  /\ main = "sync" /\ inMap # "no"
  /\ main' = "end" /\ reapMsg' = TRUE
  /\ UNCHANGED <<left, reader, responder, poolVars, quit, dataVars, inMap, fd, server>>

-----------------------------------------------------------------------------
(* The reader thread.                                                        *)
ReaderLoop ==
  /\ reader = "loop"
  /\ reader' = IF quit THEN "done" ELSE "read"
  /\ UNCHANGED <<main, left, responder, poolVars, quit, dataVars, fdVars, server>>

(* read_message returns a frame (also an oversized one, with its error) ...  *)
ReadFrame ==
  /\ reader = "read" /\ sent < MaxReq
  /\ reader' = "send" /\ sent' = sent + 1
  /\ UNCHANGED <<main, left, responder, poolVars, quit, queue, res, fdVars, server>>

(* ... or an error other than Error::Socket (a truncated frame) ...          *)
ReadOther ==
  /\ reader = "read"
  /\ reader' = "loop"
  /\ UNCHANGED <<main, left, responder, poolVars, quit, dataVars, fdVars, server>>

(* ... or Error::Socket: the peer or Server::disconnect has ended the input. *)
ReadSocketError ==
  /\ reader = "read"
  /\ quit' = TRUE /\ reader' = "ctl"
  /\ UNCHANGED <<main, left, responder, poolVars, dataVars, fdVars, server>>

(* workload_tx.send fails once every receiver is gone.                       *)
SendWorkload ==
  /\ reader = "send"
  /\ IF ControlRx \/ Workers > 0
     THEN queue' = queue + 1 /\ reader' = "loop" /\ UNCHANGED quit
     ELSE quit' = TRUE /\ reader' = "ctl" /\ UNCHANGED queue
  /\ UNCHANGED <<main, left, responder, poolVars, sent, res, fdVars, server>>

ReaderControl ==
  /\ reader = "ctl" /\ ControlSend
  /\ reader' = "done"
  /\ UNCHANGED <<left, responder, poolVars, quit, dataVars, fdVars, server>>

-----------------------------------------------------------------------------
(* start_method_handler_thread, one step per access to shared state.         *)
WorkerLoop ==
  /\ IF quit THEN Leave("loop") ELSE Move("loop", "add")
  /\ UNCHANGED <<main, left, reader, responder, wtc, quit, dataVars, fdVars, server>>

(* Mutant of WorkerAdd: one thread too many may wait.                        *)
WorkerAddOffByOne ==
  /\ Move("add", IF wtc > MaxWait THEN "over" ELSE "recv")
  /\ wtc' = wtc + 1
  /\ UNCHANGED <<main, left, reader, responder, quit, dataVars, fdVars, server>>

WorkerAdd ==
  /\ Move("add", IF wtc + 1 > MaxWait THEN "over" ELSE "recv")
  /\ wtc' = wtc + 1
  /\ UNCHANGED <<main, left, reader, responder, quit, dataVars, fdVars, server>>

(* Mutant of WorkerOver: the thread that is too many stays counted.          *)
WorkerOverCounted ==
  /\ Leave("over")
  /\ UNCHANGED <<main, left, reader, responder, wtc, quit, dataVars, fdVars, server>>

WorkerOver ==
  /\ Leave("over") /\ wtc' = wtc - 1
  /\ UNCHANGED <<main, left, reader, responder, quit, dataVars, fdVars, server>>

(* workload_rx.recv gives a frame, or an error when the reader has ended.    *)
WorkerRecv ==
  /\ queue > 0 /\ queue' = queue - 1
  /\ Move("recv", "woken")
  /\ UNCHANGED <<main, left, reader, responder, wtc, quit, sent, res, fdVars, server>>

WorkerRecvError ==
  /\ queue = 0 /\ reader = "done"
  /\ Move("recv", "closed")
  /\ UNCHANGED <<main, left, reader, responder, wtc, quit, dataVars, fdVars, server>>

(* Woken by a frame: when quit is set the frame is lost and the thread       *)
(* leaves, still counted; otherwise it takes itself off the waiting ones,    *)
(* and asks for a refill if too few are left.                                *)
WorkerWoken ==
  /\ Move("woken", IF quit THEN "quit" ELSE "taken")
  /\ UNCHANGED <<main, left, reader, responder, wtc, quit, dataVars, fdVars, server>>

WorkerTaken ==
  /\ wtc' = wtc - 1
  /\ Move("taken", IF wtc - 1 < MinWait THEN "notify" ELSE "handle")
  /\ UNCHANGED <<main, left, reader, responder, quit, dataVars, fdVars, server>>

(* Woken by the error: RecvErrorMeansQuit says that quit is set by then.     *)
WorkerClosed ==
  /\ Move("closed", "quit") /\ quit' = TRUE
  /\ UNCHANGED <<main, left, reader, responder, wtc, dataVars, fdVars, server>>

WorkerNotify ==
  /\ Move("notify", "handle") /\ ControlSend
  /\ UNCHANGED <<left, reader, responder, wtc, quit, dataVars, fdVars, server>>

(* The frame is answered: by the method's handler or with an error status.   *)
WorkerRespond ==
  /\ responder = "recv"
  /\ Move("handle", "loop") /\ res' = res + 1
  /\ UNCHANGED <<main, left, reader, responder, wtc, quit, sent, queue, fdVars, server>>

(* A frame that is no REQUEST is skipped.                                    *)
WorkerSkip ==
  /\ Move("handle", "loop")
  /\ UNCHANGED <<main, left, reader, responder, wtc, quit, dataVars, fdVars, server>>

(* The response cannot be sent or the handler fails: quit_connection.        *)
WorkerFails ==
  /\ Move("handle", "quit") /\ quit' = TRUE
  /\ UNCHANGED <<main, left, reader, responder, wtc, dataVars, fdVars, server>>

WorkerQuit ==
  /\ Leave("quit") /\ ControlSend
  /\ UNCHANGED <<left, reader, responder, wtc, quit, dataVars, fdVars, server>>

-----------------------------------------------------------------------------
(* The response thread: write what comes, set quit when that fails.          *)
WriteOk ==
  /\ responder = "recv" /\ res > 0 /\ res' = res - 1
  /\ UNCHANGED <<main, left, reader, responder, poolVars, quit, sent, queue, fdVars, server>>

WriteFails ==
  /\ responder = "recv" /\ res > 0
  /\ res' = 0 /\ quit' = TRUE /\ responder' = "done"
  /\ UNCHANGED <<main, left, reader, poolVars, sent, queue, fdVars, server>>

ResponderEnds ==
  /\ responder = "recv" /\ res = 0 /\ ~ControlRx /\ Workers = 0
  /\ responder' = "done"
  /\ UNCHANGED <<main, left, reader, poolVars, quit, dataVars, fdVars, server>>

-----------------------------------------------------------------------------
(* The listener thread inserts the connection and sends on sync_tx.          *)
Insert ==
  /\ inMap = "no" /\ inMap' = "yes"
  /\ UNCHANGED <<main, left, reader, responder, poolVars, quit, dataVars, reapMsg, fd, server>>

(* Server::disconnect, under the lock of connections: Connection::shutdown   *)
(* sets quit and then shuts the socket down for reading.                     *)
DisconnectQuit ==
  /\ server = "run" /\ inMap = "yes"
  /\ server' = "quit" /\ quit' = TRUE
  /\ UNCHANGED <<main, left, reader, responder, poolVars, dataVars, fdVars>>

DisconnectSocket ==
  /\ server = "quit" /\ server' = "done"
  /\ UNCHANGED <<main, left, reader, responder, poolVars, quit, dataVars, fdVars>>

(* The reaper: remove the entry, join client_handler, close the descriptor;  *)
(* an fd that is not in the map is ignored.                                  *)
Reap ==
  /\ reapMsg /\ server # "quit" /\ main = "end"
  /\ reapMsg' = FALSE
  /\ IF inMap = "yes" THEN inMap' = "removed" /\ fd' = "closed" ELSE UNCHANGED <<inMap, fd>>
  /\ UNCHANGED <<main, left, reader, responder, poolVars, quit, dataVars, server>>

-----------------------------------------------------------------------------
MainStep == Spawn \/ Spawned \/ MainLoop \/ CheckThreads \/ Join \/ NotifyReaper
ReaderStep == ReaderLoop \/ SendWorkload \/ ReaderControl
ResponderStep == WriteOk \/ WriteFails \/ ResponderEnds

Next ==
  \/ MainStep \/ ReaderStep \/ ReadFrame \/ ReadOther \/ ReadSocketError
  \/ WorkerLoop \/ WorkerAdd \/ WorkerOver \/ WorkerRecv \/ WorkerRecvError \/ WorkerWoken
  \/ WorkerTaken \/ WorkerClosed \/ WorkerNotify \/ WorkerRespond \/ WorkerSkip
  \/ WorkerFails \/ WorkerQuit \/ ResponderStep
  \/ Insert \/ DisconnectQuit \/ DisconnectSocket \/ Reap

Spec == Init /\ [][Next]_vars

(* The operating system schedules every runnable thread; method handlers     *)
(* return and the peer takes what is written, or the write fails.            *)
FairSpec ==
  /\ Spec
  /\ WF_vars(MainStep) /\ WF_vars(ReaderStep) /\ WF_vars(ResponderStep)
  /\ WF_vars(WorkerLoop) /\ WF_vars(WorkerAdd) /\ WF_vars(WorkerOver)
  /\ WF_vars(WorkerRecv \/ WorkerRecvError) /\ WF_vars(WorkerWoken) /\ WF_vars(WorkerTaken)
  /\ WF_vars(WorkerClosed)
  /\ WF_vars(WorkerNotify) /\ WF_vars(WorkerRespond \/ WorkerSkip \/ WorkerFails)
  /\ SF_vars(WorkerQuit) /\ SF_vars(ReaderControl)
  /\ WF_vars(Insert) /\ WF_vars(DisconnectSocket) /\ WF_vars(Reap)

-----------------------------------------------------------------------------
(* At most thread_count_max workers wait for a frame, however many are       *)
(* started or come back from a handler at once (server.rs:153-157).          *)
PoolBound == at["recv"] + at["woken"] + at["taken"] <= MaxWait

(* Until the connection quits, wtc is the number of waiting workers and of   *)
(* those that are about to take themselves off the count (server.rs:154-172).*)
CountExact == ~quit => wtc = at["recv"] + at["woken"] + at["taken"] + at["over"]

(* The workload channel is seen closed only after quit was set, so the       *)
(* recv-error branch never ends a live connection (server.rs:161-167, 200).  *)
RecvErrorMeansQuit == at["closed"] > 0 => quit

(* The descriptor is closed only when no thread reads or writes it any more: *)
(* the descriptor-reuse hazard of server.rs:682-684.                         *)
CloseAfterIO == fd = "closed" => reader = "done" /\ responder = "done"

(* Once the reader has told client_handler about the end of the input, the   *)
(* connection is taken down to the last step: threads joined, entry removed, *)
(* descriptor closed (server.rs:620-632, 664-684, 460-473).                  *)
HangupReaps == reader = "ctl" ~> fd = "closed"

(* A connection that has been told to quit is noticed by client_handler: it  *)
(* does not sleep in control_rx.recv with nobody left to wake it.            *)
QuitWakesMain == ~(main = "recv" /\ quit /\ reader = "done" /\ Workers = 0)
=============================================================================
