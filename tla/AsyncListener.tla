--------------------------- MODULE AsyncListener ---------------------------
(***************************************************************************)
(* The asynchronous Server: its listeners, the accept tasks it spawns, the *)
(* accept hook that runs on the blocking pool, and the calls start,        *)
(* stop_listen, disconnect and shutdown (src/asynchronous/server.rs,       *)
(* src/asynchronous/transport, ServerExtensionConfig::on_accept).          *)
(*                                                                         *)
(* The calls take &mut self, so one call is under way at a time; each of   *)
(* its awaits is a step boundary at which its future may also be dropped.  *)
(* Accept tasks, connection tasks and hooks run concurrently with it.      *)
(* What happens inside a connection that is served is AsyncServer's; the   *)
(* notifier and its waiters are Shutdown's, used here by their promise: a  *)
(* waiter counts from its creation until it is dropped.                    *)
(***************************************************************************)
EXTENDS Naturals, Sequences, FiniteSets, FiniteSetsExt, SequencesExt

CONSTANTS
  Listeners,  \* the listeners added to the server before its first start
  Custom,     \* those built by Listener::new: no raw fd, the stream may end
  Conn,       \* peers, each connects once
  Fd,         \* descriptor numbers free for accepted sockets and duplicates
  PoolSize,   \* threads of the blocking pool
  MaxStarts,  \* bound on the calls of start that spawn an accept task
  None

ASSUME ListenerAssumption ==
  /\ IsFiniteSet(Listeners) /\ Custom \subseteq Listeners
  /\ IsFiniteSet(Conn)
  /\ Fd \subseteq Nat /\ None \notin Conn \union Listeners \union Nat
  /\ PoolSize \in Nat \ {0} /\ MaxStarts \in Nat \ {0}

Task == 1..MaxStarts

VARIABLES
  hook,       \* whether set_accept_hook was called
  listeners,  \* Server.listeners
  tx,         \* Server.stop_listen_tx: the accept task it leads to, or None
  op,         \* the call under way
  svc,        \* where the call under way is
  shutdown,   \* the server's Notifier has been shut down
  task,       \* state of each accept task; "ended": its stream ended by itself
  held,       \* the listener an accept task owns, or None
  req,        \* stop request of a task: none, sent, or its reply end dropped
  handed,     \* the listener in the reply channel of stop_listen, or None
  backlog,    \* connections the kernel holds for a listener
  conn,       \* stage of each connection
  sock, dup,  \* descriptor of the socket, and the one the hook owns
  fdOwner,    \* descriptor table: the connection a number refers to
  blk,        \* the hook's blocking task
  drained     \* history: wait_all_exit saw no waiter, no start since

call  == <<op, svc, shutdown>>
hookv == <<dup, blk>>
vars  == <<hook, listeners, tx, call, task, held, req, handed, backlog, conn,
           sock, fdOwner, hookv, drained>>

Init ==
  /\ hook \in BOOLEAN
  /\ listeners \in SetToSeqs(Listeners)
  /\ tx = None /\ op = "idle" /\ svc = "idle" /\ shutdown = FALSE
  /\ task = [t \in Task |-> "none"]
  /\ held = [t \in Task |-> None]
  /\ req = [t \in Task |-> "none"]
  /\ handed = None
  /\ backlog = [l \in Listeners |-> <<>>]
  /\ conn = [k \in Conn |-> "new"]
  /\ sock = [k \in Conn |-> None] /\ dup = [k \in Conn |-> None]
  /\ fdOwner = [n \in Fd |-> None]
  /\ blk = [k \in Conn |-> "none"]
  /\ drained = FALSE

----------------------------------------------------------------------------
\* Mutant: the waiter is cloned by the connection's task, not before it.
WithWaiterLate == {"hook", "served"}

\* The connections in a stage that keeps a Waiter of the server alive: the
\* clone made for the connection's task moves on into its ServerBuilder.
WithWaiter == {"accepted", "hook", "served"}

\* What wait_all_exit counts: every accept task holds a Waiter for its life.
Waiters == Cardinality({t \in Task : task[t] = "loop"})
             + Cardinality({k \in Conn : conn[k] \in WithWaiter})

FreeFds == {n \in Fd : fdOwner[n] = None}

\* Closing descriptors: the numbers may be given out again from here on.
Freed(ns) == [n \in Fd |-> IF n \in ns THEN None ELSE fdOwner[n]]

\* Dropping listeners resets the connections the kernel still holds for them.
DropListeners(ls) ==
  /\ conn' = [k \in Conn |-> IF \E l \in ls : k \in Range(backlog[l])
                             THEN "gone" ELSE conn[k]]
  /\ backlog' = [l \in Listeners |-> IF l \in ls THEN <<>> ELSE backlog[l]]

\* A listener is open while the server, a task or the reply channel owns it.
Open(l) == \/ l \in Range(listeners)
           \/ \E t \in Task : held[t] = l
           \/ handed = l

----------------------------------------------------------------------------
(* The peers. *)
Connect(k, l) ==
  /\ conn[k] = "new" /\ Open(l)
  /\ conn' = [conn EXCEPT ![k] = "queued"]
  /\ backlog' = [backlog EXCEPT ![l] = Append(@, k)]
  /\ UNCHANGED <<hook, listeners, tx, call, task, held, req, handed, sock,
                 fdOwner, hookv, drained>>

----------------------------------------------------------------------------
(* Server::start.  Without a listener it only returns an error.            *)
(* The stop sender of an earlier start is replaced, that is, dropped.      *)
Start ==
  /\ svc = "idle" /\ listeners # <<>>
  /\ \E t \in Task :
       /\ task[t] = "none" /\ \A u \in 1..(t - 1) : task[u] # "none"
       /\ task' = [task EXCEPT ![t] = "loop"]
       /\ held' = [held EXCEPT ![t] = Last(listeners)]
       /\ tx' = t
  /\ listeners' = Front(listeners)
  /\ drained' = FALSE
  /\ UNCHANGED <<hook, call, req, handed, backlog, conn, sock, fdOwner, hookv>>

\* stop_listen up to its first await.  Without a running accept task behind
\* the sender, tx.send(..).await.unwrap() panics.
SendStop(next) ==
  /\ tx' = None
  /\ IF task[tx] = "loop"
     THEN /\ req' = [req EXCEPT ![tx] = "sent"] /\ svc' = "stop"
     ELSE /\ svc' = "panicked" /\ UNCHANGED req
  /\ op' = next
  /\ UNCHANGED <<hook, listeners, shutdown, task, held, handed, backlog, conn,
                 sock, fdOwner, hookv, drained>>

StopListen == svc = "idle" /\ tx # None /\ SendStop("stop_listen")

\* The stop request that was answered; one whose caller gave up stays so.
Answered == [t \in Task |-> IF req[t] = "sent" THEN "none" ELSE req[t]]

\* Mutant: the returned listener is pushed before the vector is cleared.
StopReceivesClears ==
  /\ svc = "stop" /\ handed # None
  /\ DropListeners(Range(listeners) \union {handed})
  /\ listeners' = <<>>
  /\ handed' = None
  /\ req' = Answered
  /\ svc' = IF op = "shutdown" THEN "notify" ELSE "idle"
  /\ op' = IF op = "shutdown" THEN op ELSE "idle"
  /\ UNCHANGED <<hook, tx, shutdown, task, held, sock, fdOwner, hookv, drained>>

\* The accept task returned the listener: it becomes the only one kept.
StopReceives ==
  /\ svc = "stop" /\ handed # None
  /\ DropListeners(Range(listeners))
  /\ listeners' = <<handed>>
  /\ handed' = None
  /\ req' = Answered
  /\ svc' = IF op = "shutdown" THEN "notify" ELSE "idle"
  /\ op' = IF op = "shutdown" THEN op ELSE "idle"
  /\ UNCHANGED <<hook, tx, shutdown, task, held, sock, fdOwner, hookv, drained>>

\* The task ended with the request unread: recv().await.unwrap() panics.
StopPanics ==
  /\ svc = "stop" /\ handed = None
  /\ \E t \in Task : req[t] = "sent" /\ task[t] # "loop"
  /\ svc' = "panicked"
  /\ UNCHANGED <<hook, listeners, tx, op, shutdown, task, held, req, handed,
                 backlog, conn, sock, fdOwner, hookv, drained>>

Disconnect ==
  /\ svc = "idle" /\ op' = "disconnect" /\ svc' = "notify"
  /\ UNCHANGED <<hook, listeners, tx, shutdown, task, held, req, handed,
                 backlog, conn, sock, fdOwner, hookv, drained>>

Shutdown ==
  /\ svc = "idle"
  /\ \/ tx # None /\ SendStop("shutdown")
     \/ /\ tx = None /\ op' = "shutdown" /\ svc' = "notify"
        /\ UNCHANGED <<hook, listeners, tx, shutdown, task, held, req, handed,
                       backlog, conn, sock, fdOwner, hookv, drained>>

\* disconnect: the notifier is never reset, whatever is started later.
Notify ==
  /\ svc = "notify" /\ shutdown' = TRUE /\ svc' = "wait"
  /\ UNCHANGED <<hook, listeners, tx, op, task, held, req, handed, backlog,
                 conn, sock, fdOwner, hookv, drained>>

\* Only a call of shutdown goes on to drop its listener.
Finish ==
  /\ svc' = "idle" /\ op' = "idle"
  /\ IF op = "shutdown" /\ listeners # <<>>
     THEN DropListeners({Last(listeners)}) /\ listeners' = Front(listeners)
     ELSE UNCHANGED <<conn, backlog, listeners>>
  /\ UNCHANGED <<hook, tx, shutdown, task, held, req, handed, sock, fdOwner,
                 hookv>>

AllExited == svc = "wait" /\ Waiters = 0 /\ Finish /\ drained' = TRUE

\* DEFAULT_SERVER_SHUTDOWN_TIMEOUT
Elapsed == svc = "wait" /\ Finish /\ UNCHANGED drained

\* The caller drops the future of the call at one of its awaits.
Cancel ==
  /\ svc \in {"stop", "wait"}
  /\ svc' = "idle" /\ op' = "idle"
  /\ req' = [t \in Task |-> IF req[t] = "sent" THEN "dropped" ELSE req[t]]
  /\ DropListeners({handed} \ {None})
  /\ handed' = None
  /\ UNCHANGED <<hook, listeners, tx, shutdown, task, held, sock, fdOwner,
                 hookv, drained>>

\* Dropping the Server, by the owner or by the panic of one of its calls.
DropServer ==
  /\ svc \in {"idle", "panicked"}
  /\ svc' = "dropped" /\ op' = "idle"
  /\ shutdown' = TRUE
  /\ DropListeners(Range(listeners))
  /\ listeners' = <<>> /\ tx' = None
  /\ UNCHANGED <<hook, task, held, req, handed, sock, fdOwner, hookv, drained>>

----------------------------------------------------------------------------
(* The accept task: select! over incoming.next() and stop_listen_rx.recv(). *)
HasRawFd(t) == held[t] \notin Custom

Accept(t) ==
  /\ task[t] = "loop" /\ backlog[held[t]] # <<>>
  /\ LET k == Head(backlog[held[t]]) IN
       /\ conn' = [conn EXCEPT ![k] = "accepted"]
       /\ IF HasRawFd(t)
          THEN /\ FreeFds # {}
               /\ sock' = [sock EXCEPT ![k] = Min(FreeFds)]
               /\ fdOwner' = [fdOwner EXCEPT ![Min(FreeFds)] = k]
          ELSE UNCHANGED <<sock, fdOwner>>
  /\ backlog' = [backlog EXCEPT ![held[t]] = Tail(@)]
  /\ UNCHANGED <<hook, listeners, tx, call, task, held, req, handed, hookv,
                 drained>>

\* accept() fails for this connection: logged, and the loop goes on.
AcceptFails(t) ==
  /\ task[t] = "loop" /\ backlog[held[t]] # <<>>
  /\ conn' = [conn EXCEPT ![Head(backlog[held[t]])] = "gone"]
  /\ backlog' = [backlog EXCEPT ![held[t]] = Tail(@)]
  /\ UNCHANGED <<hook, listeners, tx, call, task, held, req, handed, sock,
                 fdOwner, hookv, drained>>

\* The task ends and what it still owns is dropped.
TaskEnds(t, how) ==
  /\ task' = [task EXCEPT ![t] = how]
  /\ held' = [held EXCEPT ![t] = None]
  /\ UNCHANGED <<hook, listeners, tx, call, sock, fdOwner, hookv, drained>>

\* incoming.next() is None: only a custom listener's stream ever ends.
StreamEnds(t) ==
  /\ task[t] = "loop" /\ held[t] \in Custom
  /\ TaskEnds(t, "ended") /\ DropListeners({held[t]}) /\ UNCHANGED <<req, handed>>

\* A stop request arrives: fd_tx.send(incoming).  If the caller gave up, the
\* send fails, its unwrap panics and the listener is dropped with the task.
TakeStop(t) ==
  /\ task[t] = "loop" /\ req[t] # "none"
  /\ TaskEnds(t, "done")
  /\ IF req[t] = "sent"
     THEN handed' = held[t] /\ UNCHANGED <<conn, backlog, req>>
     ELSE DropListeners({held[t]}) /\ UNCHANGED <<handed, req>>

\* The stop sender was dropped by a later start or with the server.
StopClosed(t) ==
  /\ task[t] = "loop" /\ tx # t /\ req[t] = "none"
  /\ TaskEnds(t, "done") /\ DropListeners({held[t]}) /\ UNCHANGED <<req, handed>>

----------------------------------------------------------------------------
(* The task of one accepted connection and its hook. *)

\* Dropping the Socket of connection k.
Close(k) ==
  /\ conn' = [conn EXCEPT ![k] = "gone"]
  /\ sock' = [sock EXCEPT ![k] = None]

KeepServer == UNCHANGED <<hook, listeners, tx, call, task, held, req, handed,
                          backlog, drained>>

\* spawn_connection_handler
Serve(k) == conn' = [conn EXCEPT ![k] = "served"] /\ UNCHANGED <<sock, fdOwner>>

\* Without a hook the connection is served at once.
NoHook(k) ==
  /\ conn[k] = "accepted" /\ ~hook
  /\ Serve(k) /\ UNCHANGED hookv /\ KeepServer

\* A socket without a raw fd, or whose fd cannot be duplicated, is rejected.
HookUnusable(k) == sock[k] = None \/ FreeFds = {}

HookRefuses(k) ==
  /\ conn[k] = "accepted" /\ hook /\ HookUnusable(k)
  /\ Close(k) /\ fdOwner' = Freed({sock[k]})
  /\ UNCHANGED hookv /\ KeepServer

\* Mutant: the hook gets the socket's own number.
DupFdSame(k) == sock[k]

\* The number handed to the hook, and the table with it open.
DupFd(k) == Min(FreeFds)

StartHook(k) ==
  /\ conn[k] = "accepted" /\ hook /\ ~HookUnusable(k)
  /\ conn' = [conn EXCEPT ![k] = "hook"]
  /\ dup' = [dup EXCEPT ![k] = DupFd(k)]
  /\ fdOwner' = [fdOwner EXCEPT ![DupFd(k)] = k]
  /\ blk' = [blk EXCEPT ![k] = "queued"]
  /\ UNCHANGED sock /\ KeepServer

\* A thread of the blocking pool takes the closure.
RunHook(k) ==
  /\ blk[k] = "queued"
  /\ Cardinality({j \in Conn : blk[j] = "running"}) < PoolSize
  /\ blk' = [blk EXCEPT ![k] = "running"]
  /\ UNCHANGED <<conn, sock, dup, fdOwner>> /\ KeepServer

\* AcceptHook::on_accept returns or panics; the guard closes the duplicate.
HookReturns(k) ==
  /\ blk[k] = "running"
  /\ \E r \in {"ok", "err"} : blk' = [blk EXCEPT ![k] = r]
  /\ dup' = [dup EXCEPT ![k] = None]
  /\ fdOwner' = Freed({dup[k]})
  /\ UNCHANGED <<conn, sock>> /\ KeepServer

HookResult(k) ==
  /\ conn[k] = "hook" /\ blk[k] \in {"ok", "err"}
  /\ IF blk[k] = "ok" THEN Serve(k)
     ELSE Close(k) /\ fdOwner' = Freed({sock[k]})
  /\ UNCHANGED hookv /\ KeepServer

\* Mutant: the timeout joins a hook that runs instead of leaving it behind.
HookTimeoutJoins(k) ==
  /\ conn[k] = "hook" /\ blk[k] # "running"
  /\ Close(k)
  /\ IF blk[k] = "queued"
     THEN /\ blk' = [blk EXCEPT ![k] = "aborted"]
          /\ dup' = [dup EXCEPT ![k] = None]
          /\ fdOwner' = Freed({sock[k], dup[k]})
     ELSE UNCHANGED hookv /\ fdOwner' = Freed({sock[k]})
  /\ KeepServer

\* ACCEPT_HOOK_TIMEOUT: abort cancels a closure still queued, and has no
\* effect on one that runs or has run.
HookTimeout(k) ==
  /\ conn[k] = "hook"
  /\ Close(k)
  /\ IF blk[k] = "queued"
     THEN /\ blk' = [blk EXCEPT ![k] = "aborted"]
          /\ dup' = [dup EXCEPT ![k] = None]
          /\ fdOwner' = Freed({sock[k], dup[k]})
     ELSE UNCHANGED hookv /\ fdOwner' = Freed({sock[k]})
  /\ KeepServer

\* Connection::run ends on its own (the peer, the transport) or because the
\* server's notifier was shut down.
ConnEnds(k) ==
  /\ conn[k] = "served"
  /\ Close(k) /\ fdOwner' = Freed({sock[k]})
  /\ UNCHANGED hookv /\ KeepServer

ConnShutdown(k) == shutdown /\ ConnEnds(k)

----------------------------------------------------------------------------
CallStep == StopReceives \/ StopPanics \/ Notify \/ AllExited \/ Elapsed
ApiCall  == Start \/ StopListen \/ Disconnect \/ Shutdown \/ Cancel \/ DropServer
TaskStep(t) == TakeStop(t) \/ StopClosed(t)
ConnStep(k) == \/ NoHook(k) \/ HookRefuses(k) \/ StartHook(k)
               \/ HookResult(k) \/ HookTimeout(k)

Next ==
  \/ CallStep
  \/ ApiCall
  \/ \E t \in Task : Accept(t) \/ AcceptFails(t) \/ StreamEnds(t) \/ TaskStep(t)
  \/ \E k \in Conn : \/ ConnStep(k) \/ RunHook(k) \/ HookReturns(k)
                     \/ ConnEnds(k) \/ ConnShutdown(k)
                     \/ \E l \in Listeners : Connect(k, l)

Spec == Init /\ [][Next]_vars

(* The runtime polls every ready future: the steps of a call, the branch of *)
(* select! that reads a stop request or a closed channel (select! picks     *)
(* among ready branches at random), accepting, the tasks of connections and *)
(* the timers.  Nothing makes a hook return or a peer hang up.              *)
FairSpec ==
  /\ Spec
  /\ WF_vars(CallStep)
  /\ \A t \in Task : WF_vars(TaskStep(t)) /\ WF_vars(Accept(t) \/ AcceptFails(t))
  /\ \A k \in Conn : WF_vars(ConnStep(k)) /\ WF_vars(ConnShutdown(k))

----------------------------------------------------------------------------
(* Properties. *)

ConnStage == {"new", "queued", "accepted", "hook", "served", "gone"}

TypeOK ==
  /\ hook \in BOOLEAN /\ shutdown \in BOOLEAN /\ drained \in BOOLEAN
  /\ listeners \in Seq(Listeners)
  /\ tx \in Task \union {None}
  /\ op \in {"idle", "stop_listen", "disconnect", "shutdown"}
  /\ svc \in {"idle", "stop", "notify", "wait", "panicked", "dropped"}
  /\ task \in [Task -> {"none", "loop", "done", "ended"}]
  /\ held \in [Task -> Listeners \union {None}]
  /\ req \in [Task -> {"none", "sent", "dropped"}]
  /\ handed \in Listeners \union {None}
  /\ backlog \in [Listeners -> Seq(Conn)]
  /\ conn \in [Conn -> ConnStage]
  /\ sock \in [Conn -> Fd \union {None}] /\ dup \in [Conn -> Fd \union {None}]
  /\ fdOwner \in [Fd -> Conn \union {None}]
  /\ blk \in [Conn -> {"none", "queued", "running", "ok", "err", "aborted"}]

\* stop_listen preserves the listener.  Its two unwrap()s panic only when a
\* custom listener's stream ended by itself: no order of start, second start,
\* stop_listen, cancellation and restart leaves stop_listen_tx leading to an
\* accept task that is gone.  And between two calls a server that has neither
\* a listener nor the sender of an accept task was shut down, or the stop of
\* its latest start was cancelled half way; no other interleaving of a call
\* and the accept tasks leaves it without one to start from.
ListenerKept ==
  /\ TypeOK
  /\ svc = "panicked" => \E t \in Task : task[t] = "ended"
  /\ svc = "idle" /\ tx = None /\ listeners = <<>> /\ Listeners # {} =>
       \/ shutdown
       \/ \E t \in Task : /\ req[t] = "dropped"
                         /\ \A u \in Task : u > t => task[u] = "none"

\* disconnect and shutdown, when they return before the timeout, leave no
\* accept task, no connection and no connection still in its accept hook:
\* the waiter is cloned before the connection's task is spawned, so there is
\* no moment at which an accepted connection is not counted.
NothingLeft ==
  drained => /\ \A t \in Task : task[t] # "loop"
             /\ \A k \in Conn : conn[k] \notin {"accepted", "hook", "served"}

\* The hook decides about its own connection.  The number it works on refers
\* to that connection for as long as the hook runs, also after the timeout
\* dropped the connection and its socket's number was given to another one;
\* an open number belongs to a live socket or to a hook that has not returned;
\* and no timeout, missing descriptor or pool exhaustion lets a connection be
\* served that its hook has not accepted.
HookSound ==
  /\ \A k \in Conn : blk[k] \in {"queued", "running"} => fdOwner[dup[k]] = k
  /\ \A n \in Fd : fdOwner[n] # None => n \in {sock[fdOwner[n]], dup[fdOwner[n]]}
  /\ \A k \in Conn : hook /\ conn[k] = "served" => blk[k] = "ok"

\* Every call comes to an end, by returning or by a panic, whatever hooks and
\* peers do: stop_listen because the accept task reads its request, disconnect
\* because its wait is bounded.  And once the server is dropped or shut down,
\* every connection it accepted ends, also when its hook never returns.
ShutdownEnds ==
  /\ (svc \in {"stop", "notify", "wait"}) ~> (svc \in {"idle", "panicked"})
  /\ \A k \in Conn : (shutdown /\ conn[k] \in WithWaiter) ~> conn[k] = "gone"
============================================================================
