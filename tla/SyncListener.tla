----------------------------- MODULE SyncListener -----------------------------
(***************************************************************************)
(* The thread-based Server around its connections: start, stop_listen,     *)
(* disconnect and shutdown; the listener thread with its accept loop, the  *)
(* monitor pipe (Unix) or the connection event (Windows) that wakes it,    *)
(* the accept hook, the map of connections keyed by descriptor number, and *)
(* the reaper thread that joins a connection's threads and closes its      *)
(* descriptor. What happens inside one connection is module SyncServer;    *)
(* here its client_handler thread serves, ends and reports to the reaper.  *)
(*                                                                         *)
(* start() may be called again, on a running server or on one whose        *)
(* listener was stopped: each call starts another listener thread.         *)
(***************************************************************************)
EXTENDS Naturals, Sequences

CONSTANTS Conn,        \* connections that clients open
          Fd,          \* descriptor numbers
          MonitorFd,   \* the number of the monitor pipe's write end (Unix)
          MaxStarts,   \* bound: calls of start()
          None

ASSUME ConnAssumption == None \notin Conn /\ None \notin Fd /\ MonitorFd \in Fd
ASSUME StartAssumption == MaxStarts \in Nat

Thread == 1..MaxStarts

VARIABLES
  os, blocking,      \* "unix" or "windows"; may accept4 block? (add_listener)
  app, chained,      \* the call the application is in; is it shutdown()?
  starts, handler,   \* listener threads started; the one Server.handler joins
  quit,              \* listener_quit_flag
  monitor,           \* write end of the monitor pipe / handle of the event
  shutting_down,     \* PipeListener.shutting_down (Windows)
  event,             \* is connection_event signalled? (Windows)
  lpc, hand,         \* listener threads: control point, connection in hand
  reaper, server_tx, \* reaper thread; does the Server hold its reaper_tx?
  queue, reaping,    \* descriptors sent to the reaper; the one it works on
  stage, fdOf,       \* each connection and its descriptor number
  connections,       \* Server.connections: descriptor number -> connection
  shut,              \* connections told to quit by disconnect()
  owner, stray       \* the process's descriptors; was one closed under its owner?

appVars  == <<app, chained, starts, handler, quit>>
wakeVars == <<monitor, shutting_down, event>>
lisVars  == <<lpc, hand>>
reapVars == <<reaper, server_tx, queue, reaping>>
connVars == <<stage, fdOf, connections, shut>>
fdVars   == <<owner, stray>>
config   == <<os, blocking>>
vars == <<config, appVars, wakeVars, lisVars, reapVars, connVars, fdVars>>

(* A connection has a descriptor from accept until it is closed; serving and *)
(* ended ones have a client_handler thread with a reaper_tx of its own.      *)
OpenStage == {"accepted", "serving", "ended", "notified", "leaked"}
Running(t) == lpc[t] \notin {"none", "ended"}
HandlerAlive(c) == stage[c] \in {"serving", "ended"}

TypeOK ==
  /\ os \in {"unix", "windows"} /\ blocking \in BOOLEAN
  /\ app \in {"idle", "close", "handle", "join", "shut", "reap", "gone"}
  /\ chained \in BOOLEAN /\ starts \in 0..MaxStarts /\ handler \in 0..MaxStarts
  /\ quit \in BOOLEAN /\ monitor \in {"open", "closed"}
  /\ shutting_down \in BOOLEAN /\ event \in BOOLEAN
  /\ lpc \in [Thread -> {"none", "check", "accept", "accept4", "pending", "wait", "sleep",
                         "hook", "spawn", "insert", "ended"}]
  /\ hand \in [Thread -> Conn \cup {None}]
  /\ reaper \in {"none", "iter", "ended"} /\ server_tx \in BOOLEAN
  /\ queue \in Seq(Fd) /\ reaping \in Conn \cup {None}
  /\ stage \in [Conn -> {"away", "backlog", "closed"} \cup OpenStage]
  /\ fdOf \in [Conn -> Fd \cup {None}]
  /\ connections \in [Fd -> Conn \cup {None}] /\ shut \subseteq Conn
  /\ owner \in [Fd -> Conn \cup {None}] /\ stray \in BOOLEAN

(* A server built with bind(), whose socket does not block, or on Unix with  *)
(* add_listener(), which takes the application's socket as it is.            *)
Init ==
  /\ os \in {"unix", "windows"} /\ blocking \in {FALSE, os = "unix"}
  /\ app = "idle" /\ chained = FALSE /\ starts = 0 /\ handler = 0 /\ quit = FALSE
  /\ monitor = "open" /\ shutting_down = FALSE /\ event = TRUE
  /\ lpc = [t \in Thread |-> "none"] /\ hand = [t \in Thread |-> None]
  /\ reaper = "none" /\ server_tx = FALSE /\ queue = <<>> /\ reaping = None
  /\ stage = [c \in Conn |-> "away"] /\ fdOf = [c \in Conn |-> None]
  /\ connections = [f \in Fd |-> None] /\ shut = {}
  /\ owner = [f \in Fd |-> None] /\ stray = FALSE

(* close(2) of a number on behalf of w closes whatever has the number now;   *)
(* nothing happens, but for a warning, when nothing has it.                  *)
CloseNumber(f, w) ==
  /\ owner' = [owner EXCEPT ![f] = None]
  /\ stray' = (stray \/ owner[f] \notin {w, None})

-----------------------------------------------------------------------------
(* The application.                                                          *)

(* start / start_listen: reset the flag, start the reaper if there is none,  *)
(* and start a listener thread, whose JoinHandle replaces the previous one.  *)
Start ==
  /\ app = "idle" /\ starts < MaxStarts
  /\ starts' = starts + 1 /\ handler' = starts' /\ quit' = FALSE
  /\ reaper' = IF reaper = "none" THEN "iter" ELSE reaper
  /\ server_tx' = TRUE
  /\ lpc' = [lpc EXCEPT ![starts'] = "check"]
  /\ UNCHANGED <<config, app, chained, wakeVars, hand, queue, reaping, connVars, fdVars>>

(* stop_listen, alone or as the first half of shutdown: set the flag, ...    *)
StopListen ==
  /\ app = "idle"
  /\ app' = "close" /\ chained' \in BOOLEAN /\ quit' = TRUE
  /\ UNCHANGED <<config, starts, handler, wakeVars, lisVars, reapVars, connVars, fdVars>>

(* ... PipeListener::close: on Unix close the write end of the monitor pipe, *)
(* which is its number only the first time; on Windows set shutting_down and *)
(* signal the event, which fails once the handle is closed, ...              *)
Close ==
  /\ app = "close"
  /\ IF os = "unix"
     THEN /\ app' = "join" /\ monitor' = "closed" /\ UNCHANGED <<shutting_down, event>>
          /\ IF monitor = "open" THEN UNCHANGED fdVars ELSE CloseNumber(MonitorFd, None)
     ELSE /\ app' = "handle" /\ shutting_down' = TRUE
          /\ event' = (event \/ monitor = "open") /\ UNCHANGED <<monitor, fdVars>>
  /\ UNCHANGED <<config, chained, starts, handler, quit, lisVars, reapVars, connVars>>

(* ... and then close the event's handle, ...                                *)
CloseHandle ==
  /\ app = "handle"
  /\ app' = "join" /\ monitor' = "closed"
  /\ UNCHANGED <<config, chained, starts, handler, quit, shutting_down, event, lisVars,
                 reapVars, connVars, fdVars>>

(* ... and join the listener thread.                                         *)
JoinListener ==
  /\ app = "join" /\ (handler # 0 => lpc[handler] = "ended")
  /\ handler' = 0
  /\ app' = IF chained THEN "shut" ELSE "idle"
  /\ UNCHANGED <<config, chained, starts, quit, wakeVars, lisVars, reapVars, connVars, fdVars>>

(* disconnect, on its own.                                                   *)
Disconnect ==
  /\ app = "idle"
  /\ app' = "shut"
  /\ UNCHANGED <<config, chained, starts, handler, quit, wakeVars, lisVars, reapVars, connVars,
                 fdVars>>

(* Mutant of ShutAll: the Server's reaper_tx is kept.                        *)
ShutAllKeepsTx ==
  /\ app = "shut" /\ reaping = None
  /\ app' = "reap"
  /\ shut' = shut \cup {c \in Conn : \E f \in Fd : connections[f] = c}
  /\ UNCHANGED <<config, chained, starts, handler, quit, wakeVars, lisVars, reapVars, stage,
                 fdOf, connections, fdVars>>

(* Every connection in the map is told to quit, under the mutex; then the    *)
(* Server's reaper_tx is dropped ...                                         *)
ShutAll ==
  /\ app = "shut" /\ reaping = None
  /\ app' = "reap"
  /\ shut' = shut \cup {c \in Conn : \E f \in Fd : connections[f] = c}
  /\ server_tx' = FALSE
  /\ UNCHANGED <<config, chained, starts, handler, quit, wakeVars, lisVars, reaper, queue,
                 reaping, stage, fdOf, connections, fdVars>>

(* Mutant of JoinReaper: the reaper is detached instead of joined.           *)
JoinReaperNot ==
  /\ app = "reap"
  /\ app' = "gone"
  /\ UNCHANGED <<config, chained, starts, handler, quit, wakeVars, lisVars, reapVars, connVars,
                 fdVars>>

(* ... and the reaper joined.                                                *)
JoinReaper ==
  /\ app = "reap" /\ reaper # "iter"
  /\ app' = "gone"
  /\ UNCHANGED <<config, chained, starts, handler, quit, wakeVars, lisVars, reapVars, connVars,
                 fdVars>>

-----------------------------------------------------------------------------
(* The listener thread.                                                      *)
Move(t, to) == lpc' = [lpc EXCEPT ![t] = to]

(* Head of the loop: leave when the flag is set, dropping the reaper_tx.     *)
Check(t) ==
  /\ lpc[t] = "check"
  /\ Move(t, IF quit THEN "ended" ELSE "accept")
  /\ UNCHANGED <<config, appVars, wakeVars, hand, reapVars, connVars, fdVars>>

Backlog == {c \in Conn : stage[c] = "backlog"}
InUse ==
  {f \in Fd : owner[f] # None \/ (os = "unix" /\ monitor = "open" /\ f = MonitorFd)}

(* A connection is accepted under the lowest free number: any free one.      *)
Take(t, c, f) ==
  /\ c \in Backlog /\ f \in Fd \ InUse
  /\ Move(t, "hook")
  /\ hand' = [hand EXCEPT ![t] = c]
  /\ stage' = [stage EXCEPT ![c] = "accepted"] /\ fdOf' = [fdOf EXCEPT ![c] = f]
  /\ owner' = [owner EXCEPT ![f] = c]
  /\ UNCHANGED <<connections, shut, stray>>

Back(t) == Move(t, "check") /\ UNCHANGED <<hand, connVars>>

(* PipeListener::accept on Unix: poll waits for the monitor pipe and the     *)
(* listening socket; a hung-up monitor comes first and means no connection.  *)
PollMonitor(t) ==
  /\ os = "unix" /\ lpc[t] = "accept" /\ monitor = "closed"
  /\ Back(t)
  /\ UNCHANGED <<config, appVars, wakeVars, reapVars, fdVars>>

PollReady(t) ==
  /\ os = "unix" /\ lpc[t] = "accept" /\ monitor = "open" /\ Backlog # {}
  /\ Move(t, "accept4")
  /\ UNCHANGED <<config, appVars, wakeVars, hand, reapVars, connVars, fdVars>>

Accept4(t, c, f) ==
  /\ lpc[t] = "accept4"
  /\ Take(t, c, f)
  /\ UNCHANGED <<config, appVars, wakeVars, reapVars>>

(* poll was interrupted, or accept4 failed for a reason that is not a        *)
(* resource limit, for instance because another listener thread has taken    *)
(* the connection meanwhile and the socket does not block: try again.        *)
AcceptAgain(t) ==
  /\ os = "unix" /\ lpc[t] \in {"accept", "accept4"}
  /\ Back(t)
  /\ UNCHANGED <<config, appVars, wakeVars, reapVars, fdVars>>

(* A resource limit: sleep for accept_retry_interval, then try again.        *)
AcceptLimit(t) ==
  /\ lpc[t] = "accept4"
  /\ Move(t, "sleep")
  /\ UNCHANGED <<config, appVars, wakeVars, hand, reapVars, connVars, fdVars>>

Slept(t) ==
  /\ lpc[t] = "sleep"
  /\ Back(t)
  /\ UNCHANGED <<config, appVars, wakeVars, reapVars, fdVars>>

(* accept on Windows: a new pipe instance and an overlapped ConnectNamedPipe *)
(* that first clears the event. It fails when the handle has been closed.    *)
ConnectNamedPipe(t) ==
  /\ os = "windows" /\ lpc[t] = "accept"
  /\ IF monitor = "closed" THEN Move(t, "check") /\ UNCHANGED event
     ELSE Move(t, "pending") /\ event' = FALSE
  /\ UNCHANGED <<config, appVars, monitor, shutting_down, hand, reapVars, connVars, fdVars>>

(* GetOverlappedResult starts to wait for the event, unless its handle has   *)
(* been closed meanwhile.                                                    *)
AwaitEvent(t) ==
  /\ os = "windows" /\ lpc[t] = "pending"
  /\ Move(t, IF monitor = "closed" THEN "check" ELSE "wait")
  /\ UNCHANGED <<config, appVars, wakeVars, hand, reapVars, connVars, fdVars>>

(* handle_shutdown: the event was signalled by close().                      *)
EventShutdown(t) ==
  /\ os = "windows" /\ lpc[t] = "wait" /\ event
  /\ event' = FALSE
  /\ Back(t)
  /\ UNCHANGED <<config, appVars, monitor, shutting_down, reapVars, fdVars>>

(* A client connects. A server that is shutting down closes the instance.    *)
PipeConnected(t, c, f) ==
  /\ os = "windows" /\ lpc[t] \in {"pending", "wait"}
  /\ IF shutting_down
     THEN /\ c \in Backlog /\ f \in Fd \ InUse
          /\ Move(t, "check") /\ stage' = [stage EXCEPT ![c] = "closed"]
          /\ UNCHANGED <<hand, fdOf, connections, shut, fdVars>>
     ELSE Take(t, c, f)
  /\ UNCHANGED <<config, appVars, wakeVars, reapVars>>

(* connection_context_from_hook, on this thread: the hook accepts ...        *)
HookAccepts(t) ==
  /\ lpc[t] = "hook"
  /\ Move(t, "spawn")
  /\ UNCHANGED <<config, appVars, wakeVars, hand, reapVars, connVars, fdVars>>

(* ... or rejects (Unix only), and the descriptor is closed.                 *)
HookRejects(t) ==
  /\ os = "unix" /\ lpc[t] = "hook"
  /\ Move(t, "check") /\ hand' = [hand EXCEPT ![t] = None]
  /\ stage' = [stage EXCEPT ![hand[t]] = "closed"] /\ CloseNumber(fdOf[hand[t]], hand[t])
  /\ UNCHANGED <<config, appVars, wakeVars, reapVars, fdOf, connections, shut>>

Spawn(t) ==
  /\ lpc[t] = "spawn"
  /\ Move(t, "insert")
  /\ stage' = [stage EXCEPT ![hand[t]] = "serving"]
  /\ UNCHANGED <<config, appVars, wakeVars, hand, reapVars, fdOf, connections, shut, fdVars>>

(* No thread for client_handler: the connection is dropped, which closes it  *)
(* on Windows; PipeConnection has no Drop on Unix.                           *)
SpawnFails(t) ==
  /\ lpc[t] = "spawn"
  /\ Move(t, "check") /\ hand' = [hand EXCEPT ![t] = None]
  /\ IF os = "unix"
     THEN stage' = [stage EXCEPT ![hand[t]] = "leaked"] /\ UNCHANGED fdVars
     ELSE stage' = [stage EXCEPT ![hand[t]] = "closed"] /\ CloseNumber(fdOf[hand[t]], hand[t])
  /\ UNCHANGED <<config, appVars, wakeVars, reapVars, fdOf, connections, shut>>

(* The connection enters the map, in place of another one filed under its    *)
(* number, and sync_tx lets its handler report.                              *)
Insert(t) ==
  /\ lpc[t] = "insert" /\ reaping = None
  /\ Move(t, "check") /\ hand' = [hand EXCEPT ![t] = None]
  /\ connections' = [connections EXCEPT ![fdOf[hand[t]]] = hand[t]]
  /\ UNCHANGED <<config, appVars, wakeVars, reapVars, stage, fdOf, shut, fdVars>>

-----------------------------------------------------------------------------
(* Connections and the reaper.                                               *)

(* A client connects.                                                        *)
Arrive(c) ==
  /\ stage[c] = "away"
  /\ stage' = [stage EXCEPT ![c] = "backlog"]
  /\ UNCHANGED <<config, appVars, wakeVars, lisVars, reapVars, fdOf, connections, shut, fdVars>>

(* client_handler leaves its loop and has joined its threads: the client     *)
(* hung up, an error, or the connection was told to quit.                    *)
HandlerEnds(c) ==
  /\ stage[c] = "serving"
  /\ stage' = [stage EXCEPT ![c] = "ended"]
  /\ UNCHANGED <<config, appVars, wakeVars, lisVars, reapVars, fdOf, connections, shut, fdVars>>

(* Mutant of NotifyReaper: the handler does not wait for sync_rx.            *)
NotifyReaperEarly(c) ==
  /\ stage[c] = "ended"
  /\ stage' = [stage EXCEPT ![c] = "notified"] /\ queue' = Append(queue, fdOf[c])
  /\ UNCHANGED <<config, appVars, wakeVars, lisVars, reaper, server_tx, reaping, fdOf,
                 connections, shut, fdVars>>

(* It waits until it has been put into the map, sends its number and ends.   *)
NotifyReaper(c) ==
  /\ stage[c] = "ended" /\ \A t \in Thread : hand[t] # c
  /\ stage' = [stage EXCEPT ![c] = "notified"] /\ queue' = Append(queue, fdOf[c])
  /\ UNCHANGED <<config, appVars, wakeVars, lisVars, reaper, server_tx, reaping, fdOf,
                 connections, shut, fdVars>>

(* Mutant of ReapEntry: the entry is dropped; Connection has no Drop.        *)
ReapEntryDrops ==
  /\ reaper = "iter" /\ reaping = None /\ queue # <<>>
  /\ queue' = Tail(queue)
  /\ connections' = [connections EXCEPT ![Head(queue)] = None]
  /\ UNCHANGED <<config, appVars, wakeVars, lisVars, reaper, server_tx, reaping, stage, fdOf,
                 shut, fdVars>>

(* The reaper takes a number and removes its entry; it keeps the mutex until *)
(* it has joined the handler and closed the descriptor. A number without an  *)
(* entry is ignored.                                                         *)
ReapEntry ==
  /\ reaper = "iter" /\ reaping = None /\ queue # <<>>
  /\ queue' = Tail(queue)
  /\ reaping' = connections[Head(queue)]
  /\ connections' = [connections EXCEPT ![Head(queue)] = None]
  /\ UNCHANGED <<config, appVars, wakeVars, lisVars, reaper, server_tx, stage, fdOf, shut,
                 fdVars>>

ReapClose ==
  /\ reaping # None /\ stage[reaping] = "notified"
  /\ reaping' = None
  /\ stage' = [stage EXCEPT ![reaping] = "closed"] /\ CloseNumber(fdOf[reaping], reaping)
  /\ UNCHANGED <<config, appVars, wakeVars, lisVars, reaper, server_tx, queue, fdOf,
                 connections, shut>>

(* The senders to the reaper: the Server's, those of the listener threads    *)
(* and those of the client_handler threads.                                  *)
ReaperTx ==
  server_tx \/ (\E t \in Thread : Running(t)) \/ (\E c \in Conn : HandlerAlive(c))

(* reaper_rx.iter() ends.                                                    *)
ReaperEnds ==
  /\ reaper = "iter" /\ reaping = None /\ queue = <<>> /\ ~ReaperTx
  /\ reaper' = "ended"
  /\ UNCHANGED <<config, appVars, wakeVars, lisVars, server_tx, queue, reaping, connVars,
                 fdVars>>

-----------------------------------------------------------------------------
AppStep == Close \/ CloseHandle \/ JoinListener \/ ShutAll \/ JoinReaper

(* Is a listener thread inside an accept4 that blocks?                       *)
Blocked(t) == blocking /\ lpc[t] = "accept4" /\ Backlog = {}

AcceptReturns(t) ==
  /\ lpc[t] = "accept4" /\ ~Blocked(t)
  /\ AcceptLimit(t) \/ AcceptAgain(t) \/ \E c \in Conn, f \in Fd : Accept4(t, c, f)

ListenerStep(t) ==
  \/ Check(t) \/ PollMonitor(t) \/ Slept(t) \/ AcceptReturns(t)
  \/ ConnectNamedPipe(t) \/ AwaitEvent(t) \/ EventShutdown(t)
  \/ Spawn(t) \/ Insert(t)

ReaperStep == ReapEntry \/ ReapClose \/ ReaperEnds

Next ==
  \/ Start \/ StopListen \/ Disconnect \/ AppStep
  \/ \E t \in Thread :
       \/ ListenerStep(t) \/ PollReady(t) \/ AcceptAgain(t) \/ AcceptLimit(t)
       \/ HookAccepts(t) \/ HookRejects(t) \/ SpawnFails(t)
       \/ \E c \in Conn, f \in Fd : PipeConnected(t, c, f)
  \/ \E c \in Conn : Arrive(c) \/ HandlerEnds(c) \/ NotifyReaper(c)
  \/ ReaperStep

Spec == Init /\ [][Next]_vars

(* Threads are scheduled and sleeps end. Clients, accept errors, the hook,   *)
(* the end of a connection and the application's next call are free.         *)
FairSpec ==
  /\ Spec
  /\ WF_vars(AppStep) /\ WF_vars(ReaperStep)
  /\ \A t \in Thread : WF_vars(ListenerStep(t))
  /\ \A c \in Conn : WF_vars(NotifyReaper(c))

-----------------------------------------------------------------------------
(* An entry is filed under the number its connection still has open, a       *)
(* number in the queue has an entry whose handler is done, a handler that is *)
(* done is queued or being reaped, and whoever has a number has it open.     *)
Agreement ==
  /\ \A f \in Fd : connections[f] # None =>
       fdOf[connections[f]] = f /\ stage[connections[f]] \in {"serving", "ended", "notified"}
  /\ \A k \in 1..Len(queue) :
       connections[queue[k]] # None /\ stage[connections[queue[k]]] = "notified"
  /\ \A c \in Conn : stage[c] = "notified" =>
       reaping = c \/ \E k \in 1..Len(queue) : queue[k] = fdOf[c]
  /\ \A c \in Conn : stage[c] \in OpenStage => owner[fdOf[c]] = c

(* The map, the reaper's queue and the process's descriptors agree although  *)
(* numbers are reused: no descriptor is lost or closed under its             *)
(* connection's threads (server.rs:463-475, 679-704). The one thing that     *)
(* breaks it is a second close of the monitor pipe's number, on Unix, after  *)
(* the first: reaper, listener threads and hook close nothing but their own. *)
ReapExact ==
  /\ TypeOK
  /\ ~stray => Agreement
  /\ stray => os = "unix" /\ monitor = "closed"

(* When disconnect() has returned, every accepted connection is closed and   *)
(* its threads are gone, whatever the listener threads were doing and        *)
(* whatever numbers were closed twice; only those for which no thread could  *)
(* be started are still open (server.rs:767-798, 706).                       *)
GoneMeansClosed ==
  app = "gone" =>
    /\ \A f \in Fd : owner[f] # None => stage[owner[f]] = "leaked"
    /\ \A c \in Conn : stage[c] \in {"away", "backlog", "notified", "closed", "leaked"}
    /\ \A t \in Thread : ~Running(t)

(* A connection whose handler has left its loop is reaped and its descriptor *)
(* closed, whatever the listener threads, disconnect() and the other         *)
(* connections do (server.rs:463-475, 679-704).                              *)
EndedIsReaped == \A c \in Conn : stage[c] = "ended" ~> (stage[c] = "closed" \/ stray)

(* stop_listen() returns on Unix whatever the clients do, unless a hook      *)
(* keeps the listener thread, or an accept4 on a socket that blocks.         *)
StopEnds ==
  (os = "unix" /\ app = "join") ~>
    (app # "join" \/ \E t \in Thread : lpc[t] = "hook" \/ Blocked(t))

(* disconnect() returns when no listener thread runs, also if the clients    *)
(* stay connected, provided that every connection that is told to quit does: *)
(* a connection that does not (QuitWakesMain of module SyncServer) hangs it. *)
DisconnectEnds ==
  (\A c \in Conn : c \in shut ~> stage[c] # "serving") =>
    ((app = "shut" /\ \A t \in Thread : ~Running(t)) ~> (app = "gone" \/ stray))

(* stop_listen() wakes and joins the listener thread, and disconnect() waits *)
(* for nothing but the connections it told to quit (server.rs:740-812).      *)
CallsReturn == StopEnds /\ DisconnectEnds
=============================================================================
