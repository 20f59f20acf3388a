--------------------------- MODULE SyncListenerProofs ---------------------------
(* Proofs about SyncListener, for any set of connections and descriptor      *)
(* numbers and any number of start() calls.                                  *)
EXTENDS SyncListener, TLAPS

-----------------------------------------------------------------------------
(* The inductive invariant. What the properties say about the map, the queue *)
(* and the reaper rests on who owns a connection before it enters the map.   *)
Holding == {"hook", "spawn", "insert"}
Mapped == {"serving", "ended", "notified"}

Hands ==
  /\ \A t \in Thread : lpc[t] \in Holding <=> hand[t] # None
  /\ \A t \in Thread : lpc[t] \in {"hook", "spawn"} => stage[hand[t]] = "accepted"
  /\ \A t \in Thread : lpc[t] = "insert" =>
       /\ stage[hand[t]] \in {"serving", "ended"} /\ reaping # hand[t]
       /\ \A f \in Fd : connections[f] # hand[t]
  /\ \A t, u \in Thread : hand[t] # None /\ hand[t] = hand[u] => t = u
  /\ \A c \in Conn : stage[c] = "accepted" =>
       \E t \in Thread : hand[t] = c /\ lpc[t] \in {"hook", "spawn"}

(* A connection is filed under its own number until it or another one with   *)
(* that number is reaped.                                                    *)
Filed ==
  /\ \A c \in Conn : stage[c] \in OpenStage => fdOf[c] \in Fd
  /\ \A f \in Fd : connections[f] # None =>
       /\ fdOf[connections[f]] = f /\ stage[connections[f]] \in Mapped
       /\ stage[connections[f]] = "notified" => \E k \in 1..Len(queue) : queue[k] = f
  /\ reaping # None => stage[reaping] \in Mapped /\ \A f \in Fd : connections[f] # reaping

(* Whoever has a descriptor, there is someone who will close its number.     *)
Owned ==
  \A f \in Fd : owner[f] # None =>
    /\ fdOf[owner[f]] = f /\ stage[owner[f]] \in OpenStage
    /\ \/ stage[owner[f]] = "leaked" \/ connections[f] # None
       \/ \E t \in Thread : hand[t] = owner[f]
       \/ reaping # None /\ fdOf[reaping] = f

(* While no descriptor was closed under its owner the numbers in the queue   *)
(* are different, and what is being reaped is done.                          *)
Queued ==
  ~stray =>
    /\ \A j, k \in 1..Len(queue) : queue[j] = queue[k] => j = k
    /\ reaping # None => stage[reaping] = "notified"

Reaper ==
  /\ reaper # "iter" => queue = <<>> /\ reaping = None
  /\ reaper = "ended" => app \in {"reap", "gone"}
  /\ reaper = "none" => starts = 0
  /\ app = "gone" => reaper # "iter"
  /\ app \notin {"reap", "gone"} /\ reaper # "none" => server_tx
  /\ \A t \in Thread : t > starts => lpc[t] = "none"
  /\ ((\E t \in Thread : Running(t)) \/ (\E c \in Conn : HandlerAlive(c))) => reaper = "iter"

(* The part of ReapExact that the other conjuncts need.                      *)
Exact ==
  /\ TypeOK
  /\ ~stray => Agreement
IInv == Exact /\ Hands /\ Filed /\ Owned /\ Queued /\ Reaper

(* Open descriptors have different numbers.                                  *)
LEMMA Distinct ==
  ASSUME IInv, ~stray, NEW c \in Conn, NEW d \in Conn,
         stage[c] \in OpenStage, stage[d] \in OpenStage, fdOf[c] = fdOf[d]
  PROVE  c = d
  BY DEF IInv, Exact, Agreement

(* close(2) of a number.                                                     *)
LEMMA Closing ==
  ASSUME TypeOK, NEW f \in Fd, NEW w, CloseNumber(f, w)
  PROVE  /\ owner' \in [Fd -> Conn \cup {None}] /\ stray' \in BOOLEAN
         /\ owner'[f] = None /\ \A g \in Fd : g # f => owner'[g] = owner[g]
         /\ ~stray' => ~stray /\ owner[f] \in {w, None}
  <1>1. owner' \in [Fd -> Conn \cup {None}] /\ owner'[f] = None
        /\ \A g \in Fd : g # f => owner'[g] = owner[g]
    BY DEF CloseNumber, TypeOK
  <1>2. stray' \in BOOLEAN
    BY Zenon DEF CloseNumber
  <1>3. ~stray' => ~stray /\ owner[f] \in {w, None}
    BY Zenon DEF CloseNumber
  <1> QED BY <1>1, <1>2, <1>3

-----------------------------------------------------------------------------
(* The steps that move no connection: the calls of the application ...       *)
LEMMA AppSteps ==
  ASSUME IInv, \/ StopListen \/ Close \/ CloseHandle \/ JoinListener \/ Disconnect
               \/ ShutAll \/ JoinReaper
  PROVE  IInv'
  <1>1. UNCHANGED <<os, blocking, starts, lpc, hand, reaper, queue, reaping, stage, fdOf,
                    connections>>
    BY DEF StopListen, Close, CloseHandle, JoinListener, Disconnect, ShutAll, JoinReaper,
           lisVars, reapVars, connVars, config
  <1>2. \/ UNCHANGED fdVars
        \/ CloseNumber(MonitorFd, None)
    BY DEF StopListen, Close, CloseHandle, JoinListener, Disconnect, ShutAll, JoinReaper, fdVars
  <1>3. /\ owner' \in [Fd -> Conn \cup {None}] /\ stray' \in BOOLEAN
        /\ \A f \in Fd : owner'[f] \in {owner[f], None}
        /\ ~stray' => ~stray /\ \A f \in Fd : owner'[f] = owner[f]
    <2>0. TypeOK
      BY DEF IInv, Exact
    <2>1. CASE UNCHANGED fdVars
      BY <2>0, <2>1 DEF fdVars, TypeOK
    <2>2. CASE CloseNumber(MonitorFd, None)
      BY <2>0, <2>2, Closing, ConnAssumption
    <2> QED BY <1>2, <2>1, <2>2
  <1>t. TypeOK'
    <2> USE DEF IInv, Exact, TypeOK, StopListen, Close, CloseHandle, JoinListener,
                Disconnect, ShutAll, JoinReaper, wakeVars, reapVars, connVars
    <2>1. app' \in {"idle", "close", "handle", "join", "shut", "reap", "gone"}
      OBVIOUS
    <2>2. handler' \in 0..MaxStarts /\ monitor' \in {"open", "closed"} /\ shut' \subseteq Conn
      BY StartAssumption
    <2>3. shutting_down' \in BOOLEAN /\ event' \in BOOLEAN
      BY Zenon
    <2>4. chained' \in BOOLEAN /\ quit' \in BOOLEAN /\ server_tx' \in BOOLEAN
      BY Zenon
    <2> QED BY <1>1, <1>3, <2>1, <2>2, <2>3, <2>4 DEF TypeOK
  <1>4. Exact'
    <2>1. \A c \in Conn : stage[c] \in OpenStage => fdOf[c] \in Fd
      BY DEF IInv, Filed
    <2> QED BY <1>1, <1>3, <1>t, <2>1 DEF IInv, Exact, Agreement
  <1>5. Hands' /\ Filed' /\ Queued'
    BY <1>1, <1>3 DEF IInv, Hands, Filed, Queued
  <1>6. Owned'
    BY <1>1, <1>3 DEF IInv, Owned
  <1>7. Reaper'
    BY <1>1 DEF IInv, Reaper, Running, HandlerAlive, StopListen, Close, CloseHandle,
                JoinListener, Disconnect, ShutAll, JoinReaper, reapVars
  <1> QED BY <1>4, <1>5, <1>6, <1>7 DEF IInv

(* ... and those of a listener thread that take or hand over no connection.  *)
LEMMA ListenerMoves ==
  ASSUME IInv, NEW t \in Thread,
         \/ Check(t) \/ PollMonitor(t) \/ PollReady(t) \/ AcceptAgain(t) \/ AcceptLimit(t)
         \/ Slept(t) \/ ConnectNamedPipe(t) \/ AwaitEvent(t) \/ EventShutdown(t)
         \/ HookAccepts(t)
  PROVE  IInv'
  <1>1. /\ UNCHANGED <<os, blocking, app, chained, starts, handler, quit, monitor, shutting_down,
                       hand, reaper, server_tx, queue, reaping, stage, fdOf, connections, shut,
                       owner, stray>>
        /\ event' = event \/ event' = FALSE
    BY DEF Check, PollMonitor, PollReady, AcceptAgain, AcceptLimit, Slept, ConnectNamedPipe,
           AwaitEvent, EventShutdown, HookAccepts, Back, appVars, wakeVars, reapVars, connVars,
           fdVars, config
  <1>2. PICK to : /\ lpc' = [lpc EXCEPT ![t] = to]
                  /\ \/ /\ lpc[t] \notin Holding
                        /\ to \in {"check", "accept", "accept4", "pending", "wait", "sleep", "ended"}
                     \/ lpc[t] = "hook" /\ to = "spawn"
    BY DEF Check, PollMonitor, PollReady, AcceptAgain, AcceptLimit, Slept, ConnectNamedPipe,
           AwaitEvent, EventShutdown, HookAccepts, Move, Back, Holding
  <1>3. Running(t)
    BY DEF Check, PollMonitor, PollReady, AcceptAgain, AcceptLimit, Slept, ConnectNamedPipe,
           AwaitEvent, EventShutdown, HookAccepts, Running
  <1>4. TypeOK'
    <2>1. event' \in BOOLEAN
      BY <1>1, Zenon DEF IInv, Exact, Agreement, TypeOK
    <2> QED BY <1>1, <1>2, <2>1 DEF IInv, Exact, Agreement, TypeOK
  <1>5. Exact' /\ Filed' /\ Owned' /\ Queued'
    BY <1>1, <1>4 DEF IInv, Exact, Agreement, Filed, Owned, Queued
  <1>6. Hands'
    BY <1>1, <1>2 DEF IInv, Hands, Holding, Exact, TypeOK
  <1>7. Reaper'
    BY <1>1, <1>2, <1>3 DEF IInv, Reaper, Running, HandlerAlive, Exact, TypeOK
  <1> QED BY <1>5, <1>6, <1>7 DEF IInv

(* A listener thread starts.                                                 *)
LEMMA StartStep ==
  ASSUME IInv, Start PROVE IInv'
  <1>1. /\ starts' = starts + 1 /\ starts' \in Thread
        /\ lpc' = [lpc EXCEPT ![starts'] = "check"] /\ lpc[starts'] = "none"
        /\ UNCHANGED <<app, hand, queue, reaping, stage, fdOf, connections, owner, stray>>
    BY StartAssumption DEF Start, IInv, Exact, Agreement, TypeOK, Reaper, Thread, connVars, fdVars
  <1>2. reaper' = "iter" /\ server_tx' /\ app = "idle"
    BY DEF Start, IInv, Exact, Agreement, TypeOK, Reaper
  <1>3. TypeOK'
    <2>1. starts' \in 0..MaxStarts /\ handler' \in 0..MaxStarts
      BY <1>1, StartAssumption DEF Start, Thread
    <2>2. server_tx' \in BOOLEAN /\ quit' \in BOOLEAN
      BY Zenon DEF Start
    <2>3. UNCHANGED <<os, blocking, app, chained, monitor, shutting_down, event, shut>>
      BY DEF Start, connVars, wakeVars, config
    <2> QED BY <1>1, <1>2, <2>1, <2>2, <2>3 DEF IInv, Exact, Agreement, TypeOK
  <1>4. Exact' /\ Filed' /\ Owned' /\ Queued'
    BY <1>1, <1>3 DEF IInv, Exact, Agreement, Filed, Owned, Queued
  <1>5. Hands'
    BY <1>1 DEF IInv, Hands, Holding, Exact, TypeOK
  <1>6. Reaper'
    BY <1>1, <1>2, <1>3 DEF IInv, Reaper, Exact, TypeOK, Thread
  <1> QED BY <1>4, <1>5, <1>6 DEF IInv

-----------------------------------------------------------------------------
(* A connection is taken under a free number.                                *)
LEMMA TakeStep ==
  ASSUME IInv, NEW t \in Thread, NEW c \in Conn, NEW f \in Fd,
         Running(t), lpc[t] \notin Holding, Take(t, c, f),
         UNCHANGED <<config, appVars, wakeVars, reapVars>>
  PROVE  IInv'
  <1> USE ConnAssumption DEF Take, Move, Backlog
  <1>1. /\ stage[c] = "backlog" /\ stage' = [stage EXCEPT ![c] = "accepted"]
        /\ fdOf' = [fdOf EXCEPT ![c] = f] /\ lpc' = [lpc EXCEPT ![t] = "hook"]
        /\ hand' = [hand EXCEPT ![t] = c] /\ owner' = [owner EXCEPT ![f] = c]
        /\ owner[f] = None
        /\ UNCHANGED <<app, starts, reaper, server_tx, queue, reaping, connections, stray>>
    BY DEF appVars, reapVars, InUse
  <1>2. TypeOK'
    BY DEF IInv, Exact, TypeOK, OpenStage, appVars, wakeVars, reapVars, config
  <1>3. hand[t] = None /\ \A u \in Thread : hand[u] # c
    BY <1>1 DEF IInv, Hands, Holding, Exact, TypeOK
  <1>4. \A g \in Fd : connections[g] # c /\ owner[g] # c
    BY <1>1 DEF IInv, Filed, Owned, Mapped, OpenStage
  <1>5. reaping # c
    BY <1>1 DEF IInv, Filed, Mapped
  <1>6. Exact'
    <2> SUFFICES ASSUME ~stray PROVE Exact'
      BY <1>1, <1>2 DEF Exact, Agreement
    <2>1. \A d \in Conn : stage[d] \in OpenStage => fdOf[d] # f
      BY <1>1 DEF IInv, Exact, Agreement
    <2>2. \A d \in Conn : stage'[d] \in OpenStage => owner'[fdOf'[d]] = d
      <3> SUFFICES ASSUME NEW d \in Conn, stage'[d] \in OpenStage PROVE owner'[fdOf'[d]] = d
        OBVIOUS
      <3>1. CASE d = c
        BY <1>1, <3>1 DEF IInv, Exact, Agreement, TypeOK
      <3>2. CASE d # c
        BY <1>1, <2>1, <3>2 DEF IInv, Exact, Agreement, TypeOK, Filed
      <3> QED BY <3>1, <3>2
    <2>3. /\ \A g \in Fd : connections'[g] # None =>
               /\ fdOf'[connections'[g]] = g
               /\ stage'[connections'[g]] \in {"serving", "ended", "notified"}
          /\ \A k \in 1..Len(queue') :
               connections'[queue'[k]] # None /\ stage'[connections'[queue'[k]]] = "notified"
      BY <1>1, <1>4 DEF IInv, Exact, Agreement, TypeOK
    <2>4. \A d \in Conn : stage'[d] = "notified" =>
            reaping' = d \/ \E k \in 1..Len(queue') : queue'[k] = fdOf'[d]
      BY <1>1 DEF IInv, Exact, Agreement, TypeOK
    <2> QED BY <1>2, <2>2, <2>3, <2>4 DEF Exact, Agreement
  <1>7. Hands'
    BY <1>1, <1>3, <1>4 DEF IInv, Hands, Holding, Exact, TypeOK
  <1>8. Filed' /\ Queued'
    BY <1>1, <1>4, <1>5 DEF IInv, Filed, Queued, Mapped, Exact, Agreement, TypeOK, OpenStage
  <1>9. Owned'
    <2> SUFFICES ASSUME NEW g \in Fd, owner'[g] # None
                 PROVE  /\ fdOf'[owner'[g]] = g /\ stage'[owner'[g]] \in OpenStage
                        /\ \/ stage'[owner'[g]] = "leaked" \/ connections'[g] # None
                           \/ \E u \in Thread : hand'[u] = owner'[g]
                           \/ reaping' # None /\ fdOf'[reaping'] = g
      BY DEF Owned
    <2>1. CASE g = f
      BY <1>1, <2>1 DEF IInv, Exact, Agreement, TypeOK, OpenStage
    <2>2. CASE g # f
      BY <1>1, <1>3, <1>4, <1>5, <2>2 DEF IInv, Owned, Exact, Agreement, TypeOK
    <2> QED BY <2>1, <2>2
  <1>10. Reaper'
    BY <1>1 DEF IInv, Reaper, Running, HandlerAlive, Exact, TypeOK
  <1> QED BY <1>6, <1>7, <1>8, <1>9, <1>10 DEF IInv

(* A connection whose pipe is closed at once, or that arrives, or is served, *)
(* or ends: its stage changes among those that no other thread relies on.    *)
LEMMA StageStep ==
  ASSUME IInv, NEW c \in Conn, NEW s \in {"backlog", "closed", "ended"},
         stage' = [stage EXCEPT ![c] = s],
         \/ s \in {"backlog", "closed"} /\ stage[c] \in {"away", "backlog"}
         \/ s = "ended" /\ stage[c] = "serving",
         UNCHANGED <<config, appVars, wakeVars, reapVars, hand, fdOf, connections, shut, fdVars>>,
         TypeOK', Hands',
         \A t \in Thread : (Running(t)' <=> Running(t)) /\ (lpc[t] = "none" => lpc'[t] = "none")
  PROVE  IInv'
  <1>1. UNCHANGED <<app, starts, reaper, server_tx, queue, reaping, owner, stray>>
    BY DEF appVars, reapVars, fdVars
  <1>2. Filed' /\ Queued'
    BY <1>1 DEF IInv, Filed, Queued, Mapped, Exact, Agreement, TypeOK, OpenStage
  <1>3. Owned'
    BY <1>1 DEF IInv, Owned, Exact, Agreement, TypeOK, OpenStage
  <1>4. Exact'
    BY <1>1 DEF IInv, Exact, Agreement, TypeOK, OpenStage
  <1>5. Reaper'
    BY <1>1 DEF IInv, Reaper, HandlerAlive, Exact, TypeOK
  <1> QED BY <1>2, <1>3, <1>4, <1>5 DEF IInv

(* A listener thread hands its connection over: it is rejected, or its       *)
(* handler cannot be spawned, or is spawned.                                 *)
LEMMA HandOver ==
  ASSUME IInv, NEW t \in Thread, HookRejects(t) \/ SpawnFails(t) \/ Spawn(t)
  PROVE  IInv'
  <1> DEFINE c == hand[t]
  <1> USE ConnAssumption DEF Move
  <1>1. /\ lpc[t] \in {"hook", "spawn"} /\ c \in Conn /\ stage[c] = "accepted" /\ Running(t)
        /\ fdOf[c] \in Fd
        /\ UNCHANGED <<os, blocking, app, chained, starts, handler, quit, monitor, shutting_down,
                       event, reaper, server_tx, queue, reaping, fdOf, connections, shut>>
    BY DEF IInv, Hands, Holding, Filed, OpenStage, Exact, TypeOK, HookRejects, SpawnFails,
           Spawn, Running, appVars, wakeVars, reapVars, config
  <1>2. PICK to, s, h : /\ lpc' = [lpc EXCEPT ![t] = to] /\ hand' = [hand EXCEPT ![t] = h]
                        /\ stage' = [stage EXCEPT ![c] = s]
                        /\ \/ to = "check" /\ h = None /\ s = "closed" /\ CloseNumber(fdOf[c], c)
                           \/ to = "check" /\ h = None /\ s = "leaked" /\ UNCHANGED fdVars
                           \/ to = "insert" /\ h = c /\ s = "serving" /\ UNCHANGED fdVars
    <2>1. hand = [hand EXCEPT ![t] = c]
      BY DEF IInv, Exact, Agreement, TypeOK
    <2>2. CASE HookRejects(t)
      BY <2>2 DEF HookRejects
    <2>3. CASE SpawnFails(t)
      BY <2>3 DEF SpawnFails
    <2>4. CASE Spawn(t)
      BY <2>1, <2>4 DEF Spawn
    <2> QED BY <2>2, <2>3, <2>4
  <1>3. /\ owner' \in [Fd -> Conn \cup {None}] /\ stray' \in BOOLEAN
        /\ \A g \in Fd : g # fdOf[c] => owner'[g] = owner[g]
        /\ owner'[fdOf[c]] = IF s = "closed" THEN None ELSE owner[fdOf[c]]
        /\ ~stray' => ~stray
    <2>0. TypeOK
      BY DEF IInv, Exact
    <2>1. CASE s = "closed"
      BY <1>1, <1>2, <2>0, <2>1, Closing
    <2>2. CASE s # "closed"
      BY <1>2, <2>0, <2>2 DEF fdVars, TypeOK
    <2> QED BY <2>1, <2>2
  <1> HIDE DEF c
  <1>4. \A g \in Fd : connections[g] # c
    BY <1>1 DEF IInv, Filed, Mapped
  <1>5. reaping # c
    BY <1>1 DEF IInv, Filed, Mapped
  <1>6. TypeOK'
    BY <1>1, <1>2, <1>3 DEF IInv, Exact, TypeOK, OpenStage
  <1>7. Exact'
    <2> SUFFICES ASSUME ~stray, ~stray' PROVE Exact'
      BY <1>3, <1>6 DEF Exact, Agreement
    <2>1. \A d \in Conn : stage'[d] \in OpenStage => owner'[fdOf'[d]] = d
      <3> SUFFICES ASSUME NEW d \in Conn, stage'[d] \in OpenStage PROVE owner'[fdOf[d]] = d
        BY <1>1
      <3>1. stage[d] \in OpenStage /\ owner[fdOf[d]] = d /\ fdOf[d] \in Fd
        BY <1>1, <1>2 DEF IInv, Exact, Agreement, TypeOK, Filed, OpenStage
      <3>2. CASE d = c
        BY <1>1, <1>2, <1>3, <3>1, <3>2 DEF IInv, Exact, Agreement, TypeOK, OpenStage
      <3>3. CASE d # c
        BY <1>1, <1>3, <3>1, <3>3 DEF IInv, Exact, Agreement, OpenStage
      <3> QED BY <3>2, <3>3
    <2> QED BY <1>1, <1>2, <1>4, <1>6, <2>1 DEF IInv, Exact, Agreement, TypeOK
  <1>8. Hands'
    BY <1>1, <1>2, <1>4, <1>5 DEF IInv, Hands, Holding, Exact, TypeOK, c
  <1>9. Filed' /\ Queued'
    BY <1>1, <1>2, <1>3, <1>4, <1>5 DEF IInv, Filed, Queued, Mapped, OpenStage, Exact, Agreement,
                                             TypeOK
  <1>10. Owned'
    <2> SUFFICES ASSUME NEW g \in Fd, owner'[g] # None
                 PROVE  /\ fdOf[owner'[g]] = g /\ stage'[owner'[g]] \in OpenStage
                        /\ \/ stage'[owner'[g]] = "leaked" \/ connections[g] # None
                           \/ \E u \in Thread : hand'[u] = owner'[g]
                           \/ reaping # None /\ fdOf[reaping] = g
      BY <1>1 DEF Owned
    <2>1. owner'[g] = owner[g] /\ owner[g] \in Conn /\ fdOf[owner[g]] = g
      BY <1>3 DEF IInv, Owned, Exact, Agreement, TypeOK
    <2>2. CASE owner[g] = c
      <3>1. s # "closed"
        BY <1>3, <2>1, <2>2
      <3> QED BY <1>1, <1>2, <2>1, <2>2, <3>1 DEF IInv, Exact, Agreement, TypeOK, OpenStage
    <2>3. CASE owner[g] # c
      <3>1. stage'[owner[g]] = stage[owner[g]]
        BY <1>2, <2>1, <2>3 DEF IInv, Exact, Agreement, TypeOK
      <3>2. \A u \in Thread : hand[u] = owner[g] => hand'[u] = owner[g]
        BY <1>2, <2>3 DEF IInv, Exact, Agreement, TypeOK, c
      <3> QED BY <2>1, <3>1, <3>2 DEF IInv, Owned
    <2> QED BY <2>2, <2>3
  <1>11. Reaper'
    BY <1>1, <1>2 DEF IInv, Reaper, Running, HandlerAlive, Exact, TypeOK
  <1> QED BY <1>7, <1>8, <1>9, <1>10, <1>11 DEF IInv

(* The connection enters the map.                                            *)
LEMMA InsertStep ==
  ASSUME IInv, NEW t \in Thread, Insert(t)
  PROVE  IInv'
  <1> DEFINE c == hand[t]
  <1> USE ConnAssumption DEF Insert, Move
  <1>1. /\ lpc[t] = "insert" /\ c \in Conn /\ stage[c] \in {"serving", "ended"} /\ Running(t)
        /\ fdOf[c] \in Fd /\ (\A g \in Fd : connections[g] # c) /\ reaping = None
    BY DEF IInv, Hands, Holding, Exact, TypeOK, Running, Filed, OpenStage
  <1>2. /\ lpc' = [lpc EXCEPT ![t] = "check"] /\ hand' = [hand EXCEPT ![t] = None]
        /\ connections' = [connections EXCEPT ![fdOf[c]] = c]
        /\ UNCHANGED <<os, blocking, app, chained, starts, handler, quit, monitor, shutting_down,
                       event, reaper, server_tx, queue, reaping, stage, fdOf, shut, owner, stray>>
    BY DEF appVars, wakeVars, reapVars, fdVars, config
  <1>3. ~stray => connections[fdOf[c]] = None
    BY <1>1 DEF IInv, Exact, Agreement, TypeOK, OpenStage
  <1>4. TypeOK'
    BY <1>1, <1>2 DEF IInv, Exact, TypeOK
  <1>5. Exact'
    BY <1>1, <1>2, <1>3, <1>4 DEF IInv, Exact, Agreement, TypeOK
  <1>6. Hands'
    BY <1>1, <1>2 DEF IInv, Hands, Holding, Exact, TypeOK
  <1>7. Filed' /\ Queued'
    BY <1>1, <1>2 DEF IInv, Filed, Mapped, Queued, Exact, Agreement, TypeOK
  <1>8. Owned'
    <2> SUFFICES ASSUME NEW g \in Fd, owner[g] # None
                 PROVE  \/ stage[owner[g]] = "leaked" \/ connections'[g] # None
                        \/ \E u \in Thread : hand'[u] = owner[g]
      BY <1>1, <1>2 DEF IInv, Owned
    <2>1. CASE owner[g] = c
      BY <1>1, <1>2, <2>1 DEF IInv, Owned, Exact, Agreement, TypeOK
    <2>2. CASE owner[g] # c
      <3>1. \A u \in Thread : hand[u] = owner[g] => hand'[u] = owner[g]
        BY <1>2, <2>2 DEF IInv, Exact, Agreement, TypeOK
      <3>2. connections[g] # None => connections'[g] # None
        BY <1>1, <1>2 DEF IInv, Exact, Agreement, TypeOK
      <3> QED BY <1>1, <3>1, <3>2 DEF IInv, Owned
    <2> QED BY <2>1, <2>2
  <1>9. Reaper'
    BY <1>1, <1>2 DEF IInv, Reaper, Running, HandlerAlive, Exact, TypeOK
  <1> QED BY <1>5, <1>6, <1>7, <1>8, <1>9 DEF IInv

-----------------------------------------------------------------------------
(* The handler reports to the reaper.                                        *)
LEMMA NotifyStep ==
  ASSUME IInv, NEW c \in Conn, NotifyReaper(c)
  PROVE  IInv'
  <1> USE ConnAssumption DEF NotifyReaper
  <1>1. /\ stage[c] = "ended" /\ fdOf[c] \in Fd /\ \A t \in Thread : hand[t] # c
        /\ stage' = [stage EXCEPT ![c] = "notified"] /\ queue' = Append(queue, fdOf[c])
        /\ UNCHANGED <<os, blocking, app, chained, starts, handler, quit, monitor, shutting_down,
                       event, lpc, hand, reaper, server_tx, reaping, fdOf, connections, shut,
                       owner, stray>>
    BY DEF IInv, Filed, OpenStage, appVars, wakeVars, lisVars, fdVars, config
  <1>2. /\ queue \in Seq(Fd) /\ queue' \in Seq(Fd) /\ Len(queue') = Len(queue) + 1
        /\ Len(queue) \in Nat /\ queue'[Len(queue) + 1] = fdOf[c]
        /\ \A k \in 1..Len(queue) : queue'[k] = queue[k] /\ k \in 1..Len(queue')
        /\ Len(queue) + 1 \in 1..Len(queue')
    BY <1>1 DEF IInv, Exact, Agreement, TypeOK
  <1>3. TypeOK'
    BY <1>1, <1>2 DEF IInv, Exact, TypeOK, OpenStage
  (* Its entry is there, and its number is not in the queue yet.             *)
  <1>4. ~stray => /\ connections[fdOf[c]] = c
                  /\ \A k \in 1..Len(queue) : queue[k] # fdOf[c]
    <2> SUFFICES ASSUME ~stray PROVE /\ connections[fdOf[c]] = c
                                     /\ \A k \in 1..Len(queue) : queue[k] # fdOf[c]
      OBVIOUS
    <2>1. owner[fdOf[c]] = c
      BY <1>1 DEF IInv, Exact, Agreement, OpenStage
    <2>2. connections[fdOf[c]] # None
      <3>1. reaping # None => fdOf[reaping] # fdOf[c]
        BY <1>1, <2>1 DEF IInv, Exact, Agreement, TypeOK, Queued, OpenStage
      <3> QED BY <1>1, <2>1, <3>1 DEF IInv, Owned
    <2>3. connections[fdOf[c]] = c
      BY <1>1, <2>1, <2>2 DEF IInv, Exact, Agreement, TypeOK, OpenStage
    <2> QED BY <1>1, <2>3 DEF IInv, Exact, Agreement
  <1>5. Exact'
    <2> SUFFICES ASSUME ~stray PROVE Exact'
      BY <1>1, <1>3 DEF Exact, Agreement
    <2>1. \A g \in Fd : connections'[g] # None =>
            /\ fdOf'[connections'[g]] = g
            /\ stage'[connections'[g]] \in {"serving", "ended", "notified"}
      BY <1>1 DEF IInv, Exact, Agreement, TypeOK
    <2>2. \A k \in 1..Len(queue') :
            connections'[queue'[k]] # None /\ stage'[connections'[queue'[k]]] = "notified"
      BY <1>1, <1>2, <1>4 DEF IInv, Exact, Agreement, TypeOK
    <2>3. \A d \in Conn : stage'[d] = "notified" =>
            reaping' = d \/ \E k \in 1..Len(queue') : queue'[k] = fdOf'[d]
      BY <1>1, <1>2 DEF IInv, Exact, Agreement, TypeOK
    <2>4. \A d \in Conn : stage'[d] \in OpenStage => owner'[fdOf'[d]] = d
      BY <1>1 DEF IInv, Exact, Agreement, TypeOK, OpenStage
    <2> QED BY <1>3, <2>1, <2>2, <2>3, <2>4 DEF Exact, Agreement
  <1>6. Hands'
    BY <1>1 DEF IInv, Hands, Holding, Exact, TypeOK
  <1>7. Filed'
    <2>1. \A d \in Conn : stage'[d] \in OpenStage => fdOf[d] \in Fd
      BY <1>1 DEF IInv, Filed, Exact, Agreement, TypeOK, OpenStage
    <2>2. ASSUME NEW g \in Fd, connections[g] # None
          PROVE  /\ fdOf[connections[g]] = g /\ stage'[connections[g]] \in Mapped
                 /\ stage'[connections[g]] = "notified" => \E k \in 1..Len(queue') : queue'[k] = g
      <3>1. connections[g] \in Conn /\ fdOf[connections[g]] = g /\ stage[connections[g]] \in Mapped
        BY <2>2 DEF IInv, Filed, Exact, Agreement, TypeOK
      <3>2. CASE connections[g] = c
        BY <1>1, <1>2, <3>1, <3>2 DEF Mapped, IInv, Exact, Agreement, TypeOK
      <3>3. CASE connections[g] # c
        BY <1>1, <1>2, <2>2, <3>1, <3>3 DEF IInv, Filed, Exact, Agreement, TypeOK
      <3> QED BY <3>2, <3>3
    <2>3. reaping # None => stage'[reaping] \in Mapped /\ \A f \in Fd : connections[f] # reaping
      BY <1>1 DEF IInv, Filed, Mapped, Exact, Agreement, TypeOK
    <2> QED BY <1>1, <2>1, <2>2, <2>3 DEF Filed
  <1>8. Owned'
    BY <1>1 DEF IInv, Owned, Exact, Agreement, TypeOK, OpenStage
  <1>9. Queued'
    BY <1>1, <1>2, <1>4 DEF IInv, Queued, Exact, Agreement, TypeOK
  <1>10. Reaper'
    <2>1. reaper = "iter"
      BY <1>1 DEF IInv, Reaper, HandlerAlive
    <2> QED BY <1>1, <2>1 DEF IInv, Reaper, Running, HandlerAlive, Exact, TypeOK
  <1> QED BY <1>5, <1>6, <1>7, <1>8, <1>9, <1>10 DEF IInv

(* The reaper takes the first number of its queue.                           *)
LEMMA ReapEntryStep ==
  ASSUME IInv, ReapEntry
  PROVE  IInv'
  <1> DEFINE f == Head(queue)
             c == connections[f]
  <1> USE ConnAssumption DEF ReapEntry
  <1>1. /\ queue \in Seq(Fd) /\ Len(queue) \in Nat \ {0} /\ f = queue[1] /\ f \in Fd
        /\ reaper = "iter" /\ reaping = None /\ 1 \in 1..Len(queue)
    BY DEF IInv, Exact, Agreement, TypeOK
  <1>2. /\ queue' \in Seq(Fd) /\ Len(queue') = Len(queue) - 1
        /\ \A k \in 1..Len(queue') : queue'[k] = queue[k + 1]
    BY <1>1
  <1>3. /\ reaping' = c /\ connections' = [connections EXCEPT ![f] = None]
        /\ UNCHANGED <<os, blocking, app, chained, starts, handler, quit, monitor, shutting_down,
                       event, lpc, hand, reaper, server_tx, stage, fdOf, shut, owner, stray>>
    BY DEF appVars, wakeVars, lisVars, fdVars, config
  <1>4. /\ c \in Conn \cup {None}
        /\ c # None => fdOf[c] = f /\ stage[c] \in Mapped
        /\ ~stray => c # None /\ stage[c] = "notified"
    BY <1>1 DEF IInv, Filed, Exact, Agreement, TypeOK
  <1>5. ~stray => \A k \in 1..Len(queue') : queue'[k] # f
    BY <1>1, <1>2 DEF IInv, Queued
  <1>6. c # None => /\ \A t \in Thread : lpc[t] = "insert" => hand[t] # c
                    /\ \A g \in Fd : g # f => connections[g] # c
    BY <1>1, <1>4 DEF IInv, Hands, Filed
  <1> HIDE DEF f, c
  <1>7. \A j \in 1..Len(queue) : j # 1 => j - 1 \in 1..Len(queue') /\ queue'[j - 1] = queue[j]
    BY <1>1, <1>2
  <1>8. TypeOK'
    BY <1>1, <1>2, <1>3, <1>4 DEF IInv, Exact, TypeOK
  <1>9. Exact'
    <2> SUFFICES ASSUME ~stray PROVE Exact'
      BY <1>3, <1>8 DEF Exact, Agreement
    <2>1. \A g \in Fd : connections'[g] # None =>
            /\ fdOf'[connections'[g]] = g
            /\ stage'[connections'[g]] \in {"serving", "ended", "notified"}
      BY <1>1, <1>3 DEF IInv, Exact, Agreement, TypeOK
    <2>2. \A k \in 1..Len(queue') :
            connections'[queue'[k]] # None /\ stage'[connections'[queue'[k]]] = "notified"
      BY <1>1, <1>2, <1>3, <1>5 DEF IInv, Exact, Agreement, TypeOK
    <2>3. ASSUME NEW d \in Conn, stage'[d] = "notified", d # c
          PROVE  \E k \in 1..Len(queue') : queue'[k] = fdOf'[d]
      <3>1. PICK j \in 1..Len(queue) : queue[j] = fdOf[d]
        BY <1>1, <1>3, <2>3 DEF IInv, Exact, Agreement
      <3>2. j # 1
        BY <1>1, <1>3, <1>4, <2>3, <3>1 DEF IInv, Exact, Agreement, OpenStage
      <3> QED BY <1>3, <1>7, <3>1, <3>2
    <2>4. \A d \in Conn : stage'[d] \in OpenStage => owner'[fdOf'[d]] = d
      BY <1>3 DEF IInv, Exact, Agreement
    <2> QED BY <1>3, <1>8, <2>1, <2>2, <2>3, <2>4 DEF Exact, Agreement
  <1>10. Hands'
    BY <1>1, <1>3, <1>4, <1>6 DEF IInv, Hands, Holding, Exact, TypeOK
  <1>11. Filed'
    <2>1. ASSUME NEW g \in Fd, connections'[g] # None
          PROVE  /\ fdOf[connections'[g]] = g /\ stage[connections'[g]] \in Mapped
                 /\ stage[connections'[g]] = "notified" => \E k \in 1..Len(queue') : queue'[k] = g
      <3>1. g # f /\ connections'[g] = connections[g]
        BY <1>1, <1>3, <2>1 DEF IInv, Exact, Agreement, TypeOK
      <3>2. /\ fdOf[connections[g]] = g /\ stage[connections[g]] \in Mapped
            /\ stage[connections[g]] = "notified" => \E k \in 1..Len(queue) : queue[k] = g
        BY <2>1, <3>1 DEF IInv, Filed
      <3>3. \A j \in 1..Len(queue) : queue[j] = g => j # 1
        BY <1>1, <3>1
      <3> QED BY <1>7, <3>1, <3>2, <3>3
    <2>2. reaping' # None => stage[reaping'] \in Mapped /\ \A g \in Fd : connections'[g] # reaping'
      BY <1>1, <1>3, <1>4, <1>6 DEF IInv, Exact, Agreement, TypeOK
    <2> QED BY <1>3, <2>1, <2>2 DEF IInv, Filed
  <1>12. Owned'
    <2> SUFFICES ASSUME NEW g \in Fd, owner[g] # None
                 PROVE  \/ stage[owner[g]] = "leaked" \/ connections'[g] # None
                        \/ \E t \in Thread : hand[t] = owner[g]
                        \/ reaping' # None /\ fdOf[reaping'] = g
      BY <1>3 DEF IInv, Owned
    <2>1. CASE g = f
      BY <1>1, <1>3, <1>4, <2>1 DEF IInv, Owned, c
    <2>2. CASE g # f
      BY <1>1, <1>3, <2>2 DEF IInv, Owned, Exact, Agreement, TypeOK
    <2> QED BY <2>1, <2>2
  <1>13. Queued'
    <2>1. ~stray => \A j, k \in 1..Len(queue') : queue'[j] = queue'[k] => j = k
      BY <1>1, <1>2 DEF IInv, Queued
    <2> QED BY <1>3, <1>4, <2>1 DEF Queued
  <1>14. Reaper'
    BY <1>1, <1>3 DEF IInv, Reaper, Running, HandlerAlive
  <1> QED BY <1>9, <1>10, <1>11, <1>12, <1>13, <1>14 DEF IInv

(* It joins the handler and closes the descriptor, ...                       *)
LEMMA ReapCloseStep ==
  ASSUME IInv, ReapClose
  PROVE  IInv'
  <1> USE ConnAssumption DEF ReapClose
  <1>1. /\ reaping \in Conn /\ stage[reaping] = "notified" /\ reaping' = None
        /\ stage' = [stage EXCEPT ![reaping] = "closed"] /\ fdOf[reaping] \in Fd
        /\ UNCHANGED <<os, blocking, app, chained, starts, handler, quit, monitor, shutting_down,
                       event, lpc, hand, reaper, server_tx, queue, fdOf, connections, shut>>
        /\ \A f \in Fd : connections[f] # reaping
    BY DEF IInv, Filed, OpenStage, Exact, Agreement, TypeOK, appVars, wakeVars, lisVars, config
  <1>2. /\ owner' \in [Fd -> Conn \cup {None}] /\ stray' \in BOOLEAN /\ owner'[fdOf[reaping]] = None
        /\ \A g \in Fd : g # fdOf[reaping] => owner'[g] = owner[g]
        /\ ~stray' => ~stray
    BY <1>1, Closing DEF IInv, Exact, Agreement
  <1>3. TypeOK'
    BY <1>1, <1>2 DEF IInv, Exact, TypeOK
  <1>4. Exact'
    <2> SUFFICES ASSUME ~stray PROVE Exact'
      BY <1>2, <1>3 DEF Exact, Agreement
    <2>1. \A d \in Conn : stage'[d] \in OpenStage => owner'[fdOf'[d]] = d
      <3> SUFFICES ASSUME NEW d \in Conn, stage'[d] \in OpenStage PROVE owner'[fdOf[d]] = d
        BY <1>1
      <3>1. d # reaping /\ stage[d] \in OpenStage /\ fdOf[d] \in Fd
        BY <1>1 DEF IInv, Filed, Exact, Agreement, TypeOK, OpenStage
      <3>2. fdOf[d] # fdOf[reaping]
        BY <1>1, <3>1, Distinct DEF OpenStage
      <3> QED BY <1>2, <3>1, <3>2 DEF IInv, Exact, Agreement
    <2> QED BY <1>1, <1>3, <2>1 DEF IInv, Exact, Agreement, TypeOK
  <1>5. Hands' /\ Filed' /\ Queued'
    BY <1>1, <1>2 DEF IInv, Hands, Holding, Filed, Mapped, OpenStage, Queued, Exact,
                           Agreement, TypeOK
  <1>6. Owned'
    <2> SUFFICES ASSUME NEW g \in Fd, owner'[g] # None
                 PROVE  /\ fdOf[owner'[g]] = g /\ stage'[owner'[g]] \in OpenStage
                        /\ \/ stage'[owner'[g]] = "leaked" \/ connections[g] # None
                           \/ \E t \in Thread : hand[t] = owner'[g]
      BY <1>1 DEF Owned
    <2>1. /\ g # fdOf[reaping] /\ owner'[g] = owner[g] /\ owner[g] \in Conn
          /\ fdOf[owner[g]] = g /\ owner[g] # reaping
      BY <1>2 DEF IInv, Owned, Exact, Agreement, TypeOK
    <2> QED BY <1>1, <2>1 DEF IInv, Owned, Exact, Agreement, TypeOK
  <1>7. Reaper'
    BY <1>1 DEF IInv, Reaper, Running, HandlerAlive, Exact, TypeOK
  <1> QED BY <1>4, <1>5, <1>6, <1>7 DEF IInv

(* ... and ends when nobody is left who could send to it.                    *)
LEMMA ReaperEndsStep ==
  ASSUME IInv, ReaperEnds
  PROVE  IInv'
  <1>1. /\ reaper = "iter" /\ reaper' = "ended" /\ queue = <<>> /\ reaping = None /\ ~ReaperTx
        /\ UNCHANGED <<os, blocking, app, chained, starts, handler, quit, monitor, shutting_down,
                       event, lpc, hand, server_tx, queue, reaping, stage, fdOf, connections, shut,
                       owner, stray>>
    BY DEF ReaperEnds, appVars, wakeVars, lisVars, connVars, fdVars, config
  <1>2. Exact' /\ Hands' /\ Filed' /\ Owned' /\ Queued'
    BY <1>1 DEF IInv, Exact, Agreement, TypeOK, Hands, Filed, Owned, Queued
  <1>3. Reaper'
    BY <1>1 DEF IInv, Reaper, ReaperTx, Running, HandlerAlive
  <1> QED BY <1>2, <1>3 DEF IInv

(* A client arrives, or a connection's handler leaves its loop.              *)
LEMMA ConnSteps ==
  ASSUME IInv, NEW c \in Conn, Arrive(c) \/ HandlerEnds(c)
  PROVE  IInv'
  <1>1. UNCHANGED <<config, appVars, wakeVars, lisVars, reapVars, fdOf, connections, shut, fdVars>>
    BY DEF Arrive, HandlerEnds
  <1>2. PICK s \in {"backlog", "closed", "ended"} :
          /\ stage' = [stage EXCEPT ![c] = s]
          /\ \/ s \in {"backlog", "closed"} /\ stage[c] \in {"away", "backlog"}
             \/ s = "ended" /\ stage[c] = "serving"
    BY DEF Arrive, HandlerEnds
  <1>3. TypeOK'
    BY <1>1, <1>2 DEF IInv, Exact, TypeOK, OpenStage, appVars, wakeVars, lisVars, reapVars,
                      fdVars, config
  <1>4. Hands' /\ \A t \in Thread : (Running(t)' <=> Running(t)) /\ lpc'[t] = lpc[t]
    BY <1>1, <1>2 DEF IInv, Hands, Holding, Running, Exact, TypeOK, lisVars, reapVars
  <1> QED BY <1>1, <1>2, <1>3, <1>4, StageStep DEF lisVars

(* A pipe instance is connected.                                             *)
LEMMA PipeStep ==
  ASSUME IInv, NEW t \in Thread, NEW c \in Conn, NEW f \in Fd, PipeConnected(t, c, f)
  PROVE  IInv'
  <1>1. CASE shutting_down
    <2>1. /\ lpc[t] \in {"pending", "wait"} /\ lpc' = [lpc EXCEPT ![t] = "check"]
          /\ stage[c] = "backlog" /\ stage' = [stage EXCEPT ![c] = "closed"]
          /\ UNCHANGED <<config, appVars, wakeVars, reapVars, hand, fdOf, connections, shut, fdVars>>
      BY <1>1 DEF PipeConnected, Move, Backlog
    <2>2. TypeOK'
      BY <2>1 DEF IInv, Exact, Agreement, TypeOK, appVars, wakeVars, reapVars, fdVars, config
    <2>3. /\ Hands'
          /\ \A u \in Thread : (Running(u)' <=> Running(u)) /\ (lpc[u] = "none" => lpc'[u] = "none")
      BY <2>1 DEF IInv, Hands, Holding, Running, Exact, TypeOK, reapVars
    <2> QED BY <2>1, <2>2, <2>3, StageStep
  <1>2. CASE ~shutting_down
    BY <1>2, TakeStep DEF PipeConnected, Running, Holding
  <1> QED BY <1>1, <1>2

-----------------------------------------------------------------------------
(* The inductive invariant holds in every reachable state.                   *)
LEMMA Invariance == Spec => []IInv
  <1>1. Init => IInv
    <2> SUFFICES ASSUME Init PROVE IInv
      OBVIOUS
    <2>1. TypeOK
      <3>1. starts \in 0..MaxStarts /\ handler \in 0..MaxStarts /\ queue \in Seq(Fd)
        BY StartAssumption DEF Init
      <3>2. /\ chained \in BOOLEAN /\ quit \in BOOLEAN /\ server_tx \in BOOLEAN
            /\ shutting_down \in BOOLEAN /\ event \in BOOLEAN /\ stray \in BOOLEAN
        BY Zenon DEF Init
      <3>3. blocking \in BOOLEAN
        BY Zenon DEF Init
      <3> QED BY <3>1, <3>2, <3>3 DEF Init, TypeOK
    <2> QED
      BY <2>1 DEF Init, IInv, Exact, Agreement, Filed, Owned, Hands, Holding, Queued, Reaper,
                  Running, HandlerAlive, OpenStage
  <1>2. IInv /\ [Next]_vars => IInv'
    <2> SUFFICES ASSUME IInv, [Next]_vars PROVE IInv'
      OBVIOUS
    <2>1. CASE UNCHANGED vars
      BY <2>1 DEF vars, appVars, wakeVars, lisVars, reapVars, connVars, fdVars, config, IInv,
                  Exact, Agreement, TypeOK, Filed, Owned, Hands, Queued, Reaper, Running,
                  HandlerAlive
    <2>2. CASE Start \/ StopListen \/ Disconnect \/ AppStep
      BY <2>2, StartStep, AppSteps DEF AppStep
    <2>3. ASSUME NEW t \in Thread,
                 ListenerStep(t) \/ PollReady(t) \/ AcceptAgain(t) \/ AcceptLimit(t)
          PROVE  IInv'
      <3>1. ASSUME NEW c \in Conn, NEW f \in Fd, Accept4(t, c, f) PROVE IInv'
        BY <3>1, TakeStep DEF Accept4, Running, Holding
      <3> QED BY <2>3, <3>1, ListenerMoves, HandOver, InsertStep DEF ListenerStep, AcceptReturns
    <2>4. ASSUME NEW t \in Thread, HookAccepts(t) \/ HookRejects(t) \/ SpawnFails(t)
          PROVE  IInv'
      BY <2>4, ListenerMoves, HandOver
    <2>5. ASSUME NEW c \in Conn, Arrive(c) \/ HandlerEnds(c) \/ NotifyReaper(c) PROVE IInv'
      BY <2>5, ConnSteps, NotifyStep
    <2>6. CASE ReaperStep
      BY <2>6, ReapEntryStep, ReapCloseStep, ReaperEndsStep DEF ReaperStep
    <2> QED BY <2>1, <2>2, <2>3, <2>4, <2>5, <2>6, PipeStep DEF Next
  <1> QED BY <1>1, <1>2, PTL DEF Spec

(* The first descriptor that is closed under its owner is closed by a second *)
(* close of the monitor pipe's number.                                       *)
LEMMA OnlyMonitor == Spec => [](stray => os = "unix" /\ monitor = "closed")
  <1> DEFINE P == stray => os = "unix" /\ monitor = "closed"
  <1>1. Init => P
    BY DEF Init
  <1>2. IInv /\ P /\ [Next]_vars => P'
    <2> SUFFICES ASSUME IInv, P, [Next]_vars PROVE P'
      OBVIOUS
    <2>0. monitor \in {"open", "closed"}
      BY DEF IInv, Exact, TypeOK
    <2>1. os' = os /\ (monitor = "closed" => monitor' = "closed")
      BY DEF Next, Start, StopListen, Disconnect, AppStep, Close, CloseHandle, JoinListener,
             ShutAll, JoinReaper, ListenerStep, Check, PollMonitor, Slept, AcceptReturns,
             Accept4, AcceptAgain, AcceptLimit, ConnectNamedPipe, AwaitEvent, EventShutdown,
             Spawn, Insert, PollReady, HookAccepts, HookRejects, SpawnFails, PipeConnected,
             Arrive, HandlerEnds, NotifyReaper, ReaperStep, ReapEntry, ReapClose, ReaperEnds,
             config, wakeVars, vars
    <2>2. \/ UNCHANGED stray
          \/ os = "unix" /\ monitor = "closed"
          \/ \E t \in Thread :
               lpc[t] \in {"hook", "spawn"} /\ CloseNumber(fdOf[hand[t]], hand[t])
          \/ ReapClose
      BY <2>0 DEF Next, Start, StopListen, Disconnect, AppStep, Close, CloseHandle, JoinListener,
             ShutAll, JoinReaper, ListenerStep, Check, PollMonitor, Slept, AcceptReturns,
             Accept4, AcceptAgain, AcceptLimit, ConnectNamedPipe, AwaitEvent, EventShutdown,
             Spawn, Insert, PollReady, HookAccepts, HookRejects, SpawnFails, PipeConnected,
             Take, Arrive, HandlerEnds, NotifyReaper, ReaperStep, ReapEntry, ReaperEnds,
             fdVars, vars
    <2>3. ASSUME ~stray, NEW c \in Conn, stage[c] \in OpenStage, CloseNumber(fdOf[c], c)
          PROVE  ~stray'
      <3>1. owner[fdOf[c]] = c
        BY <2>3 DEF IInv, Exact, Agreement
      <3> QED BY <2>3, <3>1, Zenon DEF CloseNumber
    <2>4. ASSUME ~stray, NEW t \in Thread, lpc[t] \in {"hook", "spawn"},
                 CloseNumber(fdOf[hand[t]], hand[t])
          PROVE  ~stray'
      <3>1. hand[t] \in Conn /\ stage[hand[t]] \in OpenStage
        BY <2>4 DEF IInv, Exact, TypeOK, Hands, Holding, OpenStage
      <3> QED BY <2>3, <2>4, <3>1
    <2>5. ASSUME ~stray, ReapClose PROVE ~stray'
      <3>1. reaping \in Conn /\ stage[reaping] \in OpenStage /\ CloseNumber(fdOf[reaping], reaping)
        BY <2>5 DEF IInv, Exact, TypeOK, ReapClose, OpenStage
      <3> QED BY <2>3, <2>5, <3>1
    <2>6. stray' => stray \/ (os = "unix" /\ monitor = "closed")
      BY <2>2, <2>4, <2>5, Zenon
    <2> QED BY <2>1, <2>6, Zenon
  <1> QED BY <1>1, <1>2, Invariance, PTL DEF Spec

(* As long as no second stop_listen() closed a connection's descriptor, the  *)
(* reaper finds the entry of every number it is sent, whatever numbers the   *)
(* kernel gives out again, and every connection keeps its descriptor until   *)
(* its handler has exited; and nothing else ever closes one that is not its  *)
(* own.                                                                      *)
THEOREM ReapsExactly == Spec => []ReapExact
  <1>1. IInv /\ (stray => os = "unix" /\ monitor = "closed") => ReapExact
    BY DEF IInv, Exact, ReapExact
  <1> QED BY <1>1, Invariance, OnlyMonitor, PTL

(* disconnect() returns only when every accepted connection is closed and no *)
(* listener thread runs, for any number of connections and of start() calls, *)
(* also after a second stop_listen().                                        *)
THEOREM DisconnectIsComplete == Spec => []GoneMeansClosed
  <1>1. IInv => GoneMeansClosed
    <2> SUFFICES ASSUME IInv, app = "gone" PROVE GoneMeansClosed
      BY DEF GoneMeansClosed
    <2>1. /\ queue = <<>> /\ reaping = None
          /\ (\A t \in Thread : ~Running(t)) /\ (\A c \in Conn : ~HandlerAlive(c))
      BY DEF IInv, Reaper
    <2>2. \A t \in Thread : hand[t] = None
      BY <2>1 DEF IInv, Hands, Holding, Running
    <2>3. \A f \in Fd : connections[f] = None
      <3> SUFFICES ASSUME NEW f \in Fd, connections[f] # None PROVE FALSE
        OBVIOUS
      <3>1. connections[f] \in Conn /\ stage[connections[f]] = "notified"
        BY <2>1 DEF IInv, Filed, Mapped, HandlerAlive, Exact, Agreement, TypeOK
      <3>2. PICK k \in 1..Len(queue) : queue[k] = f
        BY <3>1 DEF IInv, Filed
      <3> QED BY <2>1, <3>2
    <2>4. \A f \in Fd : owner[f] # None => stage[owner[f]] = "leaked"
      BY <2>1, <2>2, <2>3 DEF IInv, Owned
    <2>5. \A c \in Conn : stage[c] \in {"away", "backlog", "notified", "closed", "leaked"}
      <3> TAKE c \in Conn
      <3>1. stage[c] # "accepted"
        BY <2>2, ConnAssumption DEF IInv, Hands
      <3>2. stage[c] \notin {"serving", "ended"}
        BY <2>1 DEF HandlerAlive
      <3>3. stage[c] \in {"away", "backlog", "closed"} \cup OpenStage
        BY DEF IInv, Exact, Agreement, TypeOK
      <3> QED BY <3>1, <3>2, <3>3 DEF OpenStage
    <2> QED BY <2>1, <2>4, <2>5 DEF GoneMeansClosed
  <1> QED BY <1>1, Invariance, PTL
=============================================================================
