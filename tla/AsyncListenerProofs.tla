------------------------- MODULE AsyncListenerProofs -------------------------
(***************************************************************************)
(* Proofs about AsyncListener, for any finite sets of listeners and peers, *)
(* any descriptor numbers, pool size and number of starts: the ownership   *)
(* of listeners, the completeness of disconnect, and the accept hook's     *)
(* descriptor across time-outs and reuse of numbers.                       *)
(***************************************************************************)
EXTENDS AsyncListener, FiniteSetTheorems, TLAPS

-----------------------------------------------------------------------------
(* The inductive invariant. NothingLeft is inductive as it stands with the   *)
(* ownership of the listeners; HookSound rests on the stages of connections  *)
(* and hooks, ListenerKept on where the stop request of a start can be.      *)

(* A connection waits in one backlog, once, and in no other stage.           *)
Waiting ==
  /\ \A l \in Listeners : \A i \in 1..Len(backlog[l]) : conn[backlog[l][i]] = "queued"
  /\ \A l, m \in Listeners : \A i \in 1..Len(backlog[l]), j \in 1..Len(backlog[m]) :
       backlog[l][i] = backlog[m][j] => l = m /\ i = j

(* The descriptor table: an open number refers to the connection whose       *)
(* socket or hook has it, and the two never share one.                       *)
Table ==
  /\ \A k \in Conn : sock[k] # None => fdOwner[sock[k]] = k
  /\ \A k \in Conn : dup[k] # None => fdOwner[dup[k]] = k /\ dup[k] # sock[k]
  /\ \A n \in Fd : fdOwner[n] # None => n \in {sock[fdOwner[n]], dup[fdOwner[n]]}

(* The stages of a connection and of its hook. A hook may outlive its        *)
(* connection, never precede it.                                             *)
Stages ==
  /\ \A k \in Conn : sock[k] # None => conn[k] \in {"accepted", "hook", "served"}
  /\ \A k \in Conn : blk[k] \in {"queued", "running"} <=> dup[k] # None
  /\ \A k \in Conn : conn[k] \in {"new", "queued", "accepted"} => blk[k] = "none"
  /\ \A k \in Conn : hook /\ conn[k] = "served" => blk[k] = "ok"

(* A listener is in Server.listeners, with an accept task or in the reply    *)
(* channel, once.                                                            *)
Owned ==
  /\ \A i, j \in 1..Len(listeners) : listeners[i] = listeners[j] => i = j
  /\ \A t \in Task : task[t] = "loop" <=> held[t] # None
  /\ \A t, u \in Task : t # u /\ held[t] # None => held[t] # held[u]
  /\ \A t \in Task : held[t] # None =>
       held[t] # handed /\ \A i \in 1..Len(listeners) : held[t] # listeners[i]
  /\ \A i \in 1..Len(listeners) : handed # listeners[i]

(* t is the accept task of the latest start.                                 *)
Latest(t) == task[t] # "none" /\ \A u \in Task : u > t => task[u] = "none"

(* Where stop_listen_tx and a stop request lead: to the accept task of the   *)
(* latest start, which is alive, has answered or lost its stream.            *)
Stopping ==
  /\ \A t, u \in Task : t < u /\ task[u] # "none" => task[t] # "none"
  /\ \A t \in Task : task[t] = "none" => req[t] = "none"
  /\ tx # None => task[tx] \in {"loop", "ended"} /\ req[tx] = "none" /\ Latest(tx)
  /\ \A t \in Task : req[t] = "sent" =>
       /\ svc \notin {"idle", "notify", "wait"} /\ Latest(t)
       /\ svc = "stop" => (handed # None \/ task[t] \in {"loop", "ended"})
  /\ svc = "stop" => tx = None /\ \E t \in Task : req[t] = "sent"
  /\ svc = "wait" => shutdown
  /\ svc = "panicked" => \E t \in Task : task[t] = "ended"
  /\ svc \in {"idle", "notify", "wait"} /\ tx = None /\ listeners = <<>> /\ Listeners # {} =>
       shutdown \/ \E t \in Task : req[t] = "dropped" /\ Latest(t)

IInv == TypeOK /\ Owned /\ NothingLeft /\ Waiting /\ Table /\ Stages /\ Stopping

(* Range of a sequence, spelled out.                                         *)
LEMMA InRange ==
  ASSUME NEW S, NEW s \in Seq(S), NEW x
  PROVE  x \in Range(s) <=> \E i \in 1..Len(s) : x = s[i]
  BY DEF Range

-----------------------------------------------------------------------------
(* The operators of the model.                                               *)

(* Front and Last take a sequence apart.                                     *)
LEMMA FrontLast ==
  ASSUME NEW S, NEW s \in Seq(S), s # <<>>
  PROVE  /\ Front(s) \in Seq(S) /\ Len(Front(s)) = Len(s) - 1 /\ Len(s) >= 1
         /\ \A i \in 1..(Len(s) - 1) : Front(s)[i] = s[i]
         /\ Last(s) = s[Len(s)] /\ Last(s) \in S
  <1>1. Len(s) \in Nat /\ Len(s) >= 1
    OBVIOUS
  <1>2. Front(s) \in Seq(S)
    BY <1>1, SMTT(30) DEF Front
  <1>3. Len(Front(s)) = Len(s) - 1
    BY <1>1, SMTT(30) DEF Front
  <1>4. \A i \in 1..(Len(s) - 1) : Front(s)[i] = s[i]
    BY <1>1 DEF Front
  <1>5. Last(s) = s[Len(s)] /\ Last(s) \in S
    BY <1>1 DEF Last
  <1> QED BY <1>1, <1>2, <1>3, <1>4, <1>5

(* The kernel gives out the lowest free number.                              *)
LEMMA MinFree ==
  ASSUME NEW S, S \subseteq Nat, S # {}
  PROVE  Min(S) \in S
  <1> DEFINE Less == {p \in Nat \X Nat : p[1] < p[2]}
  <1>1. IsWellFoundedOn(Less, Nat)
    BY NatLessThanWellFounded, Zenon DEF OpToRel
  <1>2. \E x \in S : \A y \in S : ~(<<y, x>> \in Less)
    <2> HIDE DEF Less
    <2> QED BY <1>1, WFMin
  <1>3. \E x \in S : \A y \in S : x <= y
    <2>1. PICK x \in S : \A y \in S : ~(<<y, x>> \in Less)
      BY <1>2
    <2>2. ASSUME NEW y \in S PROVE x <= y
      <3>1. x \in Nat /\ y \in Nat /\ <<y, x>> \in Nat \X Nat
        OBVIOUS
      <3>2. ~(y < x)
        BY <2>1, <3>1
      <3> QED BY <3>1, <3>2
    <2> QED BY <2>2
  <1> QED BY <1>3 DEF Min

LEMMA MinFreeFd ==
  ASSUME TypeOK, FreeFds # {}
  PROVE  Min(FreeFds) \in Fd /\ Min(FreeFds) # None /\ fdOwner[Min(FreeFds)] = None
  <1>1. FreeFds \subseteq Nat
    BY ListenerAssumption DEF FreeFds
  <1>2. Min(FreeFds) \in FreeFds
    BY <1>1, MinFree
  <1> QED BY <1>2, ListenerAssumption DEF FreeFds

(* Dropping listeners resets connections that nobody has accepted yet, and   *)
(* leaves the backlogs of the other listeners as they are.                   *)
LEMMA DropKeeps ==
  ASSUME TypeOK, Waiting, NEW ls \in SUBSET Listeners, DropListeners(ls)
  PROVE  /\ conn' \in [Conn -> ConnStage] /\ backlog' \in [Listeners -> Seq(Conn)]
         /\ \A k \in Conn : conn'[k] = conn[k] \/ (conn[k] = "queued" /\ conn'[k] = "gone")
         /\ Waiting'
  <1>1. \A l \in Listeners : \A k : k \in Range(backlog[l]) <=>
          \E i \in 1..Len(backlog[l]) : k = backlog[l][i]
    BY InRange DEF TypeOK
  <1>2. \A k \in Conn : conn'[k] = IF \E l \in ls : \E i \in 1..Len(backlog[l]) : k = backlog[l][i]
                                  THEN "gone" ELSE conn[k]
    <2> SUFFICES ASSUME NEW k \in Conn
                 PROVE  conn'[k] = IF \E l \in ls : \E i \in 1..Len(backlog[l]) : k = backlog[l][i]
                                   THEN "gone" ELSE conn[k]
      OBVIOUS
    <2>1. conn'[k] = IF \E l \in ls : k \in Range(backlog[l]) THEN "gone" ELSE conn[k]
      BY DEF DropListeners
    <2>2. (\E l \in ls : k \in Range(backlog[l])) <=>
          (\E l \in ls : \E i \in 1..Len(backlog[l]) : k = backlog[l][i])
      <3>1. \A l \in ls : k \in Range(backlog[l]) <=>
              \E i \in 1..Len(backlog[l]) : k = backlog[l][i]
        BY <1>1
      <3> QED BY <3>1, Zenon
    <2> QED BY <2>1, <2>2
  <1>3. conn' \in [Conn -> ConnStage]
    BY DEF DropListeners, TypeOK, ConnStage
  <1>4. backlog' \in [Listeners -> Seq(Conn)]
    BY DEF DropListeners, TypeOK
  <1>5. \A k \in Conn : conn'[k] = conn[k] \/ (conn[k] = "queued" /\ conn'[k] = "gone")
    BY <1>2 DEF Waiting
  <1>6. \A l \in Listeners : backlog'[l] = IF l \in ls THEN <<>> ELSE backlog[l]
    BY DEF DropListeners
  <1>7. ASSUME NEW l \in Listeners, NEW i \in 1..Len(backlog'[l])
        PROVE  conn'[backlog'[l][i]] = "queued"
    <2>1. l \notin ls /\ backlog'[l] = backlog[l] /\ backlog[l][i] \in Conn
      BY <1>6, <1>7 DEF TypeOK
    <2>2. \A m \in ls : \A j \in 1..Len(backlog[m]) : backlog[l][i] # backlog[m][j]
      BY <2>1 DEF Waiting
    <2>3. conn'[backlog[l][i]] = conn[backlog[l][i]]
      BY <1>2, <2>1, <2>2
    <2> QED BY <2>1, <2>3 DEF Waiting
  <1>8. ASSUME NEW l \in Listeners, NEW m \in Listeners,
               NEW i \in 1..Len(backlog'[l]), NEW j \in 1..Len(backlog'[m]),
               backlog'[l][i] = backlog'[m][j]
        PROVE  l = m /\ i = j
    BY <1>6, <1>8 DEF Waiting
  <1> QED BY <1>3, <1>4, <1>5, <1>7, <1>8 DEF Waiting

(* The listeners that a step drops are listeners.                            *)
LEMMA Droppable ==
  ASSUME TypeOK
  PROVE  /\ Range(listeners) \in SUBSET Listeners
         /\ {handed} \ {None} \in SUBSET Listeners
         /\ listeners # <<>> => {Last(listeners)} \in SUBSET Listeners
         /\ \A t \in Task : held[t] # None => {held[t]} \in SUBSET Listeners
  <1>1. Range(listeners) \in SUBSET Listeners
    <2>1. listeners \in Seq(Listeners)
      BY DEF TypeOK
    <2>2. \A x \in Range(listeners) : \E i \in 1..Len(listeners) : x = listeners[i]
      BY <2>1, InRange
    <2> QED BY <2>1, <2>2
  <1>2. listeners # <<>> => Last(listeners) \in Listeners
    BY FrontLast DEF TypeOK
  <1> QED BY <1>1, <1>2 DEF TypeOK

-----------------------------------------------------------------------------
(* Types.                                                                    *)
LEMMA TypeStep ==
  ASSUME IInv, Next PROVE TypeOK'
  <1> USE ListenerAssumption DEF call, hookv, KeepServer
  <1>0. TypeOK /\ Owned /\ Waiting /\ Table /\ Stages
    BY DEF IInv
  <1>1. CASE StopReceives
    <2>1. conn' \in [Conn -> ConnStage] /\ backlog' \in [Listeners -> Seq(Conn)]
      BY <1>0, <1>1, Droppable, DropKeeps DEF StopReceives
    <2>2. req' \in [Task -> {"none", "sent", "dropped"}]
      BY <1>0, <1>1 DEF TypeOK, StopReceives, Answered
    <2>3. listeners' \in Seq(Listeners) /\ handed' = None
      BY <1>0, <1>1 DEF TypeOK, StopReceives
    <2> QED BY <1>0, <1>1, <2>1, <2>2, <2>3 DEF TypeOK, StopReceives
  <1>2. CASE StopPanics \/ Notify \/ Disconnect
    BY <1>0, <1>2 DEF TypeOK, StopPanics, Notify, Disconnect
  <1>3. CASE Finish /\ drained' \in BOOLEAN
    <2>1. conn' \in [Conn -> ConnStage] /\ backlog' \in [Listeners -> Seq(Conn)]
      BY <1>0, <1>3, Droppable, DropKeeps DEF Finish, TypeOK
    <2>2. listeners' \in Seq(Listeners)
      <3>1. CASE op = "shutdown" /\ listeners # <<>>
        <4>1. Front(listeners) \in Seq(Listeners)
          BY <1>0, <3>1, FrontLast DEF TypeOK
        <4> QED BY <1>3, <3>1, <4>1 DEF Finish
      <3>2. CASE ~(op = "shutdown" /\ listeners # <<>>)
        BY <1>0, <1>3, <3>2 DEF Finish, TypeOK
      <3> QED BY <3>1, <3>2
    <2> QED BY <1>0, <1>3, <2>1, <2>2 DEF TypeOK, Finish
  <1>4. CASE AllExited \/ Elapsed
    BY <1>0, <1>3, <1>4 DEF AllExited, Elapsed, TypeOK
  <1>5. CASE Start
    <2>1. Front(listeners) \in Seq(Listeners) /\ Last(listeners) \in Listeners
      BY <1>0, <1>5, FrontLast DEF Start, TypeOK
    <2>2. PICK t \in Task : /\ task' = [task EXCEPT ![t] = "loop"]
                            /\ held' = [held EXCEPT ![t] = Last(listeners)] /\ tx' = t
      BY <1>5 DEF Start
    <2> QED BY <1>0, <1>5, <2>1, <2>2 DEF TypeOK, Start
  <1>6. CASE StopListen \/ Shutdown
    BY <1>0, <1>6 DEF TypeOK, StopListen, Shutdown, SendStop
  <1>7. CASE Cancel \/ DropServer
    <2>1. conn' \in [Conn -> ConnStage] /\ backlog' \in [Listeners -> Seq(Conn)]
      BY <1>0, <1>7, Droppable, DropKeeps DEF Cancel, DropServer
    <2>2. CASE Cancel
      BY <1>0, <2>1, <2>2 DEF TypeOK, Cancel
    <2>3. CASE DropServer
      BY <1>0, <2>1, <2>3 DEF TypeOK, DropServer
    <2> QED BY <1>7, <2>2, <2>3
  <1>8. ASSUME NEW t \in Task, Accept(t) \/ AcceptFails(t) PROVE TypeOK'
    <2> DEFINE l == held[t]
               k == Head(backlog[held[t]])
    <2>1. l \in Listeners /\ k \in Conn /\ Tail(backlog[l]) \in Seq(Conn)
      BY <1>0, <1>8 DEF Accept, AcceptFails, TypeOK, Owned
    <2>2. backlog' = [backlog EXCEPT ![l] = Tail(backlog[l])]
      BY <1>8 DEF Accept, AcceptFails
    <2>3. backlog' \in [Listeners -> Seq(Conn)]
      BY <1>0, <2>1, <2>2 DEF TypeOK
    <2>4. conn' \in [Conn -> ConnStage]
      BY <1>0, <1>8, <2>1 DEF Accept, AcceptFails, TypeOK, ConnStage
    <2> HIDE DEF l, k
    <2>5. CASE Accept(t)
      <3>1. sock' \in [Conn -> Fd \union {None}] /\ fdOwner' \in [Fd -> Conn \union {None}]
        <4>1. CASE HasRawFd(t)
          <5>1. Min(FreeFds) \in Fd
            BY <1>0, <2>5, <4>1, MinFreeFd DEF Accept
          <5>2. /\ sock' = [sock EXCEPT ![k] = Min(FreeFds)]
                /\ fdOwner' = [fdOwner EXCEPT ![Min(FreeFds)] = k]
            BY <2>5, <4>1 DEF Accept, k
          <5> QED BY <1>0, <2>1, <5>1, <5>2 DEF TypeOK
        <4>2. CASE ~HasRawFd(t)
          BY <1>0, <2>5, <4>2 DEF Accept, TypeOK
        <4> QED BY <4>1, <4>2
      <3> QED BY <1>0, <2>3, <2>4, <2>5, <3>1 DEF TypeOK, Accept
    <2>6. CASE AcceptFails(t)
      BY <1>0, <2>3, <2>4, <2>6 DEF TypeOK, AcceptFails
    <2> QED BY <1>8, <2>5, <2>6
  <1>9. ASSUME NEW t \in Task, StreamEnds(t) \/ TakeStop(t) \/ StopClosed(t) PROVE TypeOK'
    <2>1. held[t] \in Listeners
      BY <1>0, <1>9 DEF StreamEnds, TakeStop, StopClosed, TypeOK, Owned
    <2>2. conn' \in [Conn -> ConnStage] /\ backlog' \in [Listeners -> Seq(Conn)]
      BY <1>0, <1>9, <2>1, DropKeeps DEF StreamEnds, TakeStop, StopClosed, TypeOK
    <2>3. /\ \E how \in {"done", "ended"} : TaskEnds(t, how)
          /\ req' = req /\ handed' \in Listeners \union {None}
      BY <1>0, <1>9, <2>1 DEF StreamEnds, TakeStop, StopClosed, TypeOK
    <2> QED BY <1>0, <2>2, <2>3 DEF TypeOK, TaskEnds
  <1>10. ASSUME NEW k \in Conn, NEW S, Close(k), fdOwner' = Freed(S)
         PROVE  /\ conn' \in [Conn -> ConnStage] /\ sock' \in [Conn -> Fd \union {None}]
                /\ fdOwner' \in [Fd -> Conn \union {None}]
    BY <1>0, <1>10 DEF TypeOK, Close, Freed, ConnStage
  <1>11. ASSUME NEW k \in Conn, Serve(k)
         PROVE  /\ conn' \in [Conn -> ConnStage] /\ sock' \in [Conn -> Fd \union {None}]
                /\ fdOwner' \in [Fd -> Conn \union {None}]
    BY <1>0, <1>11 DEF TypeOK, Serve, ConnStage
  <1>12. ASSUME NEW k \in Conn, NoHook(k) \/ HookRefuses(k) \/ HookResult(k) \/ ConnEnds(k)
         PROVE  TypeOK'
    <2>1. /\ conn' \in [Conn -> ConnStage] /\ sock' \in [Conn -> Fd \union {None}]
          /\ fdOwner' \in [Fd -> Conn \union {None}]
      BY <1>10, <1>11, <1>12 DEF NoHook, HookRefuses, HookResult, ConnEnds
    <2>2. UNCHANGED hookv /\ KeepServer
      BY <1>12 DEF NoHook, HookRefuses, HookResult, ConnEnds
    <2> QED BY <1>0, <2>1, <2>2 DEF TypeOK
  <1>13. ASSUME NEW k \in Conn, StartHook(k) PROVE TypeOK'
    <2>1. DupFd(k) \in Fd
      BY <1>0, <1>13, MinFreeFd DEF StartHook, HookUnusable, DupFd
    <2> QED BY <1>0, <1>13, <2>1 DEF TypeOK, StartHook, ConnStage
  <1>14. ASSUME NEW k \in Conn, RunHook(k) \/ HookReturns(k) PROVE TypeOK'
    <2>1. CASE RunHook(k)
      BY <1>0, <2>1 DEF TypeOK, RunHook
    <2>2. CASE HookReturns(k)
      <3>1. fdOwner' \in [Fd -> Conn \union {None}]
        BY <1>0, <2>2 DEF TypeOK, HookReturns, Freed
      <3>2. PICK r \in {"ok", "err"} : blk' = [blk EXCEPT ![k] = r]
        BY <2>2 DEF HookReturns
      <3>3. blk' \in [Conn -> {"none", "queued", "running", "ok", "err", "aborted"}]
        BY <1>0, <3>2 DEF TypeOK
      <3> QED BY <1>0, <2>2, <3>1, <3>3 DEF TypeOK, HookReturns
    <2> QED BY <1>14, <2>1, <2>2
  <1>15. ASSUME NEW k \in Conn, HookTimeout(k) PROVE TypeOK'
    <2>1. /\ conn' \in [Conn -> ConnStage] /\ sock' \in [Conn -> Fd \union {None}]
          /\ fdOwner' \in [Fd -> Conn \union {None}]
      BY <1>10, <1>15 DEF HookTimeout
    <2>2. /\ dup' \in [Conn -> Fd \union {None}]
          /\ blk' \in [Conn -> {"none", "queued", "running", "ok", "err", "aborted"}]
      BY <1>0, <1>15 DEF HookTimeout, TypeOK
    <2> QED BY <1>0, <1>15, <2>1, <2>2 DEF TypeOK, HookTimeout
  <1>16. ASSUME NEW k \in Conn, NEW l \in Listeners, Connect(k, l) PROVE TypeOK'
    BY <1>0, <1>16 DEF TypeOK, Connect, ConnStage
  <1> QED
    BY <1>1, <1>2, <1>4, <1>5, <1>6, <1>7, <1>8, <1>9, <1>12, <1>13, <1>14, <1>15, <1>16
    DEF Next, CallStep, ApiCall, TaskStep, ConnStep, ConnShutdown

-----------------------------------------------------------------------------
(* Ownership of the listeners.                                               *)
LEMMA OwnedStep ==
  ASSUME IInv, Next PROVE Owned'
  <1> USE ListenerAssumption DEF call, hookv, KeepServer
  <1>0. TypeOK /\ Owned
    BY DEF IInv
  <1>1. CASE UNCHANGED <<listeners, task, held, handed>>
    BY <1>0, <1>1 DEF Owned
  <1>2. CASE StopReceives
    <2>1. handed \in Listeners /\ listeners' = <<handed>> /\ Len(listeners') = 1
          /\ listeners'[1] = handed /\ handed' = None /\ UNCHANGED <<task, held>>
      BY <1>0, <1>2 DEF StopReceives, TypeOK
    <2> QED BY <1>0, <2>1 DEF Owned
  <1>3. CASE Finish
    <2>1. CASE op = "shutdown" /\ listeners # <<>>
      <3>1. /\ Len(listeners') = Len(listeners) - 1 /\ Len(listeners) \in Nat
            /\ \A i \in 1..(Len(listeners) - 1) : listeners'[i] = listeners[i]
        <4>1. listeners \in Seq(Listeners) /\ listeners' = Front(listeners)
          BY <1>0, <1>3, <2>1 DEF Finish, TypeOK
        <4> QED BY <2>1, <4>1, FrontLast
      <3> QED BY <1>0, <1>3, <3>1 DEF Owned, Finish
    <2>2. CASE ~(op = "shutdown" /\ listeners # <<>>)
      BY <1>1, <1>3, <2>2 DEF Finish
    <2> QED BY <2>1, <2>2
  <1>4. CASE Start
    <2>1. /\ Len(listeners') = Len(listeners) - 1 /\ Len(listeners) \in Nat
          /\ Len(listeners) >= 1
          /\ \A i \in 1..(Len(listeners) - 1) : listeners'[i] = listeners[i]
          /\ Last(listeners) = listeners[Len(listeners)] /\ Last(listeners) \in Listeners
      BY <1>0, <1>4, FrontLast DEF Start, TypeOK
    <2>2. PICK t \in Task : /\ task[t] = "none" /\ task' = [task EXCEPT ![t] = "loop"]
                            /\ held' = [held EXCEPT ![t] = Last(listeners)]
      BY <1>4 DEF Start
    <2>3. \A u \in Task : u # t => held'[u] = held[u] /\ task'[u] = task[u]
      BY <1>0, <2>2 DEF TypeOK
    <2>4. held'[t] = listeners[Len(listeners)] /\ task'[t] = "loop" /\ held'[t] # None
      BY <1>0, <2>1, <2>2 DEF TypeOK
    <2>5. \A u \in Task : held[u] # None =>
            held[u] # listeners[Len(listeners)] /\ held[u] # handed
      BY <1>0, <2>1 DEF Owned
    <2>6. \A i \in 1..Len(listeners') : listeners'[i] # listeners[Len(listeners)]
      BY <1>0, <2>1 DEF Owned
    <2>7. handed' = handed /\ handed # listeners[Len(listeners)]
      BY <1>0, <1>4, <2>1 DEF Start, Owned
    <2>8. \A u \in Task : task'[u] = "loop" <=> held'[u] # None
      BY <1>0, <2>3, <2>4 DEF Owned
    <2>9. \A u, v \in Task : u # v /\ held'[u] # None => held'[u] # held'[v]
      BY <1>0, <2>3, <2>4, <2>5 DEF Owned
    <2>10. \A u \in Task : held'[u] # None =>
             held'[u] # handed' /\ \A i \in 1..Len(listeners') : held'[u] # listeners'[i]
      BY <1>0, <2>1, <2>3, <2>4, <2>5, <2>6, <2>7 DEF Owned
    <2> QED BY <1>0, <2>1, <2>7, <2>8, <2>9, <2>10 DEF Owned
  <1>5. CASE Cancel
    BY <1>0, <1>5 DEF Cancel, Owned, TypeOK
  <1>6. CASE DropServer
    BY <1>0, <1>6 DEF DropServer, Owned, TypeOK
  <1>7. ASSUME NEW t \in Task, StreamEnds(t) \/ TakeStop(t) \/ StopClosed(t) PROVE Owned'
    <2>1. /\ task[t] = "loop" /\ held[t] # None /\ listeners' = listeners
          /\ handed' \in {handed, held[t]}
      BY <1>0, <1>7 DEF StreamEnds, TakeStop, StopClosed, TaskEnds, Owned
    <2>2. PICK how \in {"done", "ended"} :
            task' = [task EXCEPT ![t] = how] /\ held' = [held EXCEPT ![t] = None]
      BY <1>7 DEF StreamEnds, TakeStop, StopClosed, TaskEnds
    <2> QED BY <1>0, <2>1, <2>2 DEF Owned, TypeOK
  <1>8. \/ UNCHANGED <<listeners, task, held, handed>>
        \/ StopReceives \/ Finish \/ Start \/ Cancel \/ DropServer
        \/ \E t \in Task : StreamEnds(t) \/ TakeStop(t) \/ StopClosed(t)
    BY ZenonT(40)
       DEF Next, CallStep, ApiCall, TaskStep, ConnStep, StopPanics, Notify, AllExited, Elapsed,
           StopListen, Disconnect, Shutdown, SendStop, Accept, AcceptFails, NoHook,
           HookRefuses, StartHook, RunHook, HookReturns, HookResult, HookTimeout, ConnEnds,
           ConnShutdown, Connect
  <1> QED BY <1>1, <1>2, <1>3, <1>4, <1>5, <1>6, <1>7, <1>8

-----------------------------------------------------------------------------
(* The backlogs.                                                             *)
LEMMA WaitingStep ==
  ASSUME IInv, Next PROVE Waiting'
  <1> USE ListenerAssumption DEF call, hookv, KeepServer
  <1>0. TypeOK /\ Owned /\ Waiting
    BY DEF IInv
  <1>1. ASSUME NEW ls \in SUBSET Listeners, DropListeners(ls) PROVE Waiting'
    BY <1>0, <1>1, DropKeeps
  <1>2. CASE UNCHANGED <<conn, backlog>>
    BY <1>0, <1>2 DEF Waiting
  <1>3. ASSUME NEW k \in Conn, backlog' = backlog, conn[k] # "queued",
               \A j \in Conn : j # k => conn'[j] = conn[j]
        PROVE  Waiting'
    <2>1. \A l \in Listeners : \A i \in 1..Len(backlog[l]) :
            backlog[l][i] \in Conn /\ backlog[l][i] # k
      BY <1>0, <1>3 DEF Waiting, TypeOK
    <2> QED BY <1>0, <1>3, <2>1 DEF Waiting
  <1>4. ASSUME NEW t \in Task, Accept(t) \/ AcceptFails(t) PROVE Waiting'
    <2>1. held[t] \in Listeners
      BY <1>0, <1>4 DEF Accept, AcceptFails, TypeOK, Owned
    <2> DEFINE l == held[t]
    <2>2. /\ backlog' = [backlog EXCEPT ![l] = Tail(backlog[l])] /\ backlog[l] # <<>>
          /\ \A j \in Conn : j # backlog[l][1] => conn'[j] = conn[j]
      BY <1>0, <1>4, <2>1 DEF Accept, AcceptFails, TypeOK
    <2> HIDE DEF l
    <2>3. /\ l \in Listeners /\ backlog[l] \in Seq(Conn)
          /\ \A m \in Listeners : m # l => backlog'[m] = backlog[m]
          /\ backlog'[l] = Tail(backlog[l])
      BY <1>0, <2>1, <2>2 DEF TypeOK, l
    <2>4. /\ Len(backlog'[l]) = Len(backlog[l]) - 1
          /\ \A i \in 1..Len(backlog'[l]) : backlog'[l][i] = backlog[l][i + 1]
      <3>1. backlog[l] \in Seq(Conn) /\ backlog[l] # <<>> /\ backlog'[l] = Tail(backlog[l])
        BY <2>2, <2>3
      <3> QED BY <3>1
    <2>5. \A m \in Listeners : \A i \in 1..Len(backlog'[m]) :
            \E j \in 1..Len(backlog[m]) : /\ backlog'[m][i] = backlog[m][j]
                                         /\ j = IF m = l THEN i + 1 ELSE i
      BY <2>2, <2>3, <2>4
    <2>6. \A m \in Listeners : \A i \in 1..Len(backlog'[m]) :
            backlog'[m][i] # backlog[l][1] /\ backlog'[m][i] \in Conn
            /\ conn[backlog'[m][i]] = "queued"
      BY <1>0, <2>2, <2>3, <2>5 DEF Waiting, TypeOK
    <2>7. \A m \in Listeners : \A i \in 1..Len(backlog'[m]) : conn'[backlog'[m][i]] = "queued"
      BY <2>2, <2>6, ZenonT(40)
    <2>8. \A m, n \in Listeners : \A i \in 1..Len(backlog'[m]), j \in 1..Len(backlog'[n]) :
            backlog'[m][i] = backlog'[n][j] => m = n /\ i = j
      <3> SUFFICES ASSUME NEW m \in Listeners, NEW n \in Listeners,
                          NEW i \in 1..Len(backlog'[m]), NEW j \in 1..Len(backlog'[n]),
                          backlog'[m][i] = backlog'[n][j]
                   PROVE  m = n /\ i = j
        OBVIOUS
      <3>1. PICK a \in 1..Len(backlog[m]) : /\ backlog'[m][i] = backlog[m][a]
                                            /\ a = IF m = l THEN i + 1 ELSE i
        BY <2>5
      <3>2. PICK b \in 1..Len(backlog[n]) : /\ backlog'[n][j] = backlog[n][b]
                                            /\ b = IF n = l THEN j + 1 ELSE j
        BY <2>5
      <3>3. m = n /\ a = b
        <4>1. backlog[m][a] = backlog[n][b]
          BY <3>1, <3>2
        <4>2. \A x, y \in Listeners : \A c \in 1..Len(backlog[x]), d \in 1..Len(backlog[y]) :
                backlog[x][c] = backlog[y][d] => x = y /\ c = d
          BY <1>0 DEF Waiting
        <4> QED BY <4>1, <4>2
      <3> QED BY <3>1, <3>2, <3>3
    <2> QED BY <2>7, <2>8 DEF Waiting
  <1>5. ASSUME NEW k \in Conn, NEW l \in Listeners, Connect(k, l) PROVE Waiting'
    BY <1>0, <1>5 DEF Connect, Waiting, TypeOK
  <1>6. CASE CallStep \/ ApiCall
    <2>1. CASE Finish
      BY <1>0, <1>1, <1>2, <2>1, Droppable DEF Finish
    <2>2. \/ UNCHANGED <<conn, backlog>> \/ Finish
          \/ DropListeners(Range(listeners)) \/ DropListeners({handed} \ {None})
      BY <1>6 DEF CallStep, ApiCall, StopReceives, StopPanics, Notify, AllExited, Elapsed,
                  Start, StopListen, Disconnect, Shutdown, SendStop, Cancel, DropServer
    <2> QED BY <1>0, <1>1, <1>2, <2>1, <2>2, Droppable
  <1>7. ASSUME NEW t \in Task, StreamEnds(t) \/ TakeStop(t) \/ StopClosed(t) PROVE Waiting'
    <2>1. {held[t]} \in SUBSET Listeners
      BY <1>0, <1>7 DEF StreamEnds, TakeStop, StopClosed, TypeOK, Owned
    <2>2. DropListeners({held[t]}) \/ UNCHANGED <<conn, backlog>>
      BY <1>7 DEF StreamEnds, TakeStop, StopClosed
    <2> QED BY <1>1, <1>2, <2>1, <2>2
  <1>8. ASSUME NEW k \in Conn, ConnStep(k) \/ ConnEnds(k) PROVE Waiting'
    <2>1. conn[k] \in {"accepted", "hook", "served"} /\ backlog' = backlog
      BY <1>8 DEF ConnStep, ConnEnds, NoHook, HookRefuses, StartHook, HookResult, HookTimeout
    <2>2. \A j \in Conn : j # k => conn'[j] = conn[j]
      BY <1>0, <1>8 DEF ConnStep, ConnEnds, NoHook, HookRefuses, StartHook, HookResult,
                        HookTimeout, Close, Serve, TypeOK
    <2> QED BY <1>3, <2>1, <2>2
  <1>9. ASSUME NEW k \in Conn, RunHook(k) \/ HookReturns(k) PROVE Waiting'
    BY <1>2, <1>9 DEF RunHook, HookReturns
  <1> QED BY <1>4, <1>5, <1>6, <1>7, <1>8, <1>9 DEF Next, TaskStep, ConnShutdown

-----------------------------------------------------------------------------
(* The descriptor table and the stages of connections and hooks.             *)

(* Dropping a socket frees its number and nothing else.                      *)
LEMMA CloseStep ==
  ASSUME IInv, NEW k \in Conn, Close(k), fdOwner' = Freed({sock[k]}),
         UNCHANGED <<dup, blk, hook>>, conn[k] # "queued"
  PROVE  Table' /\ Stages'
  <1> USE ListenerAssumption
  <1>0. TypeOK /\ Table /\ Stages
    BY DEF IInv
  <1>1. Table'
    BY <1>0 DEF Table, TypeOK, Close, Freed
  <1>2. Stages'
    BY <1>0 DEF Stages, TypeOK, Close
  <1> QED BY <1>1, <1>2

(* Taking a free number for connection k, for its socket or for its hook.    *)
LEMMA OpenStep ==
  ASSUME IInv, NEW k \in Conn, FreeFds # {},
         fdOwner' = [fdOwner EXCEPT ![Min(FreeFds)] = k],
         \/ sock[k] = None /\ sock' = [sock EXCEPT ![k] = Min(FreeFds)] /\ dup' = dup
         \/ dup[k] = None /\ dup' = [dup EXCEPT ![k] = Min(FreeFds)] /\ sock' = sock
  PROVE  Table'
  <1> USE ListenerAssumption
  <1>0. TypeOK /\ Table
    BY DEF IInv
  <1> DEFINE n == Min(FreeFds)
  <1>1. n \in Fd /\ n # None /\ fdOwner[n] = None
    BY <1>0, MinFreeFd
  <1> HIDE DEF n
  <1>2. /\ \A j \in Conn : sock[j] # n /\ dup[j] # n
        /\ \A m \in Fd : m # n => fdOwner'[m] = fdOwner[m]
        /\ fdOwner'[n] = k
    BY <1>0, <1>1 DEF Table, TypeOK, n
  <1>3. CASE sock[k] = None /\ sock' = [sock EXCEPT ![k] = n] /\ dup' = dup
    BY <1>0, <1>1, <1>2, <1>3 DEF Table, TypeOK
  <1>4. CASE dup[k] = None /\ dup' = [dup EXCEPT ![k] = n] /\ sock' = sock
    BY <1>0, <1>1, <1>2, <1>4 DEF Table, TypeOK
  <1> QED BY <1>3, <1>4 DEF n

(* Connections that wait or are reset before they are accepted disturb no    *)
(* descriptor.                                                               *)
LEMMA StagesKept ==
  ASSUME IInv, UNCHANGED <<hook, sock, dup, fdOwner, blk>>,
         \A k \in Conn : \/ conn'[k] = conn[k]
                         \/ conn[k] \in {"new", "queued"} /\ conn'[k] \in {"queued", "gone"}
  PROVE  Table' /\ Stages'
  <1>1. Table'
    BY DEF IInv, Table
  <1>2. Stages'
    BY DEF IInv, Stages
  <1> QED BY <1>1, <1>2

LEMMA StageStep ==
  ASSUME IInv, Next PROVE Table' /\ Stages'
  <1> USE ListenerAssumption DEF call, hookv, KeepServer
  <1>0. TypeOK /\ Owned /\ Waiting /\ Table /\ Stages
    BY DEF IInv
  <1>2. ASSUME NEW ls \in SUBSET Listeners, DropListeners(ls),
               UNCHANGED <<hook, sock, dup, fdOwner, blk>>
        PROVE  Table' /\ Stages'
    BY <1>0, <1>2, DropKeeps, StagesKept
  <1>3. CASE CallStep \/ ApiCall
    <2>1. UNCHANGED <<hook, sock, dup, fdOwner, blk>>
      BY <1>3 DEF CallStep, ApiCall, StopReceives, StopPanics, Notify, AllExited, Elapsed,
                  Finish, Start, StopListen, Disconnect, Shutdown, SendStop, Cancel, DropServer
    <2>2. CASE Finish
      BY <1>0, <1>2, <2>1, <2>2, Droppable, StagesKept DEF Finish
    <2>3. \/ conn' = conn \/ Finish
          \/ DropListeners(Range(listeners)) \/ DropListeners({handed} \ {None})
      BY <1>3 DEF CallStep, ApiCall, StopReceives, StopPanics, Notify, AllExited, Elapsed,
                  Start, StopListen, Disconnect, Shutdown, SendStop, Cancel, DropServer
    <2> QED BY <1>0, <1>2, <2>1, <2>2, <2>3, Droppable, StagesKept
  <1>4. ASSUME NEW t \in Task, StreamEnds(t) \/ TakeStop(t) \/ StopClosed(t)
        PROVE  Table' /\ Stages'
    <2>1. {held[t]} \in SUBSET Listeners
      BY <1>0, <1>4 DEF StreamEnds, TakeStop, StopClosed, TypeOK, Owned
    <2>2. /\ DropListeners({held[t]}) \/ conn' = conn
          /\ UNCHANGED <<hook, sock, dup, fdOwner, blk>>
      BY <1>4 DEF StreamEnds, TakeStop, StopClosed, TaskEnds
    <2> QED BY <1>2, <2>1, <2>2, StagesKept
  <1>5. ASSUME NEW t \in Task, AcceptFails(t) \/ Accept(t) PROVE Table' /\ Stages'
    <2> DEFINE k == Head(backlog[held[t]])
    <2>1. k \in Conn /\ conn[k] = "queued"
      BY <1>0, <1>5 DEF AcceptFails, Accept, TypeOK, Owned, Waiting
    <2>2. CASE AcceptFails(t)
      <3>1. conn' = [conn EXCEPT ![k] = "gone"] /\ UNCHANGED <<hook, sock, dup, fdOwner, blk>>
        BY <2>2 DEF AcceptFails
      <3> HIDE DEF k
      <3> QED BY <1>0, <2>1, <3>1, StagesKept DEF TypeOK
    <2>3. CASE Accept(t)
      <3>1. /\ conn' = [conn EXCEPT ![k] = "accepted"] /\ UNCHANGED <<hook, dup, blk>>
            /\ \/ /\ FreeFds # {} /\ sock' = [sock EXCEPT ![k] = Min(FreeFds)]
                  /\ fdOwner' = [fdOwner EXCEPT ![Min(FreeFds)] = k]
               \/ UNCHANGED <<sock, fdOwner>>
        BY <2>3 DEF Accept
      <3> HIDE DEF k
      <3>2. sock[k] = None /\ dup[k] = None /\ blk[k] = "none"
        BY <1>0, <2>1 DEF Stages
      <3>3. Table'
        <4>1. CASE FreeFds # {} /\ sock' = [sock EXCEPT ![k] = Min(FreeFds)]
                   /\ fdOwner' = [fdOwner EXCEPT ![Min(FreeFds)] = k]
          BY <2>1, <3>1, <3>2, <4>1, OpenStep
        <4>2. CASE UNCHANGED <<sock, fdOwner>>
          BY <1>0, <3>1, <4>2 DEF Table
        <4> QED BY <3>1, <4>1, <4>2
      <3>4. Stages'
        BY <1>0, <2>1, <3>1, <3>2 DEF Stages, TypeOK
      <3> QED BY <3>3, <3>4
    <2> QED BY <1>5, <2>2, <2>3
  <1>6. ASSUME NEW k \in Conn, NEW l \in Listeners, Connect(k, l) PROVE Table' /\ Stages'
    <2>1. UNCHANGED <<hook, sock, dup, fdOwner, blk>>
      BY <1>6 DEF Connect
    <2>2. \A j \in Conn : \/ conn'[j] = conn[j]
                          \/ conn[j] \in {"new", "queued"} /\ conn'[j] \in {"queued", "gone"}
      BY <1>0, <1>6 DEF Connect, TypeOK
    <2> QED BY <2>1, <2>2, StagesKept
  <1>7. ASSUME NEW k \in Conn, NoHook(k) PROVE Table' /\ Stages'
    BY <1>0, <1>7 DEF NoHook, Serve, Table, Stages, TypeOK
  <1>8. ASSUME NEW k \in Conn, HookRefuses(k) \/ ConnEnds(k) PROVE Table' /\ Stages'
    BY <1>8, CloseStep DEF HookRefuses, ConnEnds
  <1>9. ASSUME NEW k \in Conn, StartHook(k) PROVE Table' /\ Stages'
    <2>1. /\ conn[k] = "accepted" /\ FreeFds # {} /\ UNCHANGED <<sock, hook>>
          /\ dup' = [dup EXCEPT ![k] = Min(FreeFds)]
          /\ fdOwner' = [fdOwner EXCEPT ![Min(FreeFds)] = k]
          /\ blk' = [blk EXCEPT ![k] = "queued"] /\ conn' = [conn EXCEPT ![k] = "hook"]
      BY <1>9 DEF StartHook, HookUnusable, DupFd
    <2>2. dup[k] = None
      BY <1>0, <2>1 DEF Stages, TypeOK
    <2>3. Table'
      BY <2>1, <2>2, OpenStep
    <2>4. Min(FreeFds) # None
      BY <1>0, <2>1, MinFreeFd
    <2>5. Stages'
      BY <1>0, <2>1, <2>4 DEF Stages, TypeOK
    <2> QED BY <2>3, <2>5
  <1>10. ASSUME NEW k \in Conn, RunHook(k) PROVE Table' /\ Stages'
    BY <1>0, <1>10 DEF RunHook, Table, Stages, TypeOK
  <1>11. ASSUME NEW k \in Conn, HookReturns(k) PROVE Table' /\ Stages'
    <2>1. Table'
      BY <1>0, <1>11 DEF HookReturns, Freed, Table, TypeOK
    <2>2. PICK r \in {"ok", "err"} : blk' = [blk EXCEPT ![k] = r]
      BY <1>11 DEF HookReturns
    <2>3. Stages'
      BY <1>0, <1>11, <2>2 DEF HookReturns, Stages, TypeOK
    <2> QED BY <2>1, <2>3
  <1>12. ASSUME NEW k \in Conn, HookResult(k) PROVE Table' /\ Stages'
    <2>1. CASE blk[k] = "ok"
      <3>1. /\ conn[k] = "hook" /\ conn' = [conn EXCEPT ![k] = "served"]
            /\ UNCHANGED <<hook, sock, dup, fdOwner, blk>>
        BY <1>12, <2>1 DEF HookResult, Serve
      <3>2. Table'
        BY <1>0, <3>1 DEF Table
      <3>3. Stages'
        BY <1>0, <2>1, <3>1 DEF Stages, TypeOK
      <3> QED BY <3>2, <3>3
    <2>2. CASE blk[k] # "ok"
      BY <1>12, <2>2, CloseStep DEF HookResult
    <2> QED BY <2>1, <2>2
  <1>13. ASSUME NEW k \in Conn, HookTimeout(k) PROVE Table' /\ Stages'
    <2>1. CASE blk[k] = "queued"
      <3>1. /\ conn[k] = "hook" /\ conn' = [conn EXCEPT ![k] = "gone"] /\ hook' = hook
            /\ sock' = [sock EXCEPT ![k] = None] /\ dup' = [dup EXCEPT ![k] = None]
            /\ blk' = [blk EXCEPT ![k] = "aborted"] /\ fdOwner' = Freed({sock[k], dup[k]})
        BY <1>13, <2>1 DEF HookTimeout, Close
      <3>2. Table'
        BY <1>0, <3>1 DEF Table, Freed, TypeOK
      <3>3. Stages'
        BY <1>0, <3>1 DEF Stages, TypeOK
      <3> QED BY <3>2, <3>3
    <2>2. CASE blk[k] # "queued"
      BY <1>13, <2>2, CloseStep DEF HookTimeout
    <2> QED BY <2>1, <2>2
  <1> QED
    BY <1>3, <1>4, <1>5, <1>6, <1>7, <1>8, <1>9, <1>10, <1>11, <1>12, <1>13
    DEF Next, TaskStep, ConnStep, ConnShutdown

-----------------------------------------------------------------------------
(* Completeness of the wait. A count of zero means that no accept task and   *)
(* no accepted connection is left; new ones come only from an accept task.   *)
LEMMA NoWaiters ==
  ASSUME Waiters = 0
  PROVE  /\ \A t \in Task : task[t] # "loop"
         /\ \A k \in Conn : conn[k] \notin {"accepted", "hook", "served"}
  <1> DEFINE T == {t \in Task : task[t] = "loop"}
             K == {k \in Conn : conn[k] \in WithWaiter}
  <1>1. IsFiniteSet(Task)
    BY ListenerAssumption, FS_Interval DEF Task
  <1>2. IsFiniteSet(T) /\ IsFiniteSet(K)
    BY <1>1, ListenerAssumption, FS_Subset
  <1>3. Cardinality(T) \in Nat /\ Cardinality(K) \in Nat
    BY <1>2, FS_CardinalityType
  <1>4. Cardinality(T) + Cardinality(K) = 0
    BY DEF Waiters
  <1> HIDE DEF T, K
  <1>5. Cardinality(T) = 0 /\ Cardinality(K) = 0
    BY <1>3, <1>4
  <1>6. T = {} /\ K = {}
    BY <1>2, <1>5, FS_EmptySet
  <1> QED BY <1>6 DEF T, K, WithWaiter

LEMMA NothingLeftStep ==
  ASSUME IInv, Next PROVE NothingLeft'
  <1> USE DEF call, hookv, KeepServer
  <1>0. TypeOK /\ Owned /\ Waiting /\ NothingLeft
    BY DEF IInv
  <1>1. ASSUME NEW ls \in SUBSET Listeners, DropListeners(ls) PROVE
          \A k \in Conn : conn'[k] \in {"accepted", "hook", "served"} => conn'[k] = conn[k]
    BY <1>0, <1>1, DropKeeps
  <1>2. CASE AllExited
    <2>1. UNCHANGED task
      BY <1>2 DEF AllExited, Finish
    <2>2. \A k \in Conn : conn'[k] \in {"accepted", "hook", "served"} => conn'[k] = conn[k]
      BY <1>0, <1>1, <1>2, Droppable DEF AllExited, Finish
    <2> QED BY <1>2, <2>1, <2>2, NoWaiters DEF AllExited, NothingLeft
  <1>3. CASE Start
    BY <1>3 DEF Start, NothingLeft
  <1>4. ASSUME drained' = drained, drained => \A t \in Task : task'[t] = "loop" => task[t] = "loop",
               drained => \A k \in Conn : conn'[k] \in {"accepted", "hook", "served"} =>
                            conn[k] \in {"accepted", "hook", "served"}
        PROVE  NothingLeft'
    BY <1>0, <1>4 DEF NothingLeft
  <1>5. CASE StopReceives \/ StopPanics \/ Notify \/ Elapsed \/ StopListen \/ Disconnect
             \/ Shutdown \/ Cancel \/ DropServer
    <2>1. UNCHANGED <<drained, task>>
      BY <1>5 DEF StopReceives, StopPanics, Notify, Elapsed, Finish, StopListen, Disconnect,
                  Shutdown, SendStop, Cancel, DropServer
    <2>2. CASE Elapsed
      BY <1>0, <1>1, <1>4, <2>1, <2>2, Droppable DEF Elapsed, Finish
    <2>3. \/ conn' = conn \/ Elapsed
          \/ DropListeners(Range(listeners)) \/ DropListeners({handed} \ {None})
      BY <1>5 DEF StopReceives, StopPanics, Notify, StopListen, Disconnect, Shutdown, SendStop,
                  Cancel, DropServer
    <2> QED BY <1>0, <1>1, <1>4, <2>1, <2>2, <2>3, Droppable
  <1>6. ASSUME NEW t \in Task,
               Accept(t) \/ AcceptFails(t) \/ StreamEnds(t) \/ TakeStop(t) \/ StopClosed(t)
        PROVE  NothingLeft'
    <2>1. task[t] = "loop" /\ drained' = drained
      BY <1>6 DEF Accept, AcceptFails, StreamEnds, TakeStop, StopClosed, TaskEnds
    <2> QED BY <1>0, <2>1 DEF NothingLeft
  <1>7. ASSUME NEW k \in Conn, ConnStep(k) \/ ConnEnds(k) PROVE NothingLeft'
    <2>1. conn[k] \in {"accepted", "hook", "served"} /\ drained' = drained
      BY <1>7 DEF ConnStep, ConnEnds, NoHook, HookRefuses, StartHook, HookResult, HookTimeout
    <2> QED BY <1>0, <2>1 DEF NothingLeft
  <1>8. ASSUME NEW k \in Conn, RunHook(k) \/ HookReturns(k) PROVE NothingLeft'
    BY <1>0, <1>8 DEF RunHook, HookReturns, NothingLeft
  <1>9. ASSUME NEW k \in Conn, NEW l \in Listeners, Connect(k, l) PROVE NothingLeft'
    BY <1>0, <1>9 DEF Connect, NothingLeft, TypeOK
  <1> QED
    BY <1>2, <1>3, <1>5, <1>6, <1>7, <1>8, <1>9
    DEF Next, CallStep, ApiCall, TaskStep, ConnShutdown

-----------------------------------------------------------------------------
(* The stop request of the latest start.                                     *)
LEMMA StoppingStep ==
  ASSUME IInv, Next PROVE Stopping'
  <1> USE ListenerAssumption DEF call, hookv, KeepServer
  <1>0. TypeOK /\ Owned /\ Stopping
    BY DEF IInv
  <1>1. CASE UNCHANGED <<listeners, tx, svc, shutdown, task, req, handed>>
    BY <1>0, <1>1 DEF Stopping, Latest
  <1>13. ASSUME task' = task PROVE \A t \in Task : Latest(t)' <=> Latest(t)
    BY <1>13 DEF Latest
  <1>2. CASE Start
    <2>1. PICK t \in Task : /\ task[t] = "none" /\ \A u \in 1..(t - 1) : task[u] # "none"
                            /\ task' = [task EXCEPT ![t] = "loop"] /\ tx' = t
      BY <1>2 DEF Start
    <2>2. svc = "idle" /\ UNCHANGED <<svc, shutdown, req, handed>>
      BY <1>2 DEF Start
    <2>3. \A u \in Task : u < t => task[u] # "none"
      BY <2>1 DEF Task
    <2>4. \A u \in Task : u > t => task[u] = "none"
      BY <1>0, <2>1 DEF Stopping
    <2>5. task'[t] = "loop" /\ \A u \in Task : u # t => task'[u] = task[u]
      BY <1>0, <2>1 DEF TypeOK
    <2>6. \A u \in Task : req[u] # "sent"
      BY <1>0, <2>2 DEF Stopping
    <2>7. req[t] = "none" /\ t # None
      BY <1>0, <2>1 DEF Stopping, Task
    <2>8. \A u, v \in Task : u < v /\ task'[v] # "none" => task'[u] # "none"
      <3> SUFFICES ASSUME NEW u \in Task, NEW v \in Task, u < v, task'[v] # "none"
                   PROVE  task'[u] # "none"
        OBVIOUS
      <3>1. u \in Nat /\ v \in Nat /\ t \in Nat
        BY DEF Task
      <3>2. CASE v = t
        BY <2>3, <2>5, <3>1, <3>2
      <3>3. CASE v # t
        <4>1. task[u] # "none"
          BY <1>0, <2>5, <3>3 DEF Stopping
        <4> QED BY <2>5, <4>1
      <3> QED BY <3>2, <3>3
    <2>9. Latest(t)'
      <3>1. \A u \in Task : u > t => task'[u] = "none"
        BY <2>4, <2>5 DEF Task
      <3> QED BY <2>5, <3>1 DEF Latest
    <2> QED BY <1>0, <2>1, <2>2, <2>5, <2>6, <2>7, <2>8, <2>9 DEF Stopping
  <1>3. CASE StopListen \/ Shutdown
    <2>1. CASE tx # None
      <3>1. /\ svc = "idle" /\ tx' = None /\ UNCHANGED <<listeners, shutdown, task, handed>>
            /\ IF task[tx] = "loop" THEN req' = [req EXCEPT ![tx] = "sent"] /\ svc' = "stop"
               ELSE svc' = "panicked" /\ req' = req
        BY <1>3, <2>1 DEF StopListen, Shutdown, SendStop
      <3>2. tx \in Task
        BY <1>0, <2>1 DEF TypeOK
      <3> QED BY <1>0, <2>1, <3>1, <3>2 DEF Stopping, Latest, TypeOK
    <2>2. CASE tx = None
      BY <1>0, <1>3, <2>2 DEF StopListen, Shutdown, Stopping, Latest
    <2> QED BY <2>1, <2>2
  <1>4. CASE StopReceives
    <2>1. /\ svc = "stop" /\ listeners' # <<>> /\ req' = Answered /\ svc' \in {"idle", "notify"}
          /\ UNCHANGED <<tx, shutdown, task>>
      BY <1>4 DEF StopReceives
    <2>2. \A t \in Task : req'[t] # "sent" /\ (req[t] = "none" => req'[t] = "none")
      BY <1>0, <2>1 DEF Answered, TypeOK
    <2> QED BY <1>0, <1>13, <2>1, <2>2 DEF Stopping, TypeOK
  <1>5. CASE StopPanics
    <2>1. /\ UNCHANGED <<listeners, tx, shutdown, task, req, handed>> /\ svc' = "panicked"
          /\ svc = "stop" /\ handed = None /\ \E t \in Task : req[t] = "sent" /\ task[t] # "loop"
      BY <1>5 DEF StopPanics
    <2>2. \E t \in Task : task[t] = "ended"
      BY <1>0, <2>1 DEF Stopping
    <2> QED BY <1>0, <1>13, <2>1, <2>2 DEF Stopping
  <1>15. ASSUME UNCHANGED <<tx, task, req, handed>>, svc \in {"idle", "notify", "wait"},
                svc' \in {"idle", "notify", "wait"}, svc' = "wait" => shutdown',
                shutdown' \/ (UNCHANGED <<listeners, shutdown>>)
         PROVE  Stopping'
    <2>1. \A t \in Task : req'[t] # "sent"
      BY <1>0, <1>15 DEF Stopping
    <2>2. svc' # "stop" /\ svc' # "panicked"
      BY <1>15
    <2>3. tx' # None => task'[tx'] \in {"loop", "ended"} /\ req'[tx'] = "none" /\ Latest(tx)'
      BY <1>0, <1>13, <1>15 DEF Stopping, TypeOK
    <2>4. shutdown \/ (tx = None /\ listeners = <<>> /\ Listeners # {} =>
                          \E t \in Task : req[t] = "dropped" /\ Latest(t))
      BY <1>0, <1>15, Zenon DEF Stopping
    <2>5. tx' = None /\ listeners' = <<>> /\ Listeners # {} =>
            shutdown' \/ \E t \in Task : req'[t] = "dropped" /\ Latest(t)'
      <3>1. CASE shutdown'
        BY <3>1
      <3>2. CASE UNCHANGED <<listeners, shutdown>>
        BY <1>13, <1>15, <2>4, <3>2
      <3> QED BY <1>15, <3>1, <3>2
    <2>6. /\ \A t, u \in Task : t < u /\ task'[u] # "none" => task'[t] # "none"
          /\ \A t \in Task : task'[t] = "none" => req'[t] = "none"
      BY <1>0, <1>15 DEF Stopping
    <2> QED BY <1>15, <2>1, <2>2, <2>3, <2>5, <2>6 DEF Stopping
  <1>14. CASE Notify \/ Disconnect
    <2>1. CASE Notify
      BY <1>15, <2>1 DEF Notify
    <2>2. CASE Disconnect
      BY <1>15, <2>2 DEF Disconnect
    <2> QED BY <1>14, <2>1, <2>2
  <1>6. CASE AllExited \/ Elapsed
    <2>1. /\ svc = "wait" /\ svc' = "idle" /\ UNCHANGED <<tx, task, req, handed, shutdown>>
      BY <1>6 DEF AllExited, Elapsed, Finish
    <2>2. shutdown
      BY <1>0, <2>1 DEF Stopping
    <2> QED BY <1>15, <2>1, <2>2
  <1>7. CASE Cancel
    <2>1. /\ svc \in {"stop", "wait"} /\ svc' = "idle" /\ UNCHANGED <<listeners, tx, shutdown, task>>
          /\ req' = [t \in Task |-> IF req[t] = "sent" THEN "dropped" ELSE req[t]]
      BY <1>7 DEF Cancel
    <2>2. \A t \in Task : req'[t] = IF req[t] = "sent" THEN "dropped" ELSE req[t]
      BY <2>1
    <2>3. CASE svc = "wait"
      <3>1. shutdown /\ \A t \in Task : req[t] # "sent"
        BY <1>0, <2>3 DEF Stopping
      <3>2. \A t \in Task : req'[t] = req[t]
        BY <2>2, <3>1
      <3>3. tx' # None => task'[tx'] \in {"loop", "ended"} /\ req'[tx'] = "none" /\ Latest(tx)'
        BY <1>0, <1>13, <2>1, <3>2 DEF Stopping, TypeOK
      <3>4. /\ \A t, u \in Task : t < u /\ task'[u] # "none" => task'[t] # "none"
            /\ \A t \in Task : task'[t] = "none" => req'[t] = "none"
        BY <1>0, <2>1, <3>2 DEF Stopping
      <3> QED BY <2>1, <3>1, <3>2, <3>3, <3>4 DEF Stopping
    <2>4. CASE svc = "stop"
      <3>1. \E t \in Task : req'[t] = "dropped" /\ Latest(t)
        BY <1>0, <2>2, <2>4 DEF Stopping
      <3>2. tx = None /\ \A t \in Task : req'[t] # "sent" /\ (req[t] = "none" => req'[t] = "none")
        BY <1>0, <2>2, <2>4 DEF Stopping
      <3> QED BY <1>0, <1>13, <2>1, <3>1, <3>2 DEF Stopping
    <2> QED BY <2>1, <2>3, <2>4
  <1>8. CASE DropServer
    BY <1>0, <1>8 DEF DropServer, Stopping, Latest
  <1>9. ASSUME NEW t \in Task, StreamEnds(t) \/ TakeStop(t) \/ StopClosed(t) PROVE Stopping'
    <2>1. /\ task[t] = "loop" /\ held[t] # None
          /\ UNCHANGED <<listeners, tx, svc, shutdown, req>>
      BY <1>0, <1>9 DEF StreamEnds, TakeStop, StopClosed, TaskEnds, Owned
    <2>2. PICK how \in {"done", "ended"} : task' = [task EXCEPT ![t] = how]
      BY <1>9 DEF StreamEnds, TakeStop, StopClosed, TaskEnds
    <2>3. task'[t] = how /\ \A u \in Task : u # t => task'[u] = task[u]
      BY <1>0, <2>2 DEF TypeOK
    <2>4. /\ handed # None => handed' # None
          /\ how = "done" => tx # t /\ (req[t] = "sent" => handed' # None)
      <3>1. CASE StreamEnds(t)
        BY <1>0, <2>2, <3>1 DEF StreamEnds, TaskEnds, TypeOK
      <3>2. CASE TakeStop(t)
        BY <1>0, <2>1, <3>2 DEF TakeStop, Stopping, Task
      <3>3. CASE StopClosed(t)
        BY <3>3 DEF StopClosed
      <3> QED BY <1>9, <3>1, <3>2, <3>3
    <2>5. \A u \in Task : (task'[u] = "none") <=> (task[u] = "none")
      BY <2>1, <2>3
    <2>6. \A u \in Task : Latest(u)' <=> Latest(u)
      BY <2>5 DEF Latest
    <2>7. tx' # None => task'[tx'] \in {"loop", "ended"} /\ req'[tx'] = "none" /\ Latest(tx)'
      BY <1>0, <2>1, <2>3, <2>4, <2>6 DEF Stopping, TypeOK
    <2>8. \A u \in Task : req'[u] = "sent" =>
            /\ svc' \notin {"idle", "notify", "wait"} /\ Latest(u)'
            /\ svc' = "stop" => (handed' # None \/ task'[u] \in {"loop", "ended"})
      BY <1>0, <2>1, <2>3, <2>4, <2>6 DEF Stopping
    <2>9. svc' = "panicked" => \E u \in Task : task'[u] = "ended"
      BY <1>0, <2>1, <2>3 DEF Stopping
    <2>10. svc' \in {"idle", "notify", "wait"} /\ tx' = None /\ listeners' = <<>> /\ Listeners # {} =>
             shutdown' \/ \E u \in Task : req'[u] = "dropped" /\ Latest(u)'
      BY <1>0, <2>1, <2>6 DEF Stopping
    <2>11. /\ \A u, v \in Task : u < v /\ task'[v] # "none" => task'[u] # "none"
           /\ \A u \in Task : task'[u] = "none" => req'[u] = "none"
           /\ svc' = "stop" => tx' = None /\ \E u \in Task : req'[u] = "sent"
           /\ svc' = "wait" => shutdown'
      BY <1>0, <2>1, <2>5 DEF Stopping
    <2> QED BY <2>7, <2>8, <2>9, <2>10, <2>11 DEF Stopping
  <1>10. ASSUME NEW t \in Task, Accept(t) \/ AcceptFails(t) PROVE Stopping'
    BY <1>1, <1>10 DEF Accept, AcceptFails
  <1>11. ASSUME NEW k \in Conn, ConnStep(k) \/ ConnEnds(k) \/ RunHook(k) \/ HookReturns(k)
         PROVE  Stopping'
    BY <1>1, <1>11 DEF ConnStep, ConnEnds, RunHook, HookReturns, NoHook, HookRefuses, StartHook,
                       HookResult, HookTimeout
  <1>12. ASSUME NEW k \in Conn, NEW l \in Listeners, Connect(k, l) PROVE Stopping'
    BY <1>1, <1>12 DEF Connect
  <1> QED
    BY <1>2, <1>3, <1>4, <1>5, <1>6, <1>7, <1>8, <1>9, <1>10, <1>11, <1>12, <1>14
    DEF Next, CallStep, ApiCall, TaskStep, ConnShutdown

-----------------------------------------------------------------------------
LEMMA InitIInv == Init => IInv
  <1> SUFFICES ASSUME Init PROVE IInv
    OBVIOUS
  <1> USE ListenerAssumption
  <1> DEFINE n == Cardinality(Listeners)
  <1>1. n \in Nat
    BY FS_CardinalityType
  <1>2. /\ listeners \in [1..n -> Listeners]
        /\ \A i, j \in 1..n : i # j => listeners[i] # listeners[j]
    BY DEF Init, SetToSeqs
  <1> HIDE DEF n
  <1>3. listeners \in Seq(Listeners) /\ Len(listeners) = n
    BY <1>1, <1>2
  <1>4. TypeOK
    <2>1. /\ task \in [Task -> {"none", "loop", "done", "ended"}]
          /\ held \in [Task -> Listeners \union {None}]
          /\ req \in [Task -> {"none", "sent", "dropped"}]
      BY DEF Init
    <2>2. backlog \in [Listeners -> Seq(Conn)] /\ conn \in [Conn -> ConnStage]
      BY DEF Init, ConnStage
    <2>3. /\ sock \in [Conn -> Fd \union {None}] /\ dup \in [Conn -> Fd \union {None}]
          /\ fdOwner \in [Fd -> Conn \union {None}]
          /\ blk \in [Conn -> {"none", "queued", "running", "ok", "err", "aborted"}]
      BY DEF Init
    <2> QED BY <1>3, <2>1, <2>2, <2>3 DEF Init, TypeOK
  <1>5. Owned
    BY <1>2, <1>3 DEF Init, Owned
  <1>6. NothingLeft /\ Waiting /\ Table /\ Stages
    BY DEF Init, NothingLeft, Waiting, Table, Stages
  <1>7. Stopping
    <2>1. listeners = <<>> => Listeners = {}
      <3>1. listeners = <<>> => n = 0
        BY <1>3
      <3> QED BY <3>1, FS_EmptySet DEF n
    <2> QED BY <2>1 DEF Init, Stopping
  <1> QED BY <1>4, <1>5, <1>6, <1>7 DEF IInv

(* The inductive invariant.                                                  *)
THEOREM Invariance == Spec => []IInv
  <1>1. IInv /\ [Next]_vars => IInv'
    <2> SUFFICES ASSUME IInv, [Next]_vars PROVE IInv'
      OBVIOUS
    <2>1. CASE Next
      BY <2>1, TypeStep, OwnedStep, WaitingStep, StageStep, NothingLeftStep, StoppingStep
      DEF IInv
    <2>2. CASE UNCHANGED vars
      BY <2>2 DEF vars, call, hookv, IInv, TypeOK, Owned, NothingLeft, Waiting, Table, Stages,
                  Stopping, Latest
    <2> QED BY <2>1, <2>2
  <1> QED BY InitIInv, <1>1, PTL DEF Spec

(* stop_listen preserves the listener, for any number of listeners and       *)
(* starts: its unwraps panic only when a custom stream ended, and a server   *)
(* is left with nothing to start from only by shutdown or by a cancelled     *)
(* stop of its latest start (asynchronous/server.rs:226-305, 340-350).       *)
THEOREM ListenerIsKept == Spec => []ListenerKept
  <1>1. IInv => ListenerKept
    BY DEF IInv, Stopping, Latest, ListenerKept
  <1> QED BY <1>1, Invariance, PTL

(* disconnect and shutdown that return before the time-out leave no accept   *)
(* task and no accepted connection, hook included: the waiter is cloned      *)
(* before the connection's task is spawned.                                  *)
THEOREM DisconnectIsComplete == Spec => []NothingLeft
  <1>1. IInv => NothingLeft
    BY DEF IInv
  <1> QED BY <1>1, Invariance, PTL

(* The accept hook works on its own connection, whatever time-outs drop and  *)
(* whatever numbers the kernel gives out again, and no connection is served  *)
(* that its hook has not accepted.                                           *)
THEOREM HookIsSound == Spec => []HookSound
  <1>1. IInv => HookSound
    BY DEF IInv, Table, Stages, HookSound
  <1> QED BY <1>1, Invariance, PTL
=============================================================================
