--------------------------- MODULE SyncServerProofs ---------------------------
(***************************************************************************)
(* Proofs about one connection of the synchronous server, for any pool     *)
(* thresholds that Server::start accepts and any number of requests: the   *)
(* waiting-thread count never underflows and is exact until quit, the pool *)
(* bound holds, and the descriptor is closed after the last I/O.           *)
(*                                                                         *)
(* CountExact says nothing once quit is set, and workers that leave then   *)
(* stay counted. PoolBound and the type of wtc need what holds in both     *)
(* phases: wtc is never below the number of counted threads (Covered).     *)
(***************************************************************************)
EXTENDS SyncServer, TLAPS

USE PoolAssumption

(* Every thread between its fetch_add and its fetch_sub is counted.          *)
Covered == wtc >= at["recv"] + at["woken"] + at["taken"] + at["over"] + at["closed"]

(* The reader leaves its loop only with quit set.                            *)
ReaderQuits == reader \in {"ctl", "done"} => quit

(* What client_handler has joined stays ended.                               *)
Joined ==
  /\ main \in {"sync", "end"} => reader = "done" /\ responder = "done"
  /\ fd = "closed" => main = "end"

IInv ==
  /\ TypeOK /\ Covered /\ PoolBound /\ CountExact /\ RecvErrorMeansQuit
  /\ ReaderQuits /\ Joined

(* Moving a thread changes the counts of its two control points by one.      *)
LEMMA MoveCounts ==
  ASSUME at \in [WorkerPC -> Nat], NEW p \in WorkerPC, NEW q \in WorkerPC, p # q, Move(p, q)
  PROVE  /\ at' \in [WorkerPC -> Nat]
         /\ at[p] > 0 /\ at'[p] = at[p] - 1 /\ at'[q] = at[q] + 1
         /\ \A r \in WorkerPC \ {p, q} : at'[r] = at[r]
  BY DEF Move, WorkerPC

(* A thread that ends leaves the other counts alone.                         *)
LEMMA LeaveCounts ==
  ASSUME at \in [WorkerPC -> Nat], NEW p \in WorkerPC, Leave(p)
  PROVE  /\ at' \in [WorkerPC -> Nat]
         /\ at[p] > 0 /\ at'[p] = at[p] - 1
         /\ \A r \in WorkerPC \ {p} : at'[r] = at[r]
  BY DEF Leave, WorkerPC

(* A control message moves client_handler back to its loop at most.          *)
LEMMA ControlKeeps ==
  ASSUME IInv, ControlSend
  PROVE  /\ main' \in {"start", "loop", "check", "refill", "recv", "join", "sync", "end"}
         /\ main' \in {"sync", "end"} <=> main \in {"sync", "end"}
         /\ main = "end" <=> main' = "end"
  BY DEF IInv, TypeOK, ControlSend, ControlRx

(* The client_handler thread preserves the invariant: a refill starts        *)
(* Default - wtc threads, which is not negative because wtc < MinWait.       *)
LEMMA MainInv ==
  ASSUME IInv, MainStep
  PROVE  IInv'
  <1> USE DEF IInv, TypeOK, Covered, PoolBound, CountExact, RecvErrorMeansQuit, ReaderQuits,
              Joined, dataVars, fdVars, poolVars
  <1>1. CASE Spawn
    BY <1>1 DEF Spawn, WorkerPC
  <1>2. CASE Spawned
    BY <1>2 DEF Spawned
  <1>3. CASE MainLoop
    BY <1>3 DEF MainLoop
  <1>4. CASE CheckThreads
    BY <1>4 DEF CheckThreads
  <1>5. CASE Join
    BY <1>5 DEF Join
  <1>6. CASE NotifyReaper
    BY <1>6 DEF NotifyReaper
  <1> QED BY <1>1, <1>2, <1>3, <1>4, <1>5, <1>6 DEF MainStep

(* The reader and the response thread preserve the invariant.                *)
LEMMA ReaderInv ==
  ASSUME IInv, \/ ReaderStep \/ ReadFrame \/ ReadOther \/ ReadSocketError \/ ResponderStep
  PROVE  IInv'
  <1> USE DEF IInv, TypeOK, Covered, PoolBound, CountExact, RecvErrorMeansQuit, ReaderQuits,
              Joined, dataVars, fdVars, poolVars
  <1>1. CASE ReaderLoop
    BY <1>1 DEF ReaderLoop
  <1>2. CASE SendWorkload
    <2>1. CASE ControlRx \/ Workers > 0
      BY <1>2, <2>1 DEF SendWorkload
    <2>2. CASE ~(ControlRx \/ Workers > 0)
      BY <1>2, <2>2 DEF SendWorkload
    <2> QED BY <2>1, <2>2
  <1>3. CASE ReaderControl
    BY <1>3, ControlKeeps DEF ReaderControl
  <1>4. CASE ReadFrame
    BY <1>4 DEF ReadFrame
  <1>5. CASE ReadOther
    BY <1>5 DEF ReadOther
  <1>6. CASE ReadSocketError
    BY <1>6 DEF ReadSocketError
  <1>7. CASE WriteOk
    BY <1>7 DEF WriteOk
  <1>8. CASE WriteFails
    BY <1>8 DEF WriteFails
  <1>9. CASE ResponderEnds
    BY <1>9 DEF ResponderEnds
  <1> QED BY <1>1, <1>2, <1>3, <1>4, <1>5, <1>6, <1>7, <1>8, <1>9 DEF ReaderStep, ResponderStep

WorkerStep ==
  \/ WorkerLoop \/ WorkerAdd \/ WorkerOver \/ WorkerRecv \/ WorkerRecvError \/ WorkerWoken
  \/ WorkerTaken \/ WorkerClosed \/ WorkerNotify \/ WorkerRespond \/ WorkerSkip
  \/ WorkerFails \/ WorkerQuit

(* The workers preserve the invariant. A worker starts to wait only when the *)
(* count, and by Covered the number of waiting workers, stays within MaxWait.*)
LEMMA WorkerInv ==
  ASSUME IInv, WorkerStep
  PROVE  IInv'
  <1> USE DEF IInv, TypeOK, Covered, PoolBound, CountExact, RecvErrorMeansQuit, ReaderQuits,
              Joined, dataVars, fdVars, poolVars
  <1>0. WorkerPC = {"loop", "add", "over", "recv", "woken", "taken", "closed", "notify", "handle",
                    "quit"}
    BY DEF WorkerPC
  <1>1. CASE WorkerLoop
    <2>1. CASE quit
      BY <1>0, <1>1, <2>1, LeaveCounts DEF WorkerLoop
    <2>2. CASE ~quit
      <3>1. Move("loop", "add")
        BY <1>1, <2>2 DEF WorkerLoop
      <3>2. at' \in [WorkerPC -> Nat] /\ \A r \in WorkerPC \ {"loop", "add"} : at'[r] = at[r]
        BY <1>0, <3>1, MoveCounts
      <3> QED BY <1>0, <1>1, <3>2 DEF WorkerLoop
    <2> QED BY <2>1, <2>2
  <1>2. CASE WorkerAdd
    <2>1. CASE wtc + 1 > MaxWait
      <3>1. Move("add", "over")
        BY <1>2, <2>1 DEF WorkerAdd
      <3>2. /\ at' \in [WorkerPC -> Nat] /\ at'["over"] = at["over"] + 1
            /\ at'["recv"] = at["recv"] /\ at'["woken"] = at["woken"] /\ at'["closed"] = at["closed"]
            /\ at'["taken"] = at["taken"]
        BY <1>0, <3>1, MoveCounts
      <3>3. \A p \in WorkerPC : at[p] \in Nat
        OBVIOUS
      <3> QED BY <1>0, <1>2, <3>2, <3>3 DEF WorkerAdd
    <2>2. CASE ~(wtc + 1 > MaxWait)
      <3>1. Move("add", "recv")
        BY <1>2, <2>2 DEF WorkerAdd
      <3>2. /\ at' \in [WorkerPC -> Nat] /\ at'["recv"] = at["recv"] + 1
            /\ at'["over"] = at["over"] /\ at'["woken"] = at["woken"] /\ at'["closed"] = at["closed"]
            /\ at'["taken"] = at["taken"]
        BY <1>0, <3>1, MoveCounts
      <3>3. \A p \in WorkerPC : at[p] \in Nat
        OBVIOUS
      <3> QED BY <1>0, <1>2, <2>2, <3>2, <3>3 DEF WorkerAdd
    <2> QED BY <2>1, <2>2
  <1>3. CASE WorkerOver
    <2>1. /\ at' \in [WorkerPC -> Nat] /\ at["over"] > 0 /\ at'["over"] = at["over"] - 1
          /\ \A r \in {"recv", "woken", "taken", "closed"} : at'[r] = at[r]
      BY <1>0, <1>3, LeaveCounts DEF WorkerOver
    <2>2. \A p \in WorkerPC : at[p] \in Nat
      OBVIOUS
    <2> QED BY <1>0, <1>3, <2>1, <2>2 DEF WorkerOver
  <1>4. CASE WorkerRecv
    <2>1. /\ at' \in [WorkerPC -> Nat] /\ at'["recv"] = at["recv"] - 1
          /\ at'["woken"] = at["woken"] + 1
          /\ \A r \in {"taken", "over", "closed"} : at'[r] = at[r]
      BY <1>0, <1>4, MoveCounts DEF WorkerRecv
    <2>2. \A p \in WorkerPC : at[p] \in Nat
      OBVIOUS
    <2> QED BY <1>0, <1>4, <2>1, <2>2 DEF WorkerRecv
  <1>5. CASE WorkerRecvError
    BY <1>0, <1>5, MoveCounts DEF WorkerRecvError
  <1>6. CASE WorkerWoken
    <2>1. CASE quit
      BY <1>0, <1>6, <2>1, MoveCounts DEF WorkerWoken
    <2>2. CASE ~quit
      BY <1>0, <1>6, <2>2, MoveCounts DEF WorkerWoken
    <2> QED BY <2>1, <2>2
  <1>7. CASE WorkerClosed
    BY <1>0, <1>7, MoveCounts DEF WorkerClosed
  <1>8. CASE WorkerNotify
    <2>1. at' \in [WorkerPC -> Nat] /\ \A r \in WorkerPC \ {"notify", "handle"} : at'[r] = at[r]
      BY <1>0, <1>8, MoveCounts DEF WorkerNotify
    <2> QED BY <1>0, <1>8, <2>1, ControlKeeps DEF WorkerNotify
  <1>9. CASE WorkerRespond
    <2>1. at' \in [WorkerPC -> Nat] /\ \A r \in WorkerPC \ {"handle", "loop"} : at'[r] = at[r]
      BY <1>0, <1>9, MoveCounts DEF WorkerRespond
    <2> QED BY <1>0, <1>9, <2>1 DEF WorkerRespond
  <1>10. CASE WorkerSkip
    <2>1. at' \in [WorkerPC -> Nat] /\ \A r \in WorkerPC \ {"handle", "loop"} : at'[r] = at[r]
      BY <1>0, <1>10, MoveCounts DEF WorkerSkip
    <2> QED BY <1>0, <1>10, <2>1 DEF WorkerSkip
  <1>11. CASE WorkerFails
    <2>1. at' \in [WorkerPC -> Nat] /\ \A r \in WorkerPC \ {"handle", "quit"} : at'[r] = at[r]
      BY <1>0, <1>11, MoveCounts DEF WorkerFails
    <2> QED BY <1>0, <1>11, <2>1 DEF WorkerFails
  <1>12. CASE WorkerQuit
    <2>1. at' \in [WorkerPC -> Nat] /\ \A r \in WorkerPC \ {"quit"} : at'[r] = at[r]
      BY <1>0, <1>12, LeaveCounts DEF WorkerQuit
    <2> QED BY <1>0, <1>12, <2>1, ControlKeeps DEF WorkerQuit
  <1>13. CASE WorkerTaken
    <2>1. CASE wtc - 1 < MinWait
      BY <1>0, <1>13, <2>1, MoveCounts DEF WorkerTaken
    <2>2. CASE ~(wtc - 1 < MinWait)
      BY <1>0, <1>13, <2>2, MoveCounts DEF WorkerTaken
    <2> QED BY <2>1, <2>2
  <1> QED BY <1>1, <1>2, <1>3, <1>4, <1>5, <1>6, <1>7, <1>8, <1>9, <1>10, <1>11, <1>12, <1>13
          DEF WorkerStep

(* The listener, Server::disconnect and the reaper preserve the invariant.   *)
LEMMA ServerInv ==
  ASSUME IInv, Insert \/ DisconnectQuit \/ DisconnectSocket \/ Reap
  PROVE  IInv'
  <1> USE DEF IInv, TypeOK, Covered, PoolBound, CountExact, RecvErrorMeansQuit, ReaderQuits,
              Joined, dataVars, fdVars, poolVars
  <1>1. CASE Insert
    BY <1>1 DEF Insert
  <1>2. CASE DisconnectQuit
    BY <1>2 DEF DisconnectQuit
  <1>3. CASE DisconnectSocket
    BY <1>3 DEF DisconnectSocket
  <1>4. CASE Reap
    <2>1. CASE inMap = "yes"
      BY <1>4, <2>1 DEF Reap
    <2>2. CASE inMap # "yes"
      BY <1>4, <2>2 DEF Reap
    <2> QED BY <2>1, <2>2
  <1> QED BY <1>1, <1>2, <1>3, <1>4

LEMMA Invariance == Spec => []IInv
  <1>1. Init => IInv
    <2> SUFFICES ASSUME Init PROVE IInv
      OBVIOUS
    <2>1. at \in [WorkerPC -> Nat] /\ \A p \in WorkerPC : at[p] = 0
      BY DEF Init
    <2>2. {"recv", "woken", "taken", "over", "closed"} \subseteq WorkerPC
      BY DEF WorkerPC
    <2>3. Covered /\ PoolBound /\ CountExact /\ RecvErrorMeansQuit
      BY <2>1, <2>2 DEF Init, Covered, PoolBound, CountExact, RecvErrorMeansQuit
    <2>4. TypeOK
      <3>1. left \in 0..Default /\ sent \in 0..MaxReq
        BY PoolAssumption DEF Init
      <3>2. wtc \in Nat /\ queue \in Nat /\ res \in Nat
        BY DEF Init
      <3>3. quit \in BOOLEAN /\ reapMsg \in BOOLEAN
        BY DEF Init
      <3> QED BY <2>1, <3>1, <3>2, <3>3, Zenon DEF Init, TypeOK
    <2>5. ReaderQuits /\ Joined
      BY DEF Init, ReaderQuits, Joined
    <2> QED BY <2>3, <2>4, <2>5 DEF IInv
  <1>2. IInv /\ [Next]_vars => IInv'
    <2> SUFFICES ASSUME IInv, [Next]_vars PROVE IInv'
      OBVIOUS
    <2>1. CASE UNCHANGED vars
      BY <2>1 DEF IInv, TypeOK, Covered, PoolBound, CountExact, RecvErrorMeansQuit,
                  ReaderQuits, Joined, vars, poolVars, dataVars, fdVars
    <2>2. CASE Next
      BY <2>2, MainInv, ReaderInv, WorkerInv, ServerInv DEF Next, WorkerStep
    <2> QED BY <2>1, <2>2
  <1> QED BY <1>1, <1>2, PTL DEF Spec

(* Type correctness; in particular wtc, an AtomicUsize, never underflows.    *)
THEOREM TypeCorrect == Spec => []TypeOK
  BY Invariance, PTL DEF IInv

(* Never more than thread_count_max workers wait for a frame.                *)
THEOREM PoolIsBounded == Spec => []PoolBound
  BY Invariance, PTL DEF IInv

(* Until quit, wtc counts the waiting workers and those backing out.         *)
THEOREM CountIsExact == Spec => []CountExact
  BY Invariance, PTL DEF IInv

(* A worker finds the workload channel closed only after quit was set.       *)
THEOREM ClosedAfterQuit == Spec => []RecvErrorMeansQuit
  BY Invariance, PTL DEF IInv

(* The reaper closes the descriptor only after both I/O threads have ended.  *)
THEOREM CloseIsLast == Spec => []CloseAfterIO
  <1>1. IInv => CloseAfterIO
    BY DEF IInv, Joined, CloseAfterIO
  <1> QED BY <1>1, Invariance, PTL
=============================================================================
