--------------------------- MODULE AsyncServerProofs ---------------------------
(***************************************************************************)
(* Proofs about a connection of the asynchronous server, for any set of    *)
(* unary and streaming requests, any number of DATA frames in either       *)
(* direction and any capacity of the channels; and about the shutdown      *)
(* notifier that the connection and the server wait with, for any finite   *)
(* sets of handles and callers.                                            *)
(***************************************************************************)
EXTENDS AsyncServer, Shutdown, FiniteSetTheorems, TLAPS

(* Frames the reader has not taken are unspawned, and it waits for the one   *)
(* whose task has not classified it: that task is never cancelled.           *)
Reading ==
  /\ run \in {"wait", "handle_err"} => frame \in Frame
  /\ \A f \in Frame : pc[f] \in {"start", "even_id"} => run = "wait" /\ frame = f
  /\ \A f \in Frame : pc[f] # "none" => f[2] < received[f[1]]
  /\ handler_shutdown => run \in {"exit", "end"}

(* What the control point of a frame's task says of the frame, of what it    *)
(* will respond, and of the stream's handler.                                *)
Tasks ==
  \A f \in Frame :
    /\ pc[f] \in {"none", "start"} => verdict[f] = "result"
    /\ pc[f] \in {"fake", "task"} => f[2] = 0
    /\ pc[f] = "deliver" => f[2] > 0 /\ verdict[f] = "result"
    /\ pc[f] = "method" => f[1] \in Unary
    /\ pc[f] \in {"fake", "task", "deliver"} => f[1] \in Stream /\ hpc[f[1]] # "none"
    /\ pc[f] = "even_id" => verdict[f] = "status"
    /\ verdict[f] = "inactive" => f[2] > 0
    /\ verdict[f] # "data"
    /\ (pc[f] = "respond" /\ verdict[f] = "result" /\ f[1] \in Stream) => hpc[f[1]] = "done"

(* A stream is registered exactly while its handler has the receiver, and    *)
(* its handler exists exactly when its REQUEST was accepted.                 *)
Handlers ==
  \A s \in Stream :
    /\ hrx[s] <=> s \in streams
    /\ hrx[s] => hpc[s] \in {"run", "sending"}
    /\ pc[<<s, 0>>] \in {"none", "start"} => hpc[s] = "none"
    /\ pc[<<s, 0>>] \in {"none", "start"} \/ hpc[s] # "none" \/ verdict[<<s, 0>>] = "status"

InTime ==
  \A s \in Stream : \A k \in 1..NumData + 1 :
    verdict[<<s, k>>] = "inactive" =>
      IF hpc[s] = "none"
      THEN pc[<<s, 0>>] = "none" \/ verdict[<<s, 0>>] = "status"
      ELSE ~hrx[s]

(* The writer holds a frame exactly while it writes; once it has ended there *)
(* is nothing queued; and it ends by itself only after everyone is gone.     *)
Writing ==
  /\ wstate = "write" => wmsg \in Msg
  /\ Ended => out = <<>>
  /\ wstate = "ok" => run = "end" /\ Waiters = {}

Queued(m) == (wstate = "write" /\ wmsg = m) \/ \E k \in 1..Len(out) : out[k] = m
Written(m) == \E k \in 1..Len(wire) : wire[k] = m

(* A DATA frame of a stream is on its way only while its handler awaits it,  *)
(* one at a time; the result of a stream follows its handler's return.       *)
DataMsg(s) == [rpc |-> s, kind |-> "data"]
Result(r) == [rpc |-> r, kind |-> "result"]
Flight ==
  /\ \A s \in Stream : Queued(DataMsg(s)) => hpc[s] = "sending"
  /\ \A s \in Stream : \A k, l \in 1..Len(out) : out[k] = DataMsg(s) /\ out[l] = DataMsg(s) => k = l
  /\ \A s \in Stream : wstate = "write" /\ wmsg = DataMsg(s) => \A k \in 1..Len(out) : out[k] # DataMsg(s)
  /\ \A r \in Unary : ~Queued(DataMsg(r))
  /\ \A s \in Stream : Queued(Result(s)) \/ Written(Result(s)) => hpc[s] = "done"

(* While nothing went wrong, a request whose task is gone has its answer on  *)
(* the way or on the wire.                                                   *)
Answered(r) == \E k \in {"result", "status"} : Queued([rpc |-> r, kind |-> k]) \/ Written([rpc |-> r, kind |-> k])
Failed == wstate \in {"err", "aborted"} \/ elapsed
Drain ==
  /\ handler_shutdown => Failed \/ (run = "end" /\ Waiters = {})
  /\ ~Failed => \A r \in Rpc : pc[<<r, 0>>] = "gone" => Answered(r)

IInv == TypeOK /\ Reading /\ Tasks /\ Handlers /\ InTime /\ Writing /\ Flight /\ Drain /\ ResultIsLast

-----------------------------------------------------------------------------
(* Frames are pairs, and TypeOK by component.                                *)
LEMMA Pairs ==
  /\ \A f \in Frame : /\ f = <<f[1], f[2]>> /\ f[1] \in Rpc /\ f[2] \in 0..NumData + 1
                      /\ f[2] > 0 => f[1] \in Stream
                      /\ f[1] \in Unary => f[2] = 0
  /\ \A r \in Rpc : <<r, 0>> \in Frame
  /\ \A s \in Stream : \A k \in 0..NumData + 1 : <<s, k>> \in Frame
  /\ \A s \in Stream : s \in Rpc /\ s \notin Unary
  <1> USE RpcAssumption, CapAssumption
  <1>1. ASSUME NEW f \in Frame
        PROVE  /\ f = <<f[1], f[2]>> /\ f[1] \in Rpc /\ f[2] \in 0..NumData + 1
               /\ f[2] > 0 => f[1] \in Stream
               /\ f[1] \in Unary => f[2] = 0
    <2>1. CASE f \in Unary \X {0}
      BY <2>1 DEF Rpc
    <2>2. CASE f \in Stream \X (0..NumData + 1)
      BY <2>2 DEF Rpc
    <2> QED BY <2>1, <2>2 DEF Frame
  <1>2. \A s \in Stream : \A k \in 0..NumData + 1 : <<s, k>> \in Frame
    BY DEF Frame
  <1>3. 0 \in 0..NumData + 1
    OBVIOUS
  <1>4. \A r \in Rpc : <<r, 0>> \in Frame
    BY <1>3 DEF Frame, Rpc
  <1>5. \A s \in Stream : s \in Rpc /\ s \notin Unary
    BY DEF Rpc
  <1> QED BY <1>1, <1>2, <1>4, <1>5

LEMMA TailElems ==
  ASSUME NEW S, NEW q \in Seq(S), q # <<>>
  PROVE  /\ Head(q) \in S /\ Head(q) = q[1] /\ Len(q) \in Nat /\ Len(q) # 0
         /\ Tail(q) \in Seq(S) /\ Len(Tail(q)) = Len(q) - 1
         /\ \A k \in 1..(Len(q) - 1) : Tail(q)[k] = q[k + 1]
  <1>1. Len(q) \in Nat /\ Len(q) # 0
    OBVIOUS
  <1>2. Tail(q) \in Seq(S) /\ Len(Tail(q)) = Len(q) - 1
    BY <1>1
  <1>3. \A k \in 1..(Len(q) - 1) : Tail(q)[k] = q[k + 1]
    BY <1>1
  <1>4. Head(q) = q[1] /\ q[1] \in S
    BY <1>1
  <1> QED BY <1>1, <1>2, <1>3, <1>4

LEMMA AppendElems ==
  ASSUME NEW S, NEW q \in Seq(S), NEW e \in S
  PROVE  /\ Append(q, e) \in Seq(S) /\ Len(Append(q, e)) = Len(q) + 1 /\ Len(q) \in Nat
         /\ \A k \in 1..Len(q) : Append(q, e)[k] = q[k]
         /\ Append(q, e)[Len(q) + 1] = e
         /\ \A k \in 1..(Len(q) + 1) : k \in 1..Len(q) \/ k = Len(q) + 1
  <1>1. Append(q, e) \in Seq(S) /\ Len(Append(q, e)) = Len(q) + 1 /\ Len(q) \in Nat
    OBVIOUS
  <1>2. \A k \in 1..Len(q) : Append(q, e)[k] = q[k]
    BY <1>1
  <1>3. Append(q, e)[Len(q) + 1] = e
    BY <1>1
  <1> QED BY <1>1, <1>2, <1>3

ReaderType ==
  /\ received \in [Rpc -> 0..NumData + 2]
  /\ run \in {"select", "reading", "wait", "handle_err", "abort", "exit", "end"}
  /\ frame \in Frame \cup {NoFrame} /\ elapsed \in BOOLEAN
  /\ server_shutdown \in BOOLEAN /\ handler_shutdown \in BOOLEAN
TaskType == pc \in [Frame -> TaskPC] /\ verdict \in [Frame -> Kind]
HandlerType ==
  /\ streams \subseteq Stream
  /\ hpc \in [Stream -> {"none", "run", "sending", "done"}] /\ hrx \in [Stream -> BOOLEAN]
  /\ sends \in [Stream -> 0..MaxSend]
BoxType ==
  /\ hbox \in [Stream -> Seq(0..NumData + 1)]
  /\ \A s \in Stream : Len(hbox[s]) <= StreamCap
  /\ got \in [Stream -> Seq(0..NumData + 1)]
WriterType ==
  /\ out \in Seq(Msg) /\ Len(out) <= OutCap
  /\ wstate \in {"recv", "write", "ok", "err", "aborted"}
  /\ wmsg \in Msg \cup {NoFrame} /\ wire \in Seq(Msg)
Types == ReaderType /\ TaskType /\ HandlerType /\ BoxType /\ WriterType

LEMMA TypeParts == TypeOK <=> Types
  BY DEF TypeOK, Types, ReaderType, TaskType, HandlerType, BoxType, WriterType

(* What a conjunct does not mention may change.                              *)
LEMMA KeepTypes ==
  /\ TaskType /\ UNCHANGED taskVars => TaskType'
  /\ HandlerType /\ UNCHANGED <<streams, hpc, hrx, sends>> => HandlerType'
  /\ BoxType /\ UNCHANGED <<hbox, got>> => BoxType'
  /\ WriterType /\ UNCHANGED writerVars => WriterType'
  /\ ReaderType /\ UNCHANGED <<readerVars, shutVars>> => ReaderType'
  <1>1. TaskType /\ UNCHANGED taskVars => TaskType'
    BY DEF TaskType, taskVars
  <1>2. HandlerType /\ UNCHANGED <<streams, hpc, hrx, sends>> => HandlerType'
    BY DEF HandlerType
  <1>3. BoxType /\ UNCHANGED <<hbox, got>> => BoxType'
    BY DEF BoxType
  <1>4. WriterType /\ UNCHANGED writerVars => WriterType'
    BY DEF WriterType, writerVars
  <1>5. ReaderType /\ UNCHANGED <<readerVars, shutVars>> => ReaderType'
    BY DEF ReaderType, readerVars, shutVars
  <1> QED BY <1>1, <1>2, <1>3, <1>4, <1>5

LEMMA KeepTasks ==
  ASSUME UNCHANGED <<taskVars, streams, hpc, hrx>>, Tasks, Handlers, InTime
  PROVE  Tasks' /\ Handlers' /\ InTime'
  <1> USE DEF taskVars
  <1>1. Tasks'
    BY DEF Tasks
  <1>2. Handlers'
    BY DEF Handlers
  <1>3. InTime'
    BY DEF InTime
  <1> QED BY <1>1, <1>2, <1>3

LEMMA KeepFlight ==
  ASSUME UNCHANGED <<writerVars, hpc>>, Flight, ResultIsLast
  PROVE  /\ Flight' /\ ResultIsLast'
         /\ \A r : Answered(r)' <=> Answered(r)
  <1> USE DEF writerVars
  <1>1. \A m : (Queued(m)' <=> Queued(m)) /\ (Written(m)' <=> Written(m))
    BY DEF Queued, Written
  <1>2. Flight'
    BY <1>1 DEF Flight, DataMsg, Result
  <1>3. ResultIsLast'
    BY DEF ResultIsLast
  <1>4. \A r : Answered(r)' <=> Answered(r)
    BY <1>1 DEF Answered
  <1> QED BY <1>2, <1>3, <1>4

LEMMA Unfold ==
  ASSUME IInv
  PROVE  /\ Types /\ Reading /\ Tasks /\ Handlers /\ InTime /\ Writing /\ Flight /\ Drain /\ ResultIsLast
  BY TypeParts DEF IInv

LEMMA Fold ==
  ASSUME Types', Reading', Tasks', Handlers', InTime', Writing', Flight', Drain', ResultIsLast'
  PROVE  IInv'
  <1>1. TypeOK'
    BY DEF TypeOK, Types, ReaderType, TaskType, HandlerType, BoxType, WriterType
  <1> QED BY <1>1 DEF IInv

-----------------------------------------------------------------------------
(* The steps of the reader that touch nothing but its own state.             *)
ReaderOnly == UNCHANGED <<taskVars, handlerVars, writerVars>>

LEMMA ReaderOnlyStep ==
  ASSUME IInv, ReaderOnly, ReaderType', Reading', Writing',
         handler_shutdown' => Failed' \/ (run' = "end" /\ Waiters' = {}),
         elapsed => elapsed'
  PROVE  IInv'
  <1> USE DEF ReaderOnly, handlerVars
  <1>0. Types /\ Tasks /\ Handlers /\ InTime /\ Flight /\ Drain /\ ResultIsLast
    BY Unfold
  <1>1. Types'
    BY <1>0, KeepTypes DEF Types
  <1>2. Tasks' /\ Handlers' /\ InTime'
    BY <1>0, KeepTasks
  <1>3. Flight' /\ ResultIsLast' /\ \A r : Answered(r)' <=> Answered(r)
    BY <1>0, KeepFlight
  <1>4. Drain'
    <2>1. Failed => Failed'
      BY DEF Failed, writerVars
    <2>2. \A r \in Rpc : pc'[<<r, 0>>] = pc[<<r, 0>>]
      BY DEF taskVars
    <2> QED BY <1>0, <1>3, <2>1, <2>2 DEF Drain
  <1> QED BY <1>1, <1>2, <1>3, <1>4, Fold

LEMMA NextFrameFact ==
  ASSUME Types, NEW r \in Rpc, NextFrame(r) \in Frame
  PROVE  /\ received[r] \in 0..NumData + 1
         /\ [received EXCEPT ![r] = @ + 1] \in [Rpc -> 0..NumData + 2]
         /\ \A q \in Rpc : [received EXCEPT ![r] = @ + 1][q] = IF q = r THEN received[r] + 1 ELSE received[q]
         /\ NextFrame(r)[1] = r /\ NextFrame(r)[2] = received[r]
  <1> USE CapAssumption
  <1>1. received \in [Rpc -> 0..NumData + 2]
    BY DEF Types, ReaderType
  <1>2. NextFrame(r)[1] = r /\ NextFrame(r)[2] = received[r]
    BY DEF NextFrame
  <1>3. received[r] \in 0..NumData + 1
    BY <1>2, Pairs
  <1>4. received[r] + 1 \in 0..NumData + 2
    BY <1>3
  <1>5. [received EXCEPT ![r] = @ + 1] \in [Rpc -> 0..NumData + 2]
    BY <1>1, <1>4
  <1>6. \A q \in Rpc : [received EXCEPT ![r] = @ + 1][q] = IF q = r THEN received[r] + 1 ELSE received[q]
    BY <1>1
  <1> QED BY <1>2, <1>3, <1>5, <1>6

LEMMA TakeFrameStep ==
  ASSUME IInv, NEW r \in Rpc, DropFrame(r) \/ ReadOversize(r) PROVE IInv'
  <1> USE CapAssumption
  <1>0. Types /\ Reading /\ Writing /\ Drain
    BY Unfold
  <1>1. /\ ReaderOnly /\ UNCHANGED shutVars /\ run = "reading" /\ NextFrame(r) \in Frame
        /\ received' = [received EXCEPT ![r] = @ + 1] /\ elapsed' = elapsed
        /\ \/ run' = "select" /\ frame' = frame
           \/ run' = "handle_err" /\ frame' = NextFrame(r)
    BY DEF DropFrame, ReadOversize, ReaderOnly
  <1>2. ReaderType'
    BY <1>0, <1>1, NextFrameFact DEF Types, ReaderType, shutVars
  <1>3. Reading'
    <2>1. \A f \in Frame : f[1] \in Rpc /\ f[2] \in Nat /\ received[f[1]] \in Nat
      BY <1>0, Pairs DEF Types, ReaderType
    <2>2. \A f \in Frame : received[f[1]] <= received'[f[1]]
      BY <1>0, <1>1, <2>1, NextFrameFact
    <2>3. \A f \in Frame : pc'[f] # "none" => f[2] < received'[f[1]]
      <3> SUFFICES ASSUME NEW f \in Frame, pc[f] # "none" PROVE f[2] < received'[f[1]]
        BY <1>1 DEF ReaderOnly, taskVars
      <3>1. f[2] < received[f[1]]
        BY <1>0 DEF Reading
      <3>2. received'[f[1]] \in Nat
        BY <1>0, <1>1, <2>1, NextFrameFact
      <3> QED BY <2>1, <2>2, <3>1, <3>2
    <2> QED BY <1>0, <1>1, <2>3 DEF Reading, ReaderOnly, taskVars, shutVars
  <1>4. Writing'
    BY <1>0, <1>1 DEF Writing, Ended, Waiters, ReaderOnly, writerVars, taskVars
  <1>5. ~handler_shutdown'
    BY <1>0, <1>1 DEF Reading, shutVars
  <1> QED BY <1>1, <1>2, <1>3, <1>4, <1>5, ReaderOnlyStep

LEMMA SelectStep ==
  ASSUME IInv, SelectRead \/ WaitRx \/ ReadError \/ SelectShutdown \/ Shutdown PROVE IInv'
  <1>0. Types /\ Reading /\ Writing /\ Drain
    BY Unfold
  <1>1. /\ ReaderOnly /\ UNCHANGED <<received, elapsed, handler_shutdown>>
        /\ server_shutdown' \in BOOLEAN
        /\ \/ run \in {"select", "reading"} /\ run' \in {"reading", "abort", "exit"} /\ frame' = frame
           \/ /\ run = "wait" /\ pc[frame] \notin {"start", "even_id"}
              /\ run' = "select" /\ frame' = NoFrame
           \/ run' = run /\ frame' = frame
    BY <1>0 DEF SelectRead, WaitRx, ReadError, SelectShutdown, Shutdown, ReaderOnly, shutVars, readerVars,
                Types, ReaderType
  <1>2. ReaderType'
    BY <1>0, <1>1 DEF Types, ReaderType
  <1>3. Reading'
    BY <1>0, <1>1 DEF Reading, ReaderOnly, taskVars
  <1>4. Writing'
    BY <1>0, <1>1 DEF Writing, Ended, Waiters, ReaderOnly, writerVars, taskVars
  <1>5. handler_shutdown' => Failed' \/ (run' = "end" /\ Waiters' = {})
    BY <1>0, <1>1 DEF Reading, Drain, Failed, Waiters, ReaderOnly, writerVars, taskVars
  <1> QED BY <1>1, <1>2, <1>3, <1>4, <1>5, ReaderOnlyStep

LEMMA ExitStep ==
  ASSUME IInv, SelectWriter \/ ExitAll \/ ExitElapsed PROVE IInv'
  <1>0. Types /\ Reading /\ Writing /\ Drain
    BY Unfold
  <1>1. /\ ReaderOnly /\ UNCHANGED <<received, frame, server_shutdown>> /\ handler_shutdown' = TRUE
        /\ \/ run \in {"select", "reading"} /\ run' = "exit" /\ Ended /\ elapsed' = elapsed
           \/ run = "exit" /\ run' = "end" /\ Waiters = {} /\ elapsed' = elapsed
           \/ run = "exit" /\ run' = "end" /\ elapsed' = TRUE
    BY DEF SelectWriter, ExitAll, ExitElapsed, ReaderDropped, ReaderOnly, shutVars
  <1>2. ReaderType'
    BY <1>0, <1>1 DEF Types, ReaderType
  <1>3. Reading'
    BY <1>0, <1>1 DEF Reading, ReaderOnly, taskVars
  <1>4. Writing' /\ Waiters' = Waiters
    BY <1>0, <1>1 DEF Writing, Ended, Waiters, ReaderOnly, writerVars, taskVars
  <1>5. Failed' \/ (run' = "end" /\ Waiters' = {})
    BY <1>0, <1>1, <1>4 DEF Writing, Ended, Failed, ReaderOnly, writerVars
  <1> QED BY <1>0, <1>1, <1>2, <1>3, <1>4, <1>5, ReaderOnlyStep DEF Types, ReaderType

(* handle_msg spawns a task for a frame that had none.                       *)
LEMMA HandleMsgStep ==
  ASSUME IInv, NEW r \in Rpc, HandleMsg(r) PROVE IInv'
  <1> USE CapAssumption
  <1> DEFINE g == NextFrame(r)
  <1>0. /\ Types /\ Reading /\ Tasks /\ Handlers /\ InTime /\ Writing /\ Flight /\ Drain /\ ResultIsLast
    BY Unfold
  <1>1. /\ run = "reading" /\ g \in Frame /\ run' = "wait" /\ frame' = g
        /\ received' = [received EXCEPT ![r] = @ + 1] /\ pc' = [pc EXCEPT ![g] = "start"]
        /\ UNCHANGED <<elapsed, verdict, handlerVars, writerVars, shutVars>>
    BY DEF HandleMsg
  <1>2. /\ received[r] \in 0..NumData + 1 /\ received' \in [Rpc -> 0..NumData + 2]
        /\ \A q \in Rpc : received'[q] = IF q = r THEN received[r] + 1 ELSE received[q]
        /\ g[1] = r /\ g[2] = received[r]
    BY <1>0, <1>1, NextFrameFact
  <1> HIDE DEF g
  <1>3. \A f \in Frame : /\ f[1] \in Rpc /\ f[2] \in Nat /\ received[f[1]] \in Nat
                         /\ f = <<f[1], f[2]>>
    BY <1>0, Pairs DEF Types, ReaderType
  <1>4. pc[g] = "none"
    BY <1>0, <1>1, <1>2, <1>3 DEF Reading
  <1>5. pc'[g] = "start" /\ \A f \in Frame : f # g => pc'[f] = pc[f]
    BY <1>0, <1>1 DEF Types, TaskType
  <1>6. TaskType' /\ ReaderType'
    BY <1>0, <1>1, <1>2 DEF Types, TaskType, TaskPC, ReaderType, shutVars
  <1>7. Types'
    BY <1>0, <1>1, <1>6, KeepTypes DEF Types, handlerVars
  <1>8. \A f \in Frame : pc[f] \notin {"start", "even_id"}
    BY <1>0, <1>1 DEF Reading
  <1>9. ~handler_shutdown /\ ~handler_shutdown' /\ wstate # "ok"
    BY <1>0, <1>1 DEF Reading, shutVars, Writing
  <1>10. Reading'
    <2>1. \A f \in Frame : pc'[f] # "none" => f[2] < received'[f[1]]
      <3> SUFFICES ASSUME NEW f \in Frame, pc'[f] # "none" PROVE f[2] < received'[f[1]]
        OBVIOUS
      <3>1. CASE f = g
        BY <1>1, <1>2, <3>1
      <3>2. CASE f # g
        <4>1. f[2] < received[f[1]]
          BY <1>0, <1>5, <3>2 DEF Reading
        <4> QED BY <1>2, <1>3, <4>1
      <3> QED BY <3>1, <3>2
    <2> QED BY <1>0, <1>1, <1>5, <1>8, <1>9, <2>1 DEF Reading
  <1>11. Tasks'
    BY <1>0, <1>1, <1>4, <1>5 DEF Tasks, handlerVars
  <1>12. ASSUME NEW s \in Stream, <<s, 0>> = g
         PROVE  \A k \in 1..NumData + 1 : verdict[<<s, k>>] = "result"
    <2> TAKE k \in 1..NumData + 1
    <2>1. s = r /\ received[r] = 0
      BY <1>2, <1>12
    <2>2. <<s, k>> \in Frame /\ <<s, k>>[1] = s /\ <<s, k>>[2] = k /\ s \in Rpc
      BY Pairs
    <2>3. ~(k < received[s])
      BY <1>2, <2>1
    <2>4. pc[<<s, k>>] = "none"
      BY <1>0, <2>2, <2>3 DEF Reading
    <2> QED BY <1>0, <2>2, <2>4 DEF Tasks
  <1>13. Handlers' /\ InTime'
    <2>1. Handlers'
      <3> SUFFICES ASSUME NEW s \in Stream
                   PROVE  /\ hrx[s] <=> s \in streams
                          /\ hrx[s] => hpc[s] \in {"run", "sending"}
                          /\ pc'[<<s, 0>>] \in {"none", "start"} => hpc[s] = "none"
                          /\ \/ pc'[<<s, 0>>] \in {"none", "start"} \/ hpc[s] # "none"
                             \/ verdict[<<s, 0>>] = "status"
        BY <1>1 DEF Handlers, handlerVars
      <3>1. <<s, 0>> \in Frame
        BY Pairs
      <3> QED BY <1>0, <1>4, <1>5, <3>1 DEF Handlers
    <2>2. InTime'
      <3> SUFFICES ASSUME NEW s \in Stream, NEW k \in 1..NumData + 1, verdict[<<s, k>>] = "inactive"
                   PROVE  IF hpc[s] = "none"
                          THEN pc'[<<s, 0>>] = "none" \/ verdict[<<s, 0>>] = "status"
                          ELSE ~hrx[s]
        BY <1>1 DEF InTime, handlerVars
      <3>1. <<s, 0>> \in Frame /\ <<s, 0>> # g
        BY <1>12, Pairs
      <3> QED BY <1>0, <1>5, <3>1 DEF InTime
    <2> QED BY <2>1, <2>2
  <1>14. Writing'
    BY <1>0, <1>1, <1>9 DEF Writing, Ended, writerVars
  <1>15. Flight' /\ ResultIsLast' /\ \A q : Answered(q)' <=> Answered(q)
    BY <1>0, <1>1, KeepFlight DEF handlerVars
  <1>16. Drain'
    <2>1. Failed' = Failed
      BY <1>1 DEF Failed, writerVars
    <2>2. \A q \in Rpc : pc'[<<q, 0>>] = "gone" => pc[<<q, 0>>] = "gone"
      BY <1>5, Pairs
    <2> QED BY <1>0, <1>9, <1>15, <2>1, <2>2 DEF Drain
  <1> QED BY <1>7, <1>10, <1>11, <1>13, <1>14, <1>15, <1>16, Fold

-----------------------------------------------------------------------------
(* A frame's task moves from one control point to another. What the new one  *)
(* and the new verdict have to satisfy is listed once, for all its steps.    *)
Moves(f, p, v) ==
  /\ pc' = [pc EXCEPT ![f] = p] /\ verdict' = [verdict EXCEPT ![f] = v]
  /\ pc[f] \notin {"none", "gone", "lost"} /\ p \in TaskPC \ {"none", "start"} /\ v \in Kind \ {"data"}
  /\ p = "even_id" => pc[f] = "start" /\ v = "status"
  /\ p \in {"fake", "task"} => f[2] = 0
  /\ p = "deliver" => f[2] > 0 /\ v = "result"
  /\ p = "method" => f[1] \in Unary
  /\ verdict[f] = "status" => v = "status"
  /\ v = "inactive" => f[2] > 0
MoveFits(f, p, v) ==
  /\ p \in {"fake", "task", "deliver"} => f[1] \in Stream /\ hpc[f[1]] # "none"
  /\ (p = "respond" /\ v = "result" /\ f[1] \in Stream) => hpc[f[1]] = "done"
  /\ (f[1] \in Stream /\ f[2] = 0) => hpc[f[1]] # "none" \/ v = "status"
  /\ (f[1] \in Stream /\ f[2] > 0 /\ v = "inactive" /\ verdict[f] # "inactive") =>
       IF hpc[f[1]] = "none"
       THEN pc[<<f[1], 0>>] = "none" \/ verdict[<<f[1], 0>>] = "status"
       ELSE ~hrx[f[1]]

LEMMA MoveStep ==
  ASSUME IInv, NEW f \in Frame, NEW p, NEW v, Moves(f, p, v), MoveFits(f, p, v),
         UNCHANGED <<readerVars, shutVars, streams, hpc, hrx>>
  PROVE  /\ Reading' /\ Tasks' /\ Handlers' /\ InTime' /\ TaskType'
         /\ pc'[f] = p /\ \A g \in Frame : g # f => pc'[g] = pc[g]
         /\ Waiters' \subseteq Waiters
  <1> USE DEF readerVars, shutVars
  <1>0. /\ Types /\ Reading /\ Tasks /\ Handlers /\ InTime
    BY Unfold
  <1>1. /\ pc'[f] = p /\ verdict'[f] = v
        /\ \A g \in Frame : g # f => pc'[g] = pc[g] /\ verdict'[g] = verdict[g]
    BY <1>0 DEF Types, TaskType, Moves
  <1>2. TaskType'
    BY <1>0 DEF Types, TaskType, Moves
  <1>3. Reading'
    <2>1. \A g \in Frame : pc'[g] \in {"start", "even_id"} => run = "wait" /\ frame = g
      BY <1>0, <1>1 DEF Reading, Moves
    <2>2. \A g \in Frame : pc'[g] # "none" => g[2] < received[g[1]]
      BY <1>0, <1>1 DEF Reading, Moves
    <2> QED BY <1>0, <2>1, <2>2 DEF Reading
  <1>4. Tasks'
    <2> SUFFICES ASSUME NEW g \in Frame
                 PROVE  /\ pc'[g] \in {"none", "start"} => verdict'[g] = "result"
                        /\ pc'[g] \in {"fake", "task"} => g[2] = 0
                        /\ pc'[g] = "deliver" => g[2] > 0 /\ verdict'[g] = "result"
                        /\ pc'[g] = "method" => g[1] \in Unary
                        /\ pc'[g] \in {"fake", "task", "deliver"} => g[1] \in Stream /\ hpc[g[1]] # "none"
                        /\ pc'[g] = "even_id" => verdict'[g] = "status"
                        /\ verdict'[g] = "inactive" => g[2] > 0
                        /\ verdict'[g] # "data"
                        /\ (pc'[g] = "respond" /\ verdict'[g] = "result" /\ g[1] \in Stream) =>
                             hpc[g[1]] = "done"
      BY DEF Tasks
    <2>1. CASE g = f
      BY <1>1, <2>1 DEF Moves, MoveFits
    <2>2. CASE g # f
      BY <1>0, <1>1, <2>2 DEF Tasks
    <2> QED BY <2>1, <2>2
  <1>5. Handlers'
    <2> SUFFICES ASSUME NEW s \in Stream
                 PROVE  /\ hrx[s] <=> s \in streams
                        /\ hrx[s] => hpc[s] \in {"run", "sending"}
                        /\ pc'[<<s, 0>>] \in {"none", "start"} => hpc[s] = "none"
                        /\ \/ pc'[<<s, 0>>] \in {"none", "start"} \/ hpc[s] # "none"
                           \/ verdict'[<<s, 0>>] = "status"
      BY DEF Handlers
    <2>1. <<s, 0>> \in Frame /\ <<s, 0>>[1] = s /\ <<s, 0>>[2] = 0
      BY Pairs
    <2>2. CASE <<s, 0>> = f
      BY <1>0, <1>1, <2>1, <2>2 DEF Handlers, Moves, MoveFits
    <2>3. CASE <<s, 0>> # f
      BY <1>0, <1>1, <2>1, <2>3 DEF Handlers
    <2> QED BY <2>2, <2>3
  <1>6. InTime'
    <2> SUFFICES ASSUME NEW s \in Stream, NEW k \in 1..NumData + 1, verdict'[<<s, k>>] = "inactive"
                 PROVE  IF hpc[s] = "none"
                        THEN pc'[<<s, 0>>] = "none" \/ verdict'[<<s, 0>>] = "status"
                        ELSE ~hrx[s]
      BY DEF InTime
    <2> USE CapAssumption
    <2>1. /\ <<s, 0>> \in Frame /\ <<s, k>> \in Frame /\ <<s, k>>[1] = s /\ <<s, k>>[2] = k
          /\ <<s, 0>>[2] = 0 /\ <<s, 0>>[1] = s /\ k > 0
      BY Pairs
    <2>2. IF hpc[s] = "none"
          THEN pc[<<s, 0>>] = "none" \/ verdict[<<s, 0>>] = "status"
          ELSE ~hrx[s]
      <3>1. CASE verdict[<<s, k>>] = "inactive"
        BY <1>0, <3>1 DEF InTime
      <3>2. CASE verdict[<<s, k>>] # "inactive"
        <4>1. <<s, k>> = f
          BY <1>1, <2>1, <3>2
        <4> QED BY <1>1, <2>1, <3>2, <4>1 DEF MoveFits
      <3> QED BY <3>1, <3>2
    <2>3. pc[<<s, 0>>] = "none" => pc'[<<s, 0>>] = "none"
      BY <1>1, <2>1 DEF Moves
    <2>4. verdict[<<s, 0>>] = "status" => verdict'[<<s, 0>>] = "status"
      BY <1>1, <2>1 DEF Moves
    <2> QED BY <2>2, <2>3, <2>4
  <1>7. Waiters' \subseteq Waiters
    BY <1>1 DEF Waiters, Moves
  <1> QED BY <1>1, <1>2, <1>3, <1>4, <1>5, <1>6, <1>7

(* A move that sends nothing and, for a REQUEST, ends its task only where    *)
(* that is a failure.                                                        *)
LEMMA SilentMoveStep ==
  ASSUME IInv, NEW f \in Frame, NEW p, NEW v, Moves(f, p, v), MoveFits(f, p, v),
         (p = "gone" /\ f[2] = 0) => Failed,
         UNCHANGED <<readerVars, shutVars, streams, hpc, hrx, sends, writerVars>>, BoxType'
  PROVE  IInv'
  <1>0. /\ Types /\ Writing /\ Flight /\ Drain /\ ResultIsLast
    BY Unfold
  <1>1. /\ Reading' /\ Tasks' /\ Handlers' /\ InTime' /\ TaskType'
        /\ pc'[f] = p /\ \A g \in Frame : g # f => pc'[g] = pc[g]
        /\ Waiters' \subseteq Waiters
    BY MoveStep
  <1>2. Types'
    BY <1>0, <1>1, KeepTypes DEF Types
  <1>3. Flight' /\ ResultIsLast' /\ \A q : Answered(q)' <=> Answered(q)
    BY <1>0, KeepFlight
  <1>4. Writing'
    BY <1>0, <1>1 DEF Writing, Ended, writerVars, readerVars
  <1>5. Drain'
    <2>1. Failed' = Failed
      BY DEF Failed, writerVars, readerVars
    <2>2. handler_shutdown' => Failed' \/ (run' = "end" /\ Waiters' = {})
      BY <1>0, <1>1, <2>1 DEF Drain, shutVars, readerVars
    <2>3. ~Failed' => \A r \in Rpc : pc'[<<r, 0>>] = "gone" => Answered(r)'
      <3> SUFFICES ASSUME ~Failed, NEW r \in Rpc, pc'[<<r, 0>>] = "gone" PROVE Answered(r)
        BY <1>3, <2>1
      <3>1. <<r, 0>> \in Frame /\ <<r, 0>>[2] = 0
        BY Pairs
      <3>2. pc[<<r, 0>>] = "gone"
        BY <1>1, <3>1
      <3> QED BY <1>0, <3>2 DEF Drain
    <2> QED BY <2>2, <2>3 DEF Drain
  <1> QED BY <1>1, <1>2, <1>3, <1>4, <1>5, Fold

LEMMA RefuseStep ==
  ASSUME IInv, NEW f \in Frame, RefuseId(f) \/ RefuseRequest(f) PROVE IInv'
  <1>0. Types /\ Tasks
    BY Unfold
  <1>1. PICK p \in {"even_id", "respond"} :
          /\ pc[f] = "start" /\ (p = "respond" => f[2] = 0)
          /\ pc' = [pc EXCEPT ![f] = p] /\ verdict' = [verdict EXCEPT ![f] = "status"]
          /\ UNCHANGED <<readerVars, handlerVars, writerVars, shutVars>>
    BY DEF RefuseId, RefuseRequest
  <1>2. Moves(f, p, "status") /\ MoveFits(f, p, "status")
    BY <1>1 DEF Moves, MoveFits, TaskPC, Kind
  <1>3. BoxType'
    BY <1>0, <1>1, KeepTypes DEF Types, handlerVars
  <1> QED BY <1>1, <1>2, <1>3, SilentMoveStep DEF handlerVars

LEMMA MethodStep ==
  ASSUME IInv, NEW f \in Frame, HandleRequest(f) \/ HandleMethod(f) PROVE IInv'
  <1>0. Types /\ Reading /\ Tasks
    BY Unfold
  <1>1. PICK p \in {"method", "respond"} :
          /\ pc[f] \in {"start", "method"} /\ f[1] \in Unary
          /\ pc' = [pc EXCEPT ![f] = p] /\ verdict' = verdict
          /\ UNCHANGED <<readerVars, handlerVars, writerVars, shutVars>>
    BY <1>0 DEF HandleRequest, HandleMethod, Tasks
  <1>2. f[2] = 0 /\ f[1] \notin Stream
    BY <1>1, Pairs
  <1>3. verdict' = [verdict EXCEPT ![f] = verdict[f]] /\ verdict[f] \in Kind \ {"data"}
        /\ verdict[f] # "inactive"
    BY <1>0, <1>1, <1>2 DEF Types, TaskType, Tasks
  <1>4. Moves(f, p, verdict[f]) /\ MoveFits(f, p, verdict[f])
    BY <1>1, <1>2, <1>3 DEF Moves, MoveFits, TaskPC
  <1>5. BoxType'
    BY <1>0, <1>1, KeepTypes DEF Types, handlerVars
  <1> QED BY <1>1, <1>4, <1>5, SilentMoveStep DEF handlerVars

LEMMA HandleDataStep ==
  ASSUME IInv, NEW f \in Frame, HandleData(f) PROVE IInv'
  <1>0. Types /\ Reading /\ Tasks /\ Handlers
    BY Unfold
  <1> DEFINE s == f[1]
  <1>1. /\ pc[f] = "start" /\ f[2] > 0 /\ s \in Stream /\ f \in Frame
        /\ <<s, 0>> \in Frame /\ <<s, 0>> # f
        /\ verdict[f] = "result"
        /\ UNCHANGED <<readerVars, handlerVars, writerVars, shutVars>>
    <2>1. /\ pc[f] = "start" /\ f[2] > 0 /\ UNCHANGED <<readerVars, handlerVars, writerVars, shutVars>>
      BY DEF HandleData
    <2>2. s \in Stream
      BY <2>1, Pairs
    <2>3. <<s, 0>> \in Frame /\ <<s, 0>>[2] = 0
      BY <2>2, Pairs
    <2>4. <<s, 0>> # f
      BY <2>1, <2>3
    <2> QED BY <1>0, <2>1, <2>2, <2>3, <2>4 DEF Tasks
  <1>2. BoxType'
    BY <1>0, <1>1, KeepTypes DEF Types, handlerVars
  <1>3. CASE s \in streams
    <2>1. pc' = [pc EXCEPT ![f] = "deliver"] /\ verdict' = [verdict EXCEPT ![f] = verdict[f]]
      BY <1>0, <1>3 DEF HandleData, Types, TaskType
    <2>2. hpc[s] # "none"
      BY <1>0, <1>1, <1>3 DEF Handlers
    <2>3. Moves(f, "deliver", verdict[f]) /\ MoveFits(f, "deliver", verdict[f])
      BY <1>1, <2>1, <2>2 DEF Moves, MoveFits, TaskPC, Kind
    <2> QED BY <1>1, <1>2, <2>3, SilentMoveStep DEF handlerVars
  <1>4. CASE s \notin streams
    <2>1. pc' = [pc EXCEPT ![f] = "respond"] /\ verdict' = [verdict EXCEPT ![f] = "inactive"]
      BY <1>4 DEF HandleData
    <2>2. ~hrx[s]
      BY <1>0, <1>1, <1>4 DEF Handlers
    <2>3. pc[<<s, 0>>] # "start"
      BY <1>0, <1>1 DEF Reading
    <2>4. hpc[s] = "none" => pc[<<s, 0>>] = "none" \/ verdict[<<s, 0>>] = "status"
      BY <1>0, <1>1, <2>3 DEF Handlers
    <2>5. Moves(f, "respond", "inactive")
      BY <1>1, <2>1 DEF Moves, TaskPC, Kind
    <2>6. MoveFits(f, "respond", "inactive")
      BY <1>1, <2>2, <2>4 DEF MoveFits
    <2> QED BY <1>1, <1>2, <2>5, <2>6, SilentMoveStep DEF handlerVars
  <1> QED BY <1>3, <1>4

LEMMA DeliverStep ==
  ASSUME IInv, NEW f \in Frame, Deliver(f) PROVE IInv'
  <1>0. Types /\ Reading /\ Tasks /\ Handlers
    BY Unfold
  <1> DEFINE s == f[1]
  <1>1. /\ pc[f] \in {"deliver", "fake"} /\ s \in Stream /\ hpc[s] # "none"
        /\ pc[f] = "fake" => f[2] = 0
        /\ pc[f] = "deliver" => f[2] > 0
        /\ verdict[f] \in Kind \ {"data"} /\ (verdict[f] = "inactive" => f[2] > 0)
        /\ f[2] \in 0..NumData + 1
        /\ UNCHANGED <<readerVars, streams, hpc, hrx, got, sends, writerVars, shutVars>>
    <2>1. pc[f] \in {"deliver", "fake"} /\ f[2] \in 0..NumData + 1
      BY Pairs DEF Deliver
    <2>2. UNCHANGED <<readerVars, streams, hpc, hrx, got, sends, writerVars, shutVars>>
      BY DEF Deliver
    <2>3. verdict[f] \in Kind
      BY <1>0 DEF Types, TaskType
    <2> QED BY <1>0, <2>1, <2>2, <2>3 DEF Tasks
  <1>2. CASE hrx[s]
    <2> DEFINE p == IF pc[f] = "fake" THEN "task" ELSE "gone"
    <2>1. /\ Len(hbox[s]) < StreamCap /\ hbox' = [hbox EXCEPT ![s] = Append(hbox[s], f[2])]
          /\ pc' = [pc EXCEPT ![f] = p] /\ verdict' = [verdict EXCEPT ![f] = verdict[f]]
      BY <1>0, <1>2 DEF Deliver, Types, TaskType
    <2>2. BoxType'
      <3>1. /\ hbox \in [Stream -> Seq(0..NumData + 1)] /\ hbox[s] \in Seq(0..NumData + 1)
            /\ \A q \in Stream : Len(hbox[q]) <= StreamCap
            /\ got' \in [Stream -> Seq(0..NumData + 1)]
        BY <1>0, <1>1 DEF Types, BoxType
      <3>2. /\ Append(hbox[s], f[2]) \in Seq(0..NumData + 1)
            /\ Len(Append(hbox[s], f[2])) = Len(hbox[s]) + 1 /\ Len(hbox[s]) \in Nat
        BY <1>1, <3>1
      <3>3. Len(hbox[s]) + 1 <= StreamCap
        BY <2>1, <3>2, CapAssumption
      <3>4. hbox' \in [Stream -> Seq(0..NumData + 1)]
        BY <2>1, <3>1, <3>2
      <3>5. \A q \in Stream : Len(hbox'[q]) <= StreamCap
        BY <2>1, <3>1, <3>2, <3>3
      <3> QED BY <3>1, <3>4, <3>5 DEF BoxType
    <2>3. Moves(f, p, verdict[f])
      BY <1>1, <2>1 DEF Moves, TaskPC
    <2>4. MoveFits(f, p, verdict[f])
      BY <1>1 DEF MoveFits
    <2>5. p = "gone" => ~(f[2] = 0)
      BY <1>1
    <2> HIDE DEF p
    <2> QED BY <1>1, <2>2, <2>3, <2>4, <2>5, SilentMoveStep
  <1>3. CASE ~hrx[s]
    <2> DEFINE v == IF pc[f] = "fake" THEN "status" ELSE "inactive"
    <2>1. /\ hbox' = hbox
          /\ pc' = [pc EXCEPT ![f] = "respond"] /\ verdict' = [verdict EXCEPT ![f] = v]
      BY <1>3 DEF Deliver
    <2>2. BoxType'
      BY <1>0, <1>1, <2>1, KeepTypes DEF Types
    <2>3. verdict[f] = "status" => pc[f] = "fake"
      BY <1>0, <1>1 DEF Tasks
    <2>4. Moves(f, "respond", v)
      BY <1>1, <2>1, <2>3 DEF Moves, TaskPC, Kind
    <2>5. MoveFits(f, "respond", v)
      BY <1>1, <1>3 DEF MoveFits
    <2> HIDE DEF v
    <2> QED BY <1>1, <2>2, <2>4, <2>5, SilentMoveStep
  <1> QED BY <1>2, <1>3

LEMMA AwaitHandlerStep ==
  ASSUME IInv, NEW f \in Frame, AwaitHandler(f) PROVE IInv'
  <1>0. Types /\ Tasks
    BY Unfold
  <1>1. /\ pc[f] = "task" /\ hpc[f[1]] = "done" /\ f[1] \in Stream /\ f[2] = 0
        /\ pc' = [pc EXCEPT ![f] = "respond"] /\ verdict' = [verdict EXCEPT ![f] = verdict[f]]
        /\ verdict[f] \in Kind \ {"data", "inactive"}
        /\ UNCHANGED <<readerVars, handlerVars, writerVars, shutVars>>
    <2>1. pc[f] = "task" /\ hpc[f[1]] = "done" /\ pc' = [pc EXCEPT ![f] = "respond"]
          /\ verdict' = verdict /\ UNCHANGED <<readerVars, handlerVars, writerVars, shutVars>>
      BY DEF AwaitHandler
    <2>2. verdict' = [verdict EXCEPT ![f] = verdict[f]] /\ verdict[f] \in Kind
      BY <1>0, <2>1 DEF Types, TaskType
    <2>3. f[2] = 0 /\ f[1] \in Stream /\ verdict[f] # "data"
      BY <1>0, <2>1 DEF Tasks
    <2>4. verdict[f] # "inactive"
      BY <1>0, <2>3 DEF Tasks
    <2> QED BY <2>1, <2>2, <2>3, <2>4
  <1>2. Moves(f, "respond", verdict[f]) /\ MoveFits(f, "respond", verdict[f])
    BY <1>1 DEF Moves, MoveFits, TaskPC
  <1>3. BoxType'
    BY <1>0, <1>1, KeepTypes DEF Types, handlerVars
  <1> QED BY <1>1, <1>2, <1>3, SilentMoveStep DEF handlerVars

(* wait_shutdown takes a task only after the reader has left its loop.       *)
LEMMA CancelStep ==
  ASSUME IInv, NEW f \in Frame, CancelTask(f) PROVE IInv'
  <1>0. Types /\ Reading /\ Tasks /\ Handlers /\ Drain
    BY Unfold
  <1>1. /\ pc[f] \notin {"none", "gone", "lost"} /\ handler_shutdown
        /\ pc' = [pc EXCEPT ![f] = "gone"] /\ verdict' = [verdict EXCEPT ![f] = verdict[f]]
        /\ verdict[f] \in Kind
        /\ UNCHANGED <<readerVars, handlerVars, writerVars, shutVars>>
    BY <1>0 DEF CancelTask, Waiters, Types, TaskType
  <1>2. Failed
    <2>1. f \in Waiters
      BY <1>1 DEF Waiters
    <2> QED BY <1>0, <1>1, <2>1 DEF Drain
  <1>3. pc[f] # "start"
    BY <1>0, <1>1 DEF Reading
  <1>4. Moves(f, "gone", verdict[f])
    BY <1>0, <1>1 DEF Moves, TaskPC, Tasks
  <1>5. MoveFits(f, "gone", verdict[f])
    <2>1. (f[1] \in Stream /\ f[2] = 0) => f = <<f[1], 0>>
      BY Pairs
    <2> QED BY <1>0, <1>1, <1>3, <2>1 DEF MoveFits, Handlers
  <1>6. BoxType'
    BY <1>0, <1>1, KeepTypes DEF Types, handlerVars
  <1> QED BY <1>1, <1>2, <1>4, <1>5, <1>6, SilentMoveStep DEF handlerVars

-----------------------------------------------------------------------------
(* The stream handlers. What a queued DATA frame or a result says of its     *)
(* handler stays true while the handler neither sends nor is acknowledged.   *)
LEMMA KeepFlightRun ==
  ASSUME UNCHANGED writerVars, Flight, ResultIsLast,
         \A s \in Stream : hpc[s] \in {"sending", "done"} => hpc'[s] = hpc[s]
  PROVE  /\ Flight' /\ ResultIsLast'
         /\ \A r : Answered(r)' <=> Answered(r)
  <1> USE DEF writerVars
  <1>1. \A m : (Queued(m)' <=> Queued(m)) /\ (Written(m)' <=> Written(m))
    BY DEF Queued, Written
  <1>2. Flight'
    BY <1>1 DEF Flight, DataMsg, Result
  <1>3. ResultIsLast'
    BY DEF ResultIsLast
  <1>4. \A r : Answered(r)' <=> Answered(r)
    BY <1>1 DEF Answered
  <1> QED BY <1>2, <1>3, <1>4

(* The reader, the tasks' ends and the writer are not concerned.             *)
LEMMA KeepDrain ==
  ASSUME Types, Reading, Writing, Drain, UNCHANGED <<readerVars, taskVars, writerVars, shutVars>>,
         \A r : Answered(r)' <=> Answered(r)
  PROVE  Reading' /\ Writing' /\ Drain'
  <1> USE DEF readerVars, taskVars, writerVars, shutVars
  <1>1. Reading'
    BY DEF Reading
  <1>2. Writing' /\ Waiters' = Waiters
    BY DEF Writing, Ended, Waiters
  <1>3. Drain'
    BY <1>2 DEF Drain, Failed
  <1> QED BY <1>1, <1>2, <1>3

LEMMA HandleStreamStep ==
  ASSUME IInv, NEW f \in Frame, HandleStream(f) PROVE IInv'
  <1> DEFINE s == f[1]
             p == IF s \in NoData THEN "task" ELSE "fake"
  <1>0. /\ Types /\ Reading /\ Tasks /\ Handlers /\ InTime /\ Writing /\ Flight /\ Drain /\ ResultIsLast
    BY Unfold
  <1>1. /\ pc[f] = "start" /\ s \in Stream /\ f[2] = 0 /\ f = <<s, 0>>
        /\ streams' = streams \cup {s}
        /\ hpc' = [hpc EXCEPT ![s] = "run"] /\ hrx' = [hrx EXCEPT ![s] = TRUE]
        /\ pc' = [pc EXCEPT ![f] = p] /\ p \in {"task", "fake"}
        /\ UNCHANGED <<readerVars, verdict, hbox, got, sends, writerVars, shutVars>>
    <2>1. f[1] \in Stream /\ f[2] = 0
      BY DEF HandleStream
    <2>2. f = <<s, 0>>
      BY <2>1, Pairs
    <2> QED BY <2>1, <2>2 DEF HandleStream
  <1> HIDE DEF p, s
  <1>2. hpc[s] = "none" /\ verdict[f] = "result"
    BY <1>0, <1>1 DEF Handlers, Tasks
  <1>3. /\ hpc'[s] = "run" /\ hrx'[s] = TRUE
        /\ \A q \in Stream : q # s => hpc'[q] = hpc[q] /\ hrx'[q] = hrx[q]
        /\ HandlerType'
    BY <1>0, <1>1 DEF Types, HandlerType
  <1>4. pc'[f] = p /\ (\A g \in Frame : g # f => pc'[g] = pc[g]) /\ TaskType'
    BY <1>0, <1>1 DEF Types, TaskType, TaskPC
  <1>5. Types'
    BY <1>0, <1>1, <1>3, <1>4, KeepTypes DEF Types
  <1>6. Reading'
    <2>1. \A g \in Frame : pc'[g] \in {"start", "even_id"} => run = "wait" /\ frame = g
      BY <1>0, <1>1, <1>4 DEF Reading
    <2>2. \A g \in Frame : pc'[g] # "none" => g[2] < received[g[1]]
      BY <1>0, <1>1, <1>4 DEF Reading
    <2> QED BY <1>0, <1>1, <2>1, <2>2 DEF Reading, readerVars, shutVars
  <1>7. Tasks'
    <2> SUFFICES ASSUME NEW g \in Frame
                 PROVE  /\ pc'[g] \in {"none", "start"} => verdict[g] = "result"
                        /\ pc'[g] \in {"fake", "task"} => g[2] = 0
                        /\ pc'[g] = "deliver" => g[2] > 0 /\ verdict[g] = "result"
                        /\ pc'[g] = "method" => g[1] \in Unary
                        /\ pc'[g] \in {"fake", "task", "deliver"} => g[1] \in Stream /\ hpc'[g[1]] # "none"
                        /\ pc'[g] = "even_id" => verdict[g] = "status"
                        /\ verdict[g] = "inactive" => g[2] > 0
                        /\ verdict[g] # "data"
                        /\ (pc'[g] = "respond" /\ verdict[g] = "result" /\ g[1] \in Stream) =>
                             hpc'[g[1]] = "done"
      BY <1>1 DEF Tasks
    <2>1. CASE g = f
      <3>1. g[1] = s
        BY <2>1 DEF s
      <3> QED BY <1>1, <1>2, <1>3, <1>4, <2>1, <3>1
    <2>2. CASE g # f
      <3>1. CASE g[1] = s
        BY <1>0, <1>2, <1>3, <1>4, <2>2, <3>1 DEF Tasks
      <3>2. CASE g[1] # s
        BY <1>0, <1>3, <1>4, <2>2, <3>2 DEF Tasks
      <3> QED BY <3>1, <3>2
    <2> QED BY <2>1, <2>2
  <1>8. Handlers'
    <2> SUFFICES ASSUME NEW q \in Stream
                 PROVE  /\ hrx'[q] <=> q \in streams'
                        /\ hrx'[q] => hpc'[q] \in {"run", "sending"}
                        /\ pc'[<<q, 0>>] \in {"none", "start"} => hpc'[q] = "none"
                        /\ \/ pc'[<<q, 0>>] \in {"none", "start"} \/ hpc'[q] # "none"
                           \/ verdict[<<q, 0>>] = "status"
      BY <1>1 DEF Handlers
    <2>1. CASE q = s
      BY <1>1, <1>3, <1>4, <2>1
    <2>2. CASE q # s
      <3>1. <<q, 0>> \in Frame /\ <<q, 0>> # f
        BY <1>1, <2>2, Pairs
      <3> QED BY <1>0, <1>1, <1>3, <1>4, <2>2, <3>1 DEF Handlers
    <2> QED BY <2>1, <2>2
  <1>9. InTime'
    <2> SUFFICES ASSUME NEW q \in Stream, NEW k \in 1..NumData + 1, verdict[<<q, k>>] = "inactive"
                 PROVE  IF hpc'[q] = "none"
                        THEN pc'[<<q, 0>>] = "none" \/ verdict[<<q, 0>>] = "status"
                        ELSE ~hrx'[q]
      BY <1>1 DEF InTime
    <2>1. IF hpc[q] = "none"
          THEN pc[<<q, 0>>] = "none" \/ verdict[<<q, 0>>] = "status"
          ELSE ~hrx[q]
      BY <1>0 DEF InTime
    <2>2. q # s
      BY <1>1, <1>2, <2>1
    <2>3. <<q, 0>> \in Frame /\ <<q, 0>> # f
      BY <1>1, <2>2, Pairs
    <2> QED BY <1>3, <1>4, <2>1, <2>2, <2>3
  <1>10. Flight' /\ ResultIsLast' /\ \A r : Answered(r)' <=> Answered(r)
    BY <1>0, <1>1, <1>2, <1>3, KeepFlightRun
  <1>11. Waiters' = Waiters
    BY <1>1, <1>4 DEF Waiters
  <1>12. Writing'
    BY <1>0, <1>1, <1>11 DEF Writing, Ended, writerVars, readerVars
  <1>13. Drain'
    <2>1. \A r \in Rpc : pc'[<<r, 0>>] = "gone" => pc[<<r, 0>>] = "gone"
      BY <1>1, <1>4, Pairs
    <2> QED BY <1>0, <1>1, <1>10, <1>11, <2>1 DEF Drain, Failed, writerVars, readerVars, shutVars
  <1> QED BY <1>5, <1>6, <1>7, <1>8, <1>9, <1>10, <1>12, <1>13, Fold

LEMMA HandlerRecvStep ==
  ASSUME IInv, NEW s \in Stream, HandlerRecv(s) PROVE IInv'
  <1>0. /\ Types /\ Reading /\ Tasks /\ Handlers /\ InTime /\ Writing /\ Flight /\ Drain /\ ResultIsLast
    BY Unfold
  <1>1. /\ hbox[s] # <<>> /\ UNCHANGED <<readerVars, taskVars, streams, hpc, hrx, sends, writerVars, shutVars>>
        /\ got' = [got EXCEPT ![s] = Append(got[s], Head(hbox[s]))]
        /\ hbox' = [hbox EXCEPT ![s] = Tail(hbox[s])]
    BY DEF HandlerRecv
  <1>2. BoxType'
    <2>1. /\ hbox \in [Stream -> Seq(0..NumData + 1)] /\ got \in [Stream -> Seq(0..NumData + 1)]
          /\ hbox[s] \in Seq(0..NumData + 1) /\ got[s] \in Seq(0..NumData + 1)
          /\ \A q \in Stream : Len(hbox[q]) <= StreamCap
      BY <1>0 DEF Types, BoxType
    <2>2. /\ Tail(hbox[s]) \in Seq(0..NumData + 1) /\ Len(Tail(hbox[s])) = Len(hbox[s]) - 1
          /\ Head(hbox[s]) \in 0..NumData + 1 /\ Len(hbox[s]) \in Nat
      BY <1>1, <2>1, TailElems
    <2>3. Append(got[s], Head(hbox[s])) \in Seq(0..NumData + 1)
      BY <2>1, <2>2
    <2>4. Len(Tail(hbox[s])) <= StreamCap
      BY <2>1, <2>2, CapAssumption
    <2>5. got' \in [Stream -> Seq(0..NumData + 1)] /\ hbox' \in [Stream -> Seq(0..NumData + 1)]
      BY <1>1, <2>1, <2>2, <2>3
    <2>6. \A q \in Stream : Len(hbox'[q]) <= StreamCap
      BY <1>1, <2>1, <2>4
    <2> QED BY <2>5, <2>6 DEF BoxType
  <1>3. Types'
    BY <1>0, <1>1, <1>2, KeepTypes DEF Types
  <1>4. Tasks' /\ Handlers' /\ InTime'
    BY <1>0, <1>1, KeepTasks
  <1>5. Flight' /\ ResultIsLast' /\ \A r : Answered(r)' <=> Answered(r)
    BY <1>0, <1>1, KeepFlight
  <1>6. Reading' /\ Writing' /\ Drain'
    BY <1>0, <1>1, <1>5, KeepDrain
  <1> QED BY <1>3, <1>4, <1>5, <1>6, Fold

(* The receiver goes, alone or with the handler.                             *)
LEMMA ReceiverGoesStep ==
  ASSUME IInv, NEW s \in Stream, DropReceiver(s) \/ HandlerReturns(s) PROVE IInv'
  <1>0. /\ Types /\ Reading /\ Tasks /\ Handlers /\ InTime /\ Writing /\ Flight /\ Drain /\ ResultIsLast
    BY Unfold
  <1>1. PICK h \in {"run", "done"} :
          /\ hpc[s] = "run" /\ hpc' = [hpc EXCEPT ![s] = h]
          /\ hrx' = [hrx EXCEPT ![s] = FALSE] /\ streams' = streams \ {s}
          /\ hbox' = [hbox EXCEPT ![s] = <<>>]
          /\ UNCHANGED <<readerVars, taskVars, got, sends, writerVars, shutVars>>
    <2>1. CASE DropReceiver(s)
      <3>1. hpc' = [hpc EXCEPT ![s] = "run"]
        BY <1>0, <2>1 DEF DropReceiver, Types, HandlerType
      <3> QED BY <2>1, <3>1 DEF DropReceiver
    <2>2. CASE HandlerReturns(s)
      BY <2>2 DEF HandlerReturns
    <2> QED BY <2>1, <2>2
  <1>2. /\ hpc'[s] = h /\ ~hrx'[s] /\ HandlerType'
        /\ \A q \in Stream : q # s => hpc'[q] = hpc[q] /\ hrx'[q] = hrx[q]
    BY <1>0, <1>1 DEF Types, HandlerType
  <1>3. BoxType'
    <2>1. <<>> \in Seq(0..NumData + 1) /\ Len(<<>>) <= StreamCap
      BY CapAssumption
    <2> QED BY <1>0, <1>1, <2>1 DEF Types, BoxType
  <1>4. Types'
    BY <1>0, <1>1, <1>2, <1>3, KeepTypes DEF Types
  <1>5. Tasks'
    <2>1. \A q \in Stream : (hpc[q] # "none" => hpc'[q] # "none") /\ (hpc[q] = "done" => hpc'[q] = "done")
      BY <1>1, <1>2
    <2> QED BY <1>0, <1>1, <2>1 DEF Tasks, taskVars
  <1>6. Handlers'
    <2> SUFFICES ASSUME NEW q \in Stream
                 PROVE  /\ hrx'[q] <=> q \in streams'
                        /\ hrx'[q] => hpc'[q] \in {"run", "sending"}
                        /\ pc[<<q, 0>>] \in {"none", "start"} => hpc'[q] = "none"
                        /\ \/ pc[<<q, 0>>] \in {"none", "start"} \/ hpc'[q] # "none"
                           \/ verdict[<<q, 0>>] = "status"
      BY <1>1 DEF Handlers, taskVars
    <2>1. CASE q = s
      BY <1>0, <1>1, <1>2, <2>1 DEF Handlers
    <2>2. CASE q # s
      BY <1>0, <1>1, <1>2, <2>2 DEF Handlers
    <2> QED BY <2>1, <2>2
  <1>7. InTime'
    <2> SUFFICES ASSUME NEW q \in Stream, NEW k \in 1..NumData + 1, verdict[<<q, k>>] = "inactive"
                 PROVE  IF hpc'[q] = "none"
                        THEN pc[<<q, 0>>] = "none" \/ verdict[<<q, 0>>] = "status"
                        ELSE ~hrx'[q]
      BY <1>1 DEF InTime, taskVars
    <2>1. CASE q = s
      BY <1>1, <1>2, <2>1
    <2>2. CASE q # s
      BY <1>0, <1>2, <2>2 DEF InTime
    <2> QED BY <2>1, <2>2
  <1>8. Flight' /\ ResultIsLast' /\ \A r : Answered(r)' <=> Answered(r)
    BY <1>0, <1>1, <1>2, KeepFlightRun
  <1>9. Reading' /\ Writing' /\ Drain'
    BY <1>0, <1>1, <1>8, KeepDrain
  <1> QED BY <1>4, <1>5, <1>6, <1>7, <1>8, <1>9, Fold

-----------------------------------------------------------------------------
(* Sending. A message is appended to the channel, and a handler that sends   *)
(* then awaits the acknowledgement; a message that is refused changes        *)
(* nothing.                                                                  *)
LEMMA RefusedStep ==
  ASSUME IInv, TransformFails, UNCHANGED <<wstate, wmsg, wire, hpc>>
  PROVE  /\ WriterType' /\ Flight' /\ ResultIsLast'
         /\ Ended' = Ended /\ (Ended => out' = <<>>)
         /\ \A r : Answered(r) => Answered(r)'
  <1>0. Types /\ Writing /\ Flight /\ ResultIsLast
    BY Unfold
  <1>1. UNCHANGED writerVars /\ (Ended => out' = <<>>)
    BY <1>0 DEF TransformFails, Writing, writerVars
  <1>2. Flight' /\ ResultIsLast' /\ \A r : Answered(r)' <=> Answered(r)
    BY <1>0, <1>1, KeepFlight
  <1>3. Ended' = Ended
    BY DEF Ended
  <1> QED BY <1>0, <1>1, <1>2, <1>3, KeepTypes DEF Types

LEMMA SendStep ==
  ASSUME IInv, NEW m \in Msg, TransformSend(m), UNCHANGED <<wstate, wmsg, wire>>,
         \A s \in Stream : hpc[s] \in {"sending", "done"} => hpc'[s] = hpc[s],
         m.kind = "data" => m.rpc \in Stream,
         \A s \in Stream : m = DataMsg(s) => hpc[s] = "run" /\ hpc'[s] = "sending",
         \A s \in Stream : m = Result(s) => hpc'[s] = "done"
  PROVE  /\ WriterType' /\ Flight' /\ ResultIsLast'
         /\ Ended' = Ended /\ (Ended => out' = <<>>)
         /\ \A r : Answered(r) => Answered(r)'
         /\ Queued(m)'
  <1>0. /\ Types /\ Writing /\ Flight /\ ResultIsLast
    BY Unfold
  <1>1. out \in Seq(Msg) /\ Len(out) \in Nat /\ Len(out) <= OutCap
    BY <1>0 DEF Types, WriterType
  <1>2. ResultIsLast' /\ Ended' = Ended
    BY <1>0 DEF ResultIsLast, Ended
  <1>3. ~Ended
    BY DEF TransformSend
  <1> QED
    <2>1. Len(out) < OutCap /\ out' = Append(out, m)
      BY DEF TransformSend
    <2>2. /\ out' \in Seq(Msg) /\ Len(out') = Len(out) + 1
          /\ \A k \in 1..Len(out) : out'[k] = out[k]
          /\ out'[Len(out) + 1] = m
          /\ \A k \in 1..(Len(out) + 1) : k \in 1..Len(out) \/ k = Len(out) + 1
      BY <1>1, <2>1, AppendElems
    <2>3. Len(out') <= OutCap
      BY <1>1, <2>1, <2>2, CapAssumption
    <2>4. WriterType'
      BY <1>0, <2>2, <2>3 DEF Types, WriterType
    <2>5. \A x : Queued(x)' <=> Queued(x) \/ x = m
      <3>1. 1..Len(out') = 1..(Len(out) + 1) /\ Len(out) + 1 \in 1..Len(out')
            /\ \A k \in 1..Len(out) : k \in 1..Len(out')
        BY <1>1, <2>2
      <3> QED BY <2>2, <3>1 DEF Queued
    <2>6. \A x : Written(x)' <=> Written(x)
      BY DEF Written
    <2>7. \A r : Answered(r) => Answered(r)'
      BY <2>5, <2>6 DEF Answered
    <2>8. \A s \in Stream : Queued(DataMsg(s))' => hpc'[s] = "sending"
      <3> SUFFICES ASSUME NEW s \in Stream, Queued(DataMsg(s)) \/ DataMsg(s) = m
                   PROVE  hpc'[s] = "sending"
        BY <2>5 DEF DataMsg
      <3> QED BY <1>0 DEF Flight
    <2>9. \A s \in Stream : m = DataMsg(s) => ~Queued(DataMsg(s))
      BY <1>0 DEF Flight
    <2>10. \A s \in Stream : \A k, l \in 1..Len(out') :
             out'[k] = DataMsg(s) /\ out'[l] = DataMsg(s) => k = l
      <3> SUFFICES ASSUME NEW s \in Stream, NEW k \in 1..(Len(out) + 1), NEW l \in 1..(Len(out) + 1),
                          out'[k] = DataMsg(s), out'[l] = DataMsg(s)
                   PROVE  k = l
        BY <2>2
      <3>1. CASE m = DataMsg(s)
        BY <2>2, <2>9, <3>1 DEF Queued
      <3>2. CASE m # DataMsg(s)
        BY <1>0, <2>2, <3>2 DEF Flight
      <3> QED BY <3>1, <3>2
    <2>11. \A s \in Stream : wstate' = "write" /\ wmsg' = DataMsg(s) =>
             \A k \in 1..Len(out') : out'[k] # DataMsg(s)
      <3> SUFFICES ASSUME NEW s \in Stream, wstate = "write", wmsg = DataMsg(s),
                          NEW k \in 1..(Len(out) + 1)
                   PROVE  out'[k] # DataMsg(s)
        BY <2>2
      <3>1. Queued(DataMsg(s))
        BY DEF Queued
      <3> QED BY <1>0, <2>2, <2>9, <3>1 DEF Flight
    <2>12. \A r \in Unary : ~Queued(DataMsg(r))'
      <3> SUFFICES ASSUME NEW r \in Unary PROVE ~Queued(DataMsg(r)) /\ DataMsg(r) # m
        BY <2>5 DEF DataMsg
      <3> QED BY <1>0, Pairs DEF Flight, DataMsg
    <2>13. \A s \in Stream : Queued(Result(s))' \/ Written(Result(s))' => hpc'[s] = "done"
      <3> SUFFICES ASSUME NEW s \in Stream, Queued(Result(s)) \/ Written(Result(s)) \/ Result(s) = m
                   PROVE  hpc'[s] = "done"
        BY <2>5, <2>6 DEF Result
      <3> QED BY <1>0 DEF Flight
    <2>14. Flight'
      BY <2>8, <2>10, <2>11, <2>12, <2>13 DEF Flight, DataMsg, Result
    <2> QED BY <1>2, <1>3, <2>4, <2>5, <2>7, <2>14

LEMMA HandleErrStep ==
  ASSUME IInv, HandleErr PROVE IInv'
  <1>0. /\ Types /\ Reading /\ Tasks /\ Handlers /\ InTime /\ Writing /\ Flight /\ Drain /\ ResultIsLast
    BY Unfold
  <1> DEFINE m == [rpc |-> frame[1], kind |-> "status"]
  <1>1. /\ run = "handle_err" /\ (TransformSend(m) \/ TransformFails) /\ run' = "select" /\ frame' = NoFrame
        /\ UNCHANGED <<received, elapsed, taskVars, handlerVars, wstate, wmsg, wire, shutVars>>
    BY DEF HandleErr
  <1>2. m \in Msg /\ m.kind = "status"
    BY <1>0, <1>1, Pairs DEF Reading, Msg, Kind
  <1>3. \A s : m # DataMsg(s) /\ m # Result(s)
    BY DEF DataMsg, Result
  <1> HIDE DEF m
  <1>4. hpc' = hpc
    BY <1>1 DEF handlerVars
  <1>5. /\ WriterType' /\ Flight' /\ ResultIsLast' /\ Ended' = Ended /\ (Ended => out' = <<>>)
        /\ \A r : Answered(r) => Answered(r)'
    <2>1. CASE TransformSend(m)
      BY <1>1, <1>2, <1>3, <1>4, <2>1, SendStep
    <2>2. CASE TransformFails
      BY <1>1, <1>4, <2>2, RefusedStep
    <2> QED BY <1>1, <2>1, <2>2
  <1>6. ReaderType' /\ Reading' /\ ~handler_shutdown'
    BY <1>0, <1>1 DEF Types, ReaderType, Reading, taskVars, shutVars
  <1>7. Types'
    BY <1>0, <1>1, <1>5, <1>6, KeepTypes DEF Types, handlerVars
  <1>8. Tasks' /\ Handlers' /\ InTime'
    BY <1>0, <1>1, KeepTasks DEF handlerVars
  <1>9. Writing'
    BY <1>0, <1>1, <1>5 DEF Writing
  <1>10. Drain'
    BY <1>0, <1>1, <1>5, <1>6 DEF Drain, Failed, taskVars
  <1> QED BY <1>5, <1>6, <1>7, <1>8, <1>9, <1>10, Fold

LEMMA RespondStep ==
  ASSUME IInv, NEW f \in Frame, Respond(f) PROVE IInv'
  <1>0. /\ Types /\ Reading /\ Tasks /\ Handlers /\ InTime /\ Writing /\ Flight /\ Drain /\ ResultIsLast
    BY Unfold
  <1> PICK p \in {"gone", "lost"} :
        /\ pc' = [pc EXCEPT ![f] = p]
        /\ p = "gone" => TransformSend([rpc |-> f[1], kind |-> verdict[f]])
        /\ p = "lost" => TransformFails
    BY DEF Respond
  <1>1. /\ pc[f] \in {"respond", "even_id"} /\ verdict' = verdict
        /\ UNCHANGED <<readerVars, handlerVars, wstate, wmsg, wire, shutVars>>
    BY DEF Respond
  <1>2. /\ verdict[f] \in Kind \ {"data"} /\ (verdict[f] = "inactive" => f[2] > 0)
        /\ pc[f] = "even_id" => verdict[f] = "status"
        /\ verdict' = [verdict EXCEPT ![f] = verdict[f]]
    BY <1>0, <1>1 DEF Types, TaskType, Tasks
  <1> PICK m \in Msg : m = [rpc |-> f[1], kind |-> verdict[f]]
    BY <1>2, Pairs DEF Msg
  <1>3. /\ (p = "gone" => TransformSend(m)) /\ m.kind # "data" /\ m.rpc = f[1] /\ m.kind = verdict[f]
        /\ \A s : m # DataMsg(s)
    BY <1>1, <1>2 DEF DataMsg
  <1>4. \A s \in Stream : m = Result(s) => hpc[s] = "done"
    <2> SUFFICES ASSUME NEW s \in Stream, m = Result(s) PROVE hpc[s] = "done"
      OBVIOUS
    <2>1. f[1] = s /\ verdict[f] = "result"
      BY DEF Result
    <2> QED BY <1>0, <1>1, <1>2, <2>1 DEF Tasks
  <1>5. hpc' = hpc
    BY <1>1 DEF handlerVars
  <1>6. /\ WriterType' /\ Flight' /\ ResultIsLast' /\ Ended' = Ended /\ (Ended => out' = <<>>)
        /\ (\A r : Answered(r) => Answered(r)')
        /\ p = "gone" => Queued(m)'
    <2>1. CASE p = "gone"
      BY <1>1, <1>3, <1>4, <1>5, <2>1, SendStep
    <2>2. CASE p = "lost"
      BY <1>1, <1>5, <2>2, RefusedStep
    <2> QED BY <2>1, <2>2
  <1>7. Moves(f, p, verdict[f])
    BY <1>1, <1>2 DEF Moves, TaskPC
  <1>8. MoveFits(f, p, verdict[f])
    <2>1. (f[1] \in Stream /\ f[2] = 0) => f = <<f[1], 0>>
      BY Pairs
    <2> QED BY <1>0, <1>1, <2>1 DEF MoveFits, Handlers
  <1>9. /\ Reading' /\ Tasks' /\ Handlers' /\ InTime' /\ TaskType'
        /\ pc'[f] = p /\ (\A g \in Frame : g # f => pc'[g] = pc[g])
        /\ Waiters' \subseteq Waiters
    BY <1>1, <1>7, <1>8, MoveStep DEF handlerVars
  <1>10. Types'
    BY <1>0, <1>1, <1>6, <1>9, KeepTypes DEF Types, handlerVars
  <1>11. Writing'
    BY <1>0, <1>1, <1>6, <1>9 DEF Writing, readerVars
  <1>12. f[2] = 0 /\ p = "gone" => Answered(f[1])'
    <2> SUFFICES ASSUME f[2] = 0, p = "gone" PROVE Answered(f[1])'
      BY DEF Answered
    <2>1. verdict[f] \in {"result", "status"}
      BY <1>2 DEF Kind
    <2>2. f[1] \in Rpc /\ Queued(m)'
      BY <1>6, Pairs
    <2> QED BY <2>1, <2>2 DEF Answered
  <1>13. Drain'
    <2>1. Failed' = Failed
      BY <1>1 DEF Failed, readerVars
    <2>2. handler_shutdown' => Failed' \/ (run' = "end" /\ Waiters' = {})
      BY <1>0, <1>1, <1>9, <2>1 DEF Drain, shutVars, readerVars
    <2>3. ~Failed => \A r \in Rpc : pc'[<<r, 0>>] = "gone" => Answered(r)'
      <3> SUFFICES ASSUME ~Failed, NEW r \in Rpc, pc'[<<r, 0>>] = "gone" PROVE Answered(r)'
        OBVIOUS
      <3>1. <<r, 0>> \in Frame /\ <<r, 0>>[1] = r /\ <<r, 0>>[2] = 0
        BY Pairs
      <3>2. CASE <<r, 0>> = f
        <4>1. f[1] = r /\ f[2] = 0
          BY <3>1, <3>2
        <4>2. p = "gone"
          BY <1>9, <3>2
        <4> QED BY <1>12, <4>1, <4>2
      <3>3. CASE <<r, 0>> # f
        BY <1>0, <1>6, <1>9, <3>1, <3>3 DEF Drain
      <3> QED BY <3>2, <3>3
    <2> QED BY <2>1, <2>2, <2>3 DEF Drain
  <1> QED BY <1>6, <1>9, <1>10, <1>11, <1>13, Fold

(* A handler that sends or is acknowledged is neither new nor done.          *)
LEMMA KeepTasksAck ==
  ASSUME UNCHANGED <<taskVars, streams, hrx>>, Tasks, Handlers, InTime,
         \A s \in Stream : \/ hpc'[s] = hpc[s]
                           \/ hpc[s] \in {"run", "sending"} /\ hpc'[s] \in {"run", "sending"}
  PROVE  Tasks' /\ Handlers' /\ InTime'
  <1> USE DEF taskVars
  <1>1. Tasks'
    BY DEF Tasks
  <1>2. Handlers'
    BY DEF Handlers
  <1>3. InTime'
    BY DEF InTime
  <1> QED BY <1>1, <1>2, <1>3

LEMMA HandlerSendStep ==
  ASSUME IInv, NEW s \in Stream, HandlerSend(s) PROVE IInv'
  <1>0. /\ Types /\ Reading /\ Tasks /\ Handlers /\ InTime /\ Writing /\ Flight /\ Drain /\ ResultIsLast
    BY Unfold
  <1> PICK h \in {"run", "sending"} :
        /\ hpc' = [hpc EXCEPT ![s] = h]
        /\ h = "run" => TransformFails /\ hpc' = hpc
        /\ h = "sending" => TransformSend(DataMsg(s))
    BY <1>0 DEF HandlerSend, DataMsg, Types, HandlerType
  <1>1. /\ hpc[s] = "run" /\ sends[s] < MaxSend
        /\ sends' = [sends EXCEPT ![s] = @ + 1]
        /\ UNCHANGED <<readerVars, taskVars, streams, hrx, hbox, got, wstate, wmsg, wire, shutVars>>
    BY DEF HandlerSend, DataMsg
  <1>2. hpc'[s] = h /\ (\A q \in Stream : q # s => hpc'[q] = hpc[q])
    BY <1>0, <1>1 DEF Types, HandlerType
  <1>3. HandlerType'
    <2>1. sends[s] + 1 \in 0..MaxSend
      BY <1>0, <1>1, CapAssumption DEF Types, HandlerType
    <2> QED BY <1>0, <1>1, <2>1 DEF Types, HandlerType
  <1>4. DataMsg(s) \in Msg /\ DataMsg(s).rpc = s /\ \A q : DataMsg(s) # Result(q)
    BY Pairs DEF DataMsg, Result, Msg, Kind
  <1>5. \A q \in Stream : DataMsg(s) = DataMsg(q) => q = s
    BY DEF DataMsg
  <1>6. /\ WriterType' /\ Flight' /\ ResultIsLast' /\ Ended' = Ended /\ (Ended => out' = <<>>)
        /\ (\A r : Answered(r) => Answered(r)')
    <2>1. CASE h = "sending"
      BY <1>1, <1>2, <1>4, <1>5, <2>1, SendStep
    <2>2. CASE h = "run"
      BY <1>1, <2>2, RefusedStep
    <2> QED BY <2>1, <2>2
  <1>7. Types'
    BY <1>0, <1>1, <1>3, <1>6, KeepTypes DEF Types
  <1>8. Tasks' /\ Handlers' /\ InTime'
    BY <1>0, <1>1, <1>2, KeepTasksAck
  <1>9. Reading' /\ Waiters' = Waiters
    BY <1>0, <1>1 DEF Reading, Waiters, readerVars, taskVars, shutVars
  <1>10. Writing'
    BY <1>0, <1>1, <1>6, <1>9 DEF Writing, readerVars
  <1>11. Drain'
    BY <1>0, <1>1, <1>6, <1>9 DEF Drain, Failed, readerVars, taskVars, shutVars
  <1> QED BY <1>6, <1>7, <1>8, <1>9, <1>10, <1>11, Fold

-----------------------------------------------------------------------------
(* The writer.                                                               *)
LEMMA WriterRecvStep ==
  ASSUME IInv, WriterRecv PROVE IInv'
  <1>0. /\ Types /\ Reading /\ Tasks /\ Handlers /\ InTime /\ Writing /\ Flight /\ Drain /\ ResultIsLast
    BY Unfold
  <1>1. /\ wstate = "recv" /\ out # <<>> /\ wstate' = "write" /\ wmsg' = Head(out) /\ out' = Tail(out)
        /\ UNCHANGED <<readerVars, taskVars, handlerVars, wire, shutVars>>
    BY DEF WriterRecv
  <1>2. out \in Seq(Msg) /\ Len(out) <= OutCap
    BY <1>0 DEF Types, WriterType
  <1>3. /\ wmsg' \in Msg /\ wmsg' = out[1] /\ Len(out) \in Nat /\ Len(out) # 0
        /\ out' \in Seq(Msg) /\ Len(out') = Len(out) - 1
        /\ \A k \in 1..(Len(out) - 1) : out'[k] = out[k + 1]
    BY <1>1, <1>2, TailElems
  <1>4. WriterType'
    BY <1>0, <1>1, <1>2, <1>3, CapAssumption DEF Types, WriterType
  <1>5. /\ 1 \in 1..Len(out) /\ \A k \in 1..Len(out') : k + 1 \in 1..Len(out) /\ k + 1 # 1
        /\ \A k \in 1..Len(out) : k = 1 \/ (k - 1 \in 1..Len(out') /\ out'[k - 1] = out[k])
    BY <1>3
  <1>6. \A x : Queued(x)' <=> Queued(x)
    <2> TAKE x
    <2>1. Queued(x)' => Queued(x)
      BY <1>1, <1>3, <1>5 DEF Queued
    <2>2. Queued(x) => Queued(x)'
      BY <1>1, <1>3, <1>5 DEF Queued
    <2> QED BY <2>1, <2>2
  <1>7. (\A x : Written(x)' <=> Written(x)) /\ hpc' = hpc
    BY <1>1 DEF Written, handlerVars
  <1>8. \A s \in Stream : \A k, l \in 1..Len(out') :
          out'[k] = DataMsg(s) /\ out'[l] = DataMsg(s) => k = l
    <2> SUFFICES ASSUME NEW s \in Stream, NEW k \in 1..Len(out'), NEW l \in 1..Len(out'),
                        out'[k] = DataMsg(s), out'[l] = DataMsg(s)
                 PROVE  k = l
      OBVIOUS
    <2>1. out[k + 1] = DataMsg(s) /\ out[l + 1] = DataMsg(s)
      BY <1>3
    <2>2. k + 1 = l + 1
      BY <1>0, <1>5, <2>1 DEF Flight
    <2> QED BY <2>2
  <1>9. \A s \in Stream : wmsg' = DataMsg(s) => \A k \in 1..Len(out') : out'[k] # DataMsg(s)
    <2> SUFFICES ASSUME NEW s \in Stream, wmsg' = DataMsg(s), NEW k \in 1..Len(out'),
                        out'[k] = DataMsg(s)
                 PROVE  FALSE
      OBVIOUS
    <2>1. out[1] = DataMsg(s) /\ out[k + 1] = DataMsg(s)
      BY <1>3
    <2> QED BY <1>0, <1>5, <2>1 DEF Flight
  <1>10. Flight'
    BY <1>0, <1>1, <1>6, <1>7, <1>8, <1>9 DEF Flight, DataMsg, Result
  <1>11. ResultIsLast' /\ \A r : Answered(r)' <=> Answered(r)
    BY <1>0, <1>1, <1>6, <1>7 DEF ResultIsLast, Answered
  <1>12. Types'
    BY <1>0, <1>1, <1>4, KeepTypes DEF Types, handlerVars
  <1>13. Tasks' /\ Handlers' /\ InTime'
    BY <1>0, <1>1, KeepTasks DEF handlerVars
  <1>14. Reading' /\ Waiters' = Waiters
    BY <1>0, <1>1 DEF Reading, Waiters, readerVars, taskVars, shutVars
  <1>15. Writing'
    BY <1>1, <1>3 DEF Writing, Ended
  <1>16. Drain'
    BY <1>0, <1>1, <1>11, <1>14 DEF Drain, Failed, readerVars, taskVars, shutVars
  <1> QED BY <1>10, <1>11, <1>12, <1>13, <1>14, <1>15, <1>16, Fold

LEMMA AckFact ==
  ASSUME Types, NEW S, Acknowledge(S)
  PROVE  /\ hpc' \in [Stream -> {"none", "run", "sending", "done"}]
         /\ \A s \in Stream : \/ hpc'[s] = hpc[s]
                              \/ s \in S /\ hpc[s] = "sending" /\ hpc'[s] = "run"
         /\ \A s \in Stream : hpc[s] = "done" => hpc'[s] = "done"
  BY DEF Types, HandlerType, Acknowledge

LEMMA WriteOkStep ==
  ASSUME IInv, WriteOk PROVE IInv'
  <1>0. /\ Types /\ Reading /\ Tasks /\ Handlers /\ InTime /\ Writing /\ Flight /\ Drain /\ ResultIsLast
    BY Unfold
  <1>1. /\ wstate = "write" /\ wire' = Append(wire, wmsg) /\ wstate' = "recv" /\ wmsg' = NoFrame
        /\ UNCHANGED <<readerVars, taskVars, streams, hrx, hbox, got, sends, out, shutVars>>
        /\ Acknowledge(IF wmsg.kind = "data" THEN {wmsg.rpc} ELSE {})
    BY DEF WriteOk
  <1> PICK m \in Msg : m = wmsg
    BY <1>0, <1>1 DEF Writing
  <1>2. /\ hpc' \in [Stream -> {"none", "run", "sending", "done"}]
        /\ \A s \in Stream : \/ hpc'[s] = hpc[s]
                             \/ m = DataMsg(s) /\ hpc[s] = "sending" /\ hpc'[s] = "run"
        /\ \A s \in Stream : hpc[s] = "done" => hpc'[s] = "done"
    <2>1. /\ hpc' \in [Stream -> {"none", "run", "sending", "done"}]
          /\ \A s \in Stream : \/ hpc'[s] = hpc[s]
                               \/ /\ s \in (IF wmsg.kind = "data" THEN {wmsg.rpc} ELSE {})
                                  /\ hpc[s] = "sending" /\ hpc'[s] = "run"
          /\ \A s \in Stream : hpc[s] = "done" => hpc'[s] = "done"
      BY <1>0, <1>1, AckFact
    <2>2. \A s : s \in (IF wmsg.kind = "data" THEN {wmsg.rpc} ELSE {}) => m = DataMsg(s)
      BY DEF DataMsg, Msg
    <2> QED BY <2>1, <2>2
  <1>3. /\ wire' \in Seq(Msg) /\ Len(wire') = Len(wire) + 1 /\ Len(wire) \in Nat
        /\ \A k \in 1..Len(wire) : wire'[k] = wire[k]
        /\ wire'[Len(wire) + 1] = m
        /\ \A k \in 1..(Len(wire) + 1) : k \in 1..Len(wire) \/ k = Len(wire) + 1
    <2>1. wire \in Seq(Msg) /\ wire' = Append(wire, m)
      BY <1>0, <1>1 DEF Types, WriterType
    <2> QED BY <2>1, AppendElems
  <1>4. \A x : Written(x)' <=> Written(x) \/ x = m
    <2>1. 1..Len(wire') = 1..(Len(wire) + 1) /\ Len(wire) + 1 \in 1..Len(wire')
          /\ \A k \in 1..Len(wire) : k \in 1..Len(wire')
      BY <1>3
    <2> QED BY <1>3, <2>1 DEF Written
  <1>5. \A x : Queued(x) <=> Queued(x)' \/ x = m
    BY <1>1 DEF Queued
  <1>6. Types'
    <2>1. WriterType'
      BY <1>0, <1>1, <1>3 DEF Types, WriterType
    <2>2. HandlerType'
      BY <1>0, <1>1, <1>2 DEF Types, HandlerType
    <2> QED BY <1>0, <1>1, <2>1, <2>2, KeepTypes DEF Types
  <1>7. Tasks' /\ Handlers' /\ InTime'
    BY <1>0, <1>1, <1>2, KeepTasksAck
  <1>8. Flight'
    <2>1. \A s \in Stream : Queued(DataMsg(s))' => hpc'[s] = "sending"
      <3> SUFFICES ASSUME NEW s \in Stream, NEW k \in 1..Len(out), out[k] = DataMsg(s)
                   PROVE  hpc'[s] = "sending"
        BY <1>1 DEF Queued, DataMsg
      <3>1. m # DataMsg(s)
        BY <1>0, <1>1 DEF Flight
      <3>2. Queued(DataMsg(s))
        BY DEF Queued
      <3> QED BY <1>0, <1>2, <3>1, <3>2 DEF Flight
    <2>2. \A r \in Unary : ~Queued(DataMsg(r))'
      BY <1>0, <1>5 DEF Flight, DataMsg
    <2>3. \A s \in Stream : Queued(Result(s))' \/ Written(Result(s))' => hpc'[s] = "done"
      <3> SUFFICES ASSUME NEW s \in Stream, Queued(Result(s)) \/ Written(Result(s)) PROVE hpc'[s] = "done"
        BY <1>4, <1>5 DEF Result
      <3> QED BY <1>0, <1>2 DEF Flight
    <2> QED BY <1>0, <1>1, <2>1, <2>2, <2>3 DEF Flight, DataMsg, Result
  <1>9. ResultIsLast'
    <2> SUFFICES ASSUME NEW k \in 1..(Len(wire) + 1), wire'[k].kind = "result",
                        NEW l \in (k + 1)..(Len(wire) + 1),
                        wire'[l].kind = "data", wire'[l].rpc = wire'[k].rpc
                 PROVE  FALSE
      BY <1>3 DEF ResultIsLast
    <2>1. k \in 1..Len(wire) /\ wire'[k] = wire[k] /\ l \in 1..(Len(wire) + 1)
      BY <1>3
    <2>2. CASE l \in 1..Len(wire)
      <3>1. l \in k + 1..Len(wire) /\ wire'[l] = wire[l]
        BY <1>3, <2>1, <2>2
      <3> QED BY <1>0, <2>1, <3>1 DEF ResultIsLast
    <2>3. CASE l = Len(wire) + 1
      <3> DEFINE r == m.rpc
      <3>1. m.kind = "data" /\ wire[k].kind = "result" /\ wire[k].rpc = r /\ wire[k] \in Msg /\ r \in Rpc
        <4>1. wire[k] \in Msg
          BY <1>0, <2>1 DEF Types, WriterType
        <4> QED BY <1>3, <2>1, <2>3, <4>1 DEF Msg
      <3>2. m = DataMsg(r) /\ wire[k] = Result(r)
        BY <3>1 DEF Msg, DataMsg, Result
      <3>3. Queued(DataMsg(r)) /\ Written(Result(r))
        BY <1>5, <2>1, <3>2 DEF Written
      <3> HIDE DEF r
      <3> QED BY <1>0, <3>1, <3>3 DEF Flight, Rpc
    <2> QED BY <1>3, <2>1, <2>2, <2>3
  <1>10. \A r : Answered(r) => Answered(r)'
    BY <1>4, <1>5 DEF Answered
  <1>11. Reading' /\ Waiters' = Waiters
    BY <1>0, <1>1 DEF Reading, Waiters, readerVars, taskVars, shutVars
  <1>12. Writing'
    BY <1>1 DEF Writing, Ended
  <1>13. Drain'
    BY <1>0, <1>1, <1>10, <1>11 DEF Drain, Failed, readerVars, taskVars, shutVars
  <1> QED BY <1>6, <1>7, <1>8, <1>9, <1>11, <1>12, <1>13, Fold

(* The end of the writer, for whatever reason.                               *)
LEMMA EndsFact ==
  ASSUME IInv, NEW w \in {"ok", "err", "aborted"}, WriterEnds(w), UNCHANGED taskVars
  PROVE  /\ WriterType' /\ HandlerType' /\ BoxType' /\ Tasks' /\ Handlers' /\ InTime' /\ Flight'
         /\ ResultIsLast' /\ out' = <<>> /\ wstate' = w
         /\ \A x : Written(x)' <=> Written(x)
  <1>0. /\ Types /\ Tasks /\ Handlers /\ InTime /\ Writing /\ Flight /\ ResultIsLast
    BY Unfold
  <1>1. /\ wstate' = w /\ wmsg' = NoFrame /\ out' = <<>> /\ Acknowledge(Stream)
        /\ UNCHANGED <<streams, hrx, hbox, got, sends, wire>>
    BY DEF WriterEnds
  <1>2. /\ hpc' \in [Stream -> {"none", "run", "sending", "done"}]
        /\ \A s \in Stream : \/ hpc'[s] = hpc[s]
                             \/ hpc[s] = "sending" /\ hpc'[s] = "run"
        /\ \A s \in Stream : hpc[s] = "done" => hpc'[s] = "done"
    BY <1>0, <1>1, AckFact
  <1>3. WriterType'
    BY <1>0, <1>1, CapAssumption DEF Types, WriterType
  <1>4. HandlerType' /\ BoxType'
    BY <1>0, <1>1, <1>2, KeepTypes DEF Types, HandlerType
  <1>5. Tasks' /\ Handlers' /\ InTime'
    BY <1>0, <1>1, <1>2, KeepTasksAck
  <1>6. \A x : ~Queued(x)' /\ (Written(x)' <=> Written(x))
    BY <1>1 DEF Queued, Written
  <1>7. Flight'
    <2>1. Len(out') = 0 /\ wstate' # "write"
      BY <1>1
    <2> QED BY <1>0, <1>2, <1>6, <2>1 DEF Flight, DataMsg, Result
  <1>8. ResultIsLast'
    BY <1>0, <1>1 DEF ResultIsLast
  <1> QED BY <1>1, <1>3, <1>4, <1>5, <1>6, <1>7, <1>8

LEMMA WriterStopsStep ==
  ASSUME IInv, WriteFails \/ WriterNone PROVE IInv'
  <1>0. /\ Types /\ Reading /\ Writing /\ Drain
    BY Unfold
  <1>1. PICK w \in {"ok", "err"} :
          /\ WriterEnds(w) /\ UNCHANGED <<readerVars, taskVars, shutVars>>
          /\ w = "ok" => wstate = "recv" /\ out = <<>> /\ run = "end" /\ Waiters = {}
    BY DEF WriteFails, WriterNone
  <1>2. /\ WriterType' /\ HandlerType' /\ BoxType' /\ Tasks' /\ Handlers' /\ InTime' /\ Flight'
        /\ ResultIsLast' /\ out' = <<>> /\ wstate' = w
        /\ \A x : Written(x)' <=> Written(x)
    BY <1>1, EndsFact
  <1>3. Types'
    BY <1>0, <1>1, <1>2, KeepTypes DEF Types
  <1>4. Reading' /\ Waiters' = Waiters
    BY <1>0, <1>1 DEF Reading, Waiters, readerVars, taskVars, shutVars
  <1>5. Writing'
    BY <1>1, <1>2, <1>4 DEF Writing, Ended, readerVars
  <1>6. Drain'
    <2>1. CASE w = "err"
      BY <1>2, <2>1 DEF Drain, Failed
    <2>2. CASE w = "ok"
      <3>1. \A x : ~Queued(x)
        BY <1>1, <2>2 DEF Queued
      <3>2. \A r : Answered(r) => Answered(r)'
        BY <1>2, <3>1 DEF Answered
      <3>3. Failed' = Failed
        BY <1>1, <1>2, <2>2 DEF Failed, readerVars
      <3> QED BY <1>0, <1>1, <1>4, <3>2, <3>3 DEF Drain, readerVars, taskVars, shutVars
    <2> QED BY <2>1, <2>2
  <1> QED BY <1>2, <1>3, <1>4, <1>5, <1>6, Fold

LEMMA AwaitWriterStep ==
  ASSUME IInv, AwaitWriter PROVE IInv'
  <1>0. /\ Types /\ Reading /\ Tasks /\ Handlers /\ InTime /\ Writing /\ Flight /\ Drain /\ ResultIsLast
    BY Unfold
  <1>1. /\ run = "abort" /\ run' = "exit" /\ handler_shutdown' = TRUE
        /\ UNCHANGED <<received, frame, elapsed, taskVars, server_shutdown>>
    BY DEF AwaitWriter
  <1>2. ReaderType' /\ Reading'
    BY <1>0, <1>1 DEF Types, ReaderType, Reading, taskVars
  <1>3. /\ WriterType' /\ HandlerType' /\ BoxType' /\ Tasks' /\ Handlers' /\ InTime' /\ Flight'
        /\ ResultIsLast' /\ out' = <<>> /\ wstate' \in {"err", "aborted"}
    <2>1. CASE Ended
      <3>1. UNCHANGED <<handlerVars, writerVars>>
        BY <2>1 DEF AwaitWriter
      <3>2. Tasks' /\ Handlers' /\ InTime' /\ Flight' /\ ResultIsLast'
        BY <1>0, <1>1, <3>1, KeepTasks, KeepFlight DEF handlerVars
      <3>3. WriterType' /\ HandlerType' /\ BoxType'
        BY <1>0, <3>1, KeepTypes DEF Types, handlerVars
      <3>4. out' = <<>> /\ wstate' \in {"err", "aborted"}
        BY <1>0, <1>1, <2>1, <3>1 DEF Writing, Ended, writerVars
      <3> QED BY <3>2, <3>3, <3>4
    <2>2. CASE ~Ended
      BY <1>1, <2>2, EndsFact DEF AwaitWriter
    <2> QED BY <2>1, <2>2
  <1>4. Types'
    BY <1>0, <1>1, <1>2, <1>3, KeepTypes DEF Types
  <1>5. Writing' /\ Drain'
    BY <1>3 DEF Writing, Ended, Drain, Failed
  <1> QED BY <1>2, <1>3, <1>4, <1>5, Fold

-----------------------------------------------------------------------------
LEMMA InitIInv ==
  ASSUME Init PROVE IInv
  <1> USE RpcAssumption, CapAssumption DEF Init
  <1>1. ReaderType
    <2>1. PICK rs \in Offered : received = [r \in Rpc |-> IF r \in rs THEN 0 ELSE NumData + 2]
      OBVIOUS
    <2>2. 0 \in 0..NumData + 2 /\ NumData + 2 \in 0..NumData + 2
      OBVIOUS
    <2> QED BY <2>1, <2>2 DEF ReaderType
  <1>2. TaskType /\ HandlerType
    BY DEF TaskType, HandlerType, TaskPC, Kind
  <1>3. BoxType /\ WriterType
    BY DEF BoxType, WriterType
  <1>4. TypeOK
    BY <1>1, <1>2, <1>3, TypeParts DEF Types
  <1>5. Reading /\ Tasks
    BY DEF Reading, Tasks
  <1>6. Handlers /\ InTime
    <2>1. \A s \in Stream : \A k \in 0..NumData + 1 : <<s, k>> \in Frame
      BY Pairs
    <2>2. \A s \in Stream : <<s, 0>> \in Frame
      BY Pairs
    <2>3. \A s \in Stream : \A k \in 1..NumData + 1 : verdict[<<s, k>>] = "result"
      <3> TAKE s \in Stream
      <3> TAKE k \in 1..NumData + 1
      <3>1. k \in 0..NumData + 1
        OBVIOUS
      <3> QED BY <2>1, <3>1
    <2>4. InTime
      BY <2>3 DEF InTime
    <2> QED BY <2>2, <2>4 DEF Handlers
  <1>7. Writing /\ ResultIsLast
    BY DEF Writing, Ended, ResultIsLast
  <1>8. \A x : ~Queued(x) /\ ~Written(x)
    BY DEF Queued, Written
  <1>9. Flight
    BY <1>8 DEF Flight
  <1>10. Drain
    BY Pairs DEF Drain
  <1> QED BY <1>4, <1>5, <1>6, <1>7, <1>9, <1>10 DEF IInv

LEMMA StutterStep ==
  ASSUME IInv, UNCHANGED vars PROVE IInv'
  <1> USE DEF vars
  <1>0. /\ Types /\ Reading /\ Tasks /\ Handlers /\ InTime /\ Writing /\ Flight /\ Drain /\ ResultIsLast
    BY Unfold
  <1>1. Types'
    BY <1>0, KeepTypes DEF Types, handlerVars
  <1>2. Tasks' /\ Handlers' /\ InTime'
    BY <1>0, KeepTasks DEF handlerVars
  <1>3. Flight' /\ ResultIsLast' /\ \A r : Answered(r)' <=> Answered(r)
    BY <1>0, KeepFlight DEF handlerVars
  <1>4. Reading' /\ Writing' /\ Drain'
    BY <1>0, <1>3, KeepDrain
  <1> QED BY <1>1, <1>2, <1>3, <1>4, Fold

LEMMA IInvStep ==
  ASSUME IInv, [Next]_vars PROVE IInv'
  <1>1. ASSUME NEW r \in Rpc, HandleMsg(r) \/ DropFrame(r) \/ ReadOversize(r) PROVE IInv'
    BY <1>1, HandleMsgStep, TakeFrameStep
  <1>2. ASSUME NEW f \in Frame, TaskStep(f) \/ RefuseRequest(f) \/ HandleMethod(f) PROVE IInv'
    <2>1. CASE RefuseId(f) \/ RefuseRequest(f)
      BY <2>1, RefuseStep
    <2>2. CASE HandleRequest(f) \/ HandleMethod(f)
      BY <2>2, MethodStep
    <2>3. CASE HandleStream(f)
      BY <2>3, HandleStreamStep
    <2>4. CASE HandleData(f)
      BY <2>4, HandleDataStep
    <2>5. CASE Deliver(f)
      BY <2>5, DeliverStep
    <2>6. CASE AwaitHandler(f)
      BY <2>6, AwaitHandlerStep
    <2>7. CASE Respond(f)
      BY <2>7, RespondStep
    <2>8. CASE CancelTask(f)
      BY <2>8, CancelStep
    <2> QED BY <1>2, <2>1, <2>2, <2>3, <2>4, <2>5, <2>6, <2>7, <2>8 DEF TaskStep
  <1>3. ASSUME NEW s \in Stream,
               HandlerRecv(s) \/ HandlerSend(s) \/ DropReceiver(s) \/ HandlerReturns(s)
        PROVE  IInv'
    BY <1>3, HandlerRecvStep, HandlerSendStep, ReceiverGoesStep
  <1>4. CASE WriterRecv
    BY <1>4, WriterRecvStep
  <1>5. CASE WriteOk
    BY <1>5, WriteOkStep
  <1>6. CASE WriteFails \/ WriterNone
    BY <1>6, WriterStopsStep
  <1>7. CASE SelectRead \/ WaitRx \/ ReadError \/ SelectShutdown \/ Shutdown
    BY <1>7, SelectStep
  <1>8. CASE HandleErr
    BY <1>8, HandleErrStep
  <1>9. CASE SelectWriter \/ ExitAll \/ ExitElapsed
    BY <1>9, ExitStep
  <1>10. CASE AwaitWriter
    BY <1>10, AwaitWriterStep
  <1>11. CASE UNCHANGED vars
    BY <1>11, StutterStep
  <1> QED BY <1>1, <1>2, <1>3, <1>4, <1>5, <1>6, <1>7, <1>8, <1>9, <1>10, <1>11 DEF Next, ReaderStep

(* The invariant of the connection: what reader, frame tasks, handlers and   *)
(* writer know of each other at every point of an execution.                 *)
THEOREM Invariance == Spec => []IInv
  <1>1. Init => IInv
    BY InitIInv
  <1>2. IInv /\ [Next]_vars => IInv'
    BY IInvStep
  <1> QED BY <1>1, <1>2, PTL DEF Spec

(* No DATA frame is answered "Stream is no longer active" because the        *)
(* REQUEST of its stream is still being set up: waiting for wait_rx between  *)
(* frames is enough, for any number of streams and frames.                   *)
THEOREM StreamIsRegisteredInTime == Spec => []RegisteredInTime
  <1>1. IInv => RegisteredInTime
    BY DEF IInv, InTime, RegisteredInTime
  <1> QED BY <1>1, Invariance, PTL

(* A connection that ends without an error and within its time limit has put *)
(* an answer to every request it took on onto the wire, unless sending the   *)
(* answer was refused.                                                       *)
THEOREM ShutdownDrains == Spec => []GracefulDrain
  <1>1. IInv => GracefulDrain
    <2> SUFFICES ASSUME IInv, run = "end", wstate = "ok", ~elapsed,
                        NEW r \in Rpc, pc[<<r, 0>>] \notin {"none", "lost"}
                 PROVE  \E k \in 1..Len(wire) : wire[k].rpc = r /\ wire[k].kind \in {"result", "status"}
      BY DEF GracefulDrain
    <2>0. Writing /\ Drain
      BY Unfold
    <2>1. Waiters = {} /\ out = <<>>
      BY <2>0 DEF Writing, Ended
    <2>2. pc[<<r, 0>>] = "gone"
      BY <2>1, Pairs DEF Waiters
    <2>3. Answered(r)
      BY <2>0, <2>2 DEF Drain, Failed
    <2>4. \A x : ~Queued(x)
      BY <2>1 DEF Queued
    <2>5. PICK kind \in {"result", "status"} : Written([rpc |-> r, kind |-> kind])
      BY <2>3, <2>4 DEF Answered
    <2> QED BY <2>5 DEF Written
  <1> QED BY <1>1, Invariance, PTL

(* The final frame of a stream is behind every DATA frame its handler sent.  *)
THEOREM ResultComesLast == Spec => []ResultIsLast
  <1>1. IInv => ResultIsLast
    BY DEF IInv
  <1> QED BY <1>1, Invariance, PTL

-----------------------------------------------------------------------------
(* The shutdown notifier: the waiter count is exact, neither notification is *)
(* ever lost, and wait_all_exit() reports success only when no handle is     *)
(* alive. The inductive invariant is the conjunction of the type invariant,  *)
(* Accounting and the two no-lost-wake-up invariants.                        *)
USE HandleAssumption, CallerAssumption, WaitTimeAssumption

NotifierIInv == NotifierTypeOK /\ Accounting /\ NoLostShutdown /\ NoLostExit

(* Live is a finite set, so its cardinality behaves.                         *)
LEMMA LiveFinite == IsFiniteSet(Live) /\ Cardinality(Live) \in Nat
  BY FS_Subset, FS_CardinalityType DEF Live

(* Creating a handle adds one live handle and changes no other.              *)
LEMMA FromSharedLive ==
  ASSUME NotifierTypeOK, NEW g \in Handle, FromShared(g)
  PROVE  Live' = Live \cup {g} /\ g \notin Live
  BY DEF NotifierTypeOK, FromShared, Live, HandlePC

(* Dropping a handle removes exactly that one.                               *)
LEMMA DropLive ==
  ASSUME NotifierTypeOK, NEW h \in Handle, DropWaiter(h)
  PROVE  Live' = Live \ {h} /\ h \in Live
  BY DEF NotifierTypeOK, DropWaiter, Live, HandlePC

(* Every other step leaves the set of live handles alone.                    *)
LEMMA LiveStable ==
  ASSUME NotifierTypeOK, NEW h \in Handle,
         \/ WaitShutdown(h) \/ HandleStep(h) \/ CancelWait(h)
  PROVE  Live' = Live /\ waiters' = waiters
  BY DEF NotifierTypeOK, WaitShutdown, HandleStep, CheckShutdown, NotifiedShutdown, RecheckShutdown,
         WakeShutdown, NotifyExit, CancelWait, Live, HandlePC

(* The count and the type invariant survive creating a handle.               *)
LEMMA FromSharedCount ==
  ASSUME NotifierTypeOK, Accounting, NEW g \in Handle, FromShared(g)
  PROVE  NotifierTypeOK' /\ Accounting'
  <1>1. Accounting'
    BY LiveFinite, FromSharedLive, FS_AddElement DEF Accounting, FromShared
  <1>2. NotifierTypeOK'
    BY DEF NotifierTypeOK, FromShared, HandlePC
  <1> QED BY <1>1, <1>2

(* The count and the type invariant survive dropping a handle: the counter   *)
(* cannot underflow because the dropped handle was counted.                  *)
LEMMA DropCount ==
  ASSUME NotifierTypeOK, Accounting, NEW h \in Handle, DropWaiter(h)
  PROVE  NotifierTypeOK' /\ Accounting' /\ waiters # 0
  <1>1. Live' = Live \ {h} /\ h \in Live
    BY DropLive
  <1>2. Cardinality(Live') = Cardinality(Live) - 1 /\ Cardinality(Live) # 0
    BY <1>1, LiveFinite, FS_RemoveElement, FS_EmptySet
  <1>3. Accounting' /\ waiters # 0 /\ waiters - 1 \in Nat
    BY <1>2, LiveFinite DEF Accounting, DropWaiter, NotifierTypeOK
  <1>4. NotifierTypeOK'
    BY <1>3 DEF NotifierTypeOK, DropWaiter, HandlePC
  <1> QED BY <1>3, <1>4

(* One step of the specification preserves the type invariant and the count. *)
LEMMA TypeAndCountStep ==
  ASSUME NotifierTypeOK, Accounting, [NotifierNext]_notifierVars
  PROVE  NotifierTypeOK' /\ Accounting'
  <1>1. ASSUME NEW g \in Handle, FromShared(g) PROVE NotifierTypeOK' /\ Accounting'
    BY <1>1, FromSharedCount
  <1>2. ASSUME NEW h \in Handle, DropWaiter(h) PROVE NotifierTypeOK' /\ Accounting'
    BY <1>2, DropCount
  <1>3. ASSUME NEW h \in Handle, WaitShutdown(h) \/ HandleStep(h) \/ CancelWait(h)
        PROVE  NotifierTypeOK' /\ Accounting'
    <2>1. Accounting'
      BY <1>3, LiveStable DEF Accounting
    <2>2. NotifierTypeOK'
      BY <1>3 DEF NotifierTypeOK, WaitShutdown, HandleStep, CheckShutdown, NotifiedShutdown, RecheckShutdown,
                  WakeShutdown, NotifyExit, CancelWait, NotifyWaiters, HandlePC
    <2> QED BY <2>1, <2>2
  <1>4. ASSUME NEW c \in Caller,
               \/ SwapShutdown(c) \/ DropNotifier(c) \/ WaitAllExit(c)
               \/ Elapse(c) \/ CallerStep(c)
        PROVE  NotifierTypeOK' /\ Accounting'
    <2>1. wpc' = wpc /\ waiters' = waiters
      BY <1>4 DEF SwapShutdown, DropNotifier, WaitAllExit, Elapse, CallerStep,
                  NotifyShutdown, CheckExit, NotifiedExit, RecheckExit, WakeExit
    <2>2. Accounting'
      BY <2>1 DEF Accounting, Live
    <2>3. NotifierTypeOK'
      BY <1>4 DEF NotifierTypeOK, SwapShutdown, DropNotifier, WaitAllExit, Elapse, CallerStep,
                  NotifyShutdown, CheckExit, NotifiedExit, RecheckExit, WakeExit, NotifyWaiters, CallerPC
    <2> QED BY <2>2, <2>3
  <1>5. CASE UNCHANGED notifierVars
    BY <1>5 DEF notifierVars, NotifierTypeOK, Accounting, Live
  <1> QED BY <1>1, <1>2, <1>3, <1>4, <1>5 DEF NotifierNext, Clone, Subscribe

(* A step never leaves a waiter asleep after the shutdown notification.      *)
LEMMA ShutdownStep ==
  ASSUME NotifierTypeOK, NoLostShutdown, [NotifierNext]_notifierVars
  PROVE  NoLostShutdown'
  <1> USE DEF NotifierTypeOK, NoLostShutdown, HandlePC, CallerPC
  <1>1. ASSUME NEW g \in Handle, FromShared(g) PROVE NoLostShutdown'
    BY <1>1 DEF FromShared
  <1>2. ASSUME NEW h \in Handle, \/ WaitShutdown(h) \/ CancelWait(h) \/ DropWaiter(h)
                                 \/ CheckShutdown(h) \/ NotifiedShutdown(h) \/ RecheckShutdown(h)
                                 \/ WakeShutdown(h)
        PROVE  NoLostShutdown'
    BY <1>2 DEF WaitShutdown, CancelWait, DropWaiter, CheckShutdown, NotifiedShutdown, RecheckShutdown,
                WakeShutdown
  <1>3. ASSUME NEW h \in Handle, NotifyExit(h) PROVE NoLostShutdown'
    BY <1>3 DEF NotifyExit, NotifyWaiters
  <1>4. ASSUME NEW c \in Caller, \/ SwapShutdown(c) \/ DropNotifier(c)
        PROVE  NoLostShutdown'
    BY <1>4 DEF SwapShutdown, DropNotifier
  <1>5. ASSUME NEW c \in Caller, NotifyShutdown(c)
        PROVE  NoLostShutdown'
    BY <1>5 DEF NotifyShutdown, NotifyWaiters, ShutdownFutures
  <1>6. ASSUME NEW c \in Caller, \/ WaitAllExit(c) \/ Elapse(c) \/ CheckExit(c) \/ NotifiedExit(c)
                                 \/ RecheckExit(c) \/ WakeExit(c)
        PROVE  NoLostShutdown'
    <2>1. /\ wpc' = wpc /\ shutdown' = shutdown
          /\ \A h \in Handle : notified[h] => notified'[h]
          /\ \A d \in Caller : cpc[d] = "notify" => cpc'[d] = "notify"
      BY <1>6 DEF WaitAllExit, Elapse, CheckExit, NotifiedExit, RecheckExit, WakeExit
    <2> QED BY <2>1, <1>6
  <1>7. CASE UNCHANGED notifierVars
    BY <1>7 DEF notifierVars
  <1> QED BY <1>1, <1>2, <1>3, <1>4, <1>5, <1>6, <1>7
          DEF NotifierNext, Clone, Subscribe, HandleStep, CallerStep

(* A step never leaves wait_all_exit() asleep once the last waiter is gone.  *)
LEMMA NotifierExitStep ==
  ASSUME NotifierTypeOK, Accounting, NoLostExit, [NotifierNext]_notifierVars
  PROVE  NoLostExit'
  <1> USE DEF NotifierTypeOK, NoLostExit, HandlePC, CallerPC
  <1>1. ASSUME NEW g \in Handle, FromShared(g) PROVE NoLostExit'
    BY <1>1 DEF FromShared
  <1>2. ASSUME NEW h \in Handle, DropWaiter(h) PROVE NoLostExit'
    <2>1. waiters # 0
      BY <1>2, DropCount
    <2> QED BY <1>2, <2>1 DEF DropWaiter
  <1>3. ASSUME NEW h \in Handle, \/ WaitShutdown(h) \/ CancelWait(h) \/ CheckShutdown(h)
                                 \/ NotifiedShutdown(h)
                                 \/ RecheckShutdown(h) \/ WakeShutdown(h)
        PROVE  NoLostExit'
    <2>1. /\ cpc' = cpc /\ waiters' = waiters
          /\ \A c \in Caller : notified'[c] = notified[c]
          /\ \A g \in Handle : wpc[g] = "exit" => wpc'[g] = "exit"
      BY <1>3 DEF WaitShutdown, CancelWait, CheckShutdown, NotifiedShutdown, RecheckShutdown, WakeShutdown
    <2> QED BY <2>1
  <1>4. ASSUME NEW h \in Handle, NotifyExit(h) PROVE NoLostExit'
    BY <1>4 DEF NotifyExit, NotifyWaiters, ExitFutures
  <1>5. ASSUME NEW c \in Caller, \/ SwapShutdown(c) \/ DropNotifier(c) \/ WaitAllExit(c)
                                 \/ Elapse(c) \/ CheckExit(c) \/ NotifiedExit(c)
                                 \/ RecheckExit(c) \/ WakeExit(c)
        PROVE  NoLostExit'
    BY <1>5 DEF SwapShutdown, DropNotifier, WaitAllExit, Elapse, CheckExit, NotifiedExit, RecheckExit,
                WakeExit
  <1>6. ASSUME NEW c \in Caller, NotifyShutdown(c) PROVE NoLostExit'
    BY <1>6 DEF NotifyShutdown, NotifyWaiters
  <1>7. CASE UNCHANGED notifierVars
    BY <1>7 DEF notifierVars
  <1> QED BY <1>1, <1>2, <1>3, <1>4, <1>5, <1>6, <1>7
          DEF NotifierNext, Clone, Subscribe, HandleStep, CallerStep

(* The inductive invariant holds in every reachable state.                   *)
LEMMA NotifierInvariance == NotifierSpec => []NotifierIInv
  <1>1. NotifierInit => NotifierIInv
    <2> SUFFICES ASSUME NotifierInit PROVE NotifierIInv
      OBVIOUS
    <2>1. Live = {First}
      BY DEF NotifierInit, Live
    <2>2. Accounting
      BY <2>1, FS_Singleton DEF Accounting, NotifierInit
    <2>3. NotifierTypeOK /\ NoLostShutdown /\ NoLostExit
      BY DEF NotifierInit, NotifierTypeOK, NoLostShutdown, NoLostExit, HandlePC, CallerPC
    <2> QED BY <2>2, <2>3 DEF NotifierIInv
  <1>2. NotifierIInv /\ [NotifierNext]_notifierVars => NotifierIInv'
    BY TypeAndCountStep, ShutdownStep, NotifierExitStep DEF NotifierIInv
  <1> QED BY <1>1, <1>2, PTL DEF NotifierSpec

(* Type correctness of the shutdown state.                                   *)
THEOREM NotifierTypeCorrect == NotifierSpec => []NotifierTypeOK
  BY NotifierInvariance, PTL DEF NotifierIInv

(* The atomic counter is exactly the number of Waiter handles alive, so it   *)
(* never underflows, whatever clones, subscriptions and drops interleave.    *)
THEOREM CountIsExact == NotifierSpec => []Accounting
  BY NotifierInvariance, PTL DEF NotifierIInv

(* Neither wait_shutdown() sleeps through the shutdown notification nor      *)
(* wait_all_exit() through the drop of the last waiter.                      *)
THEOREM WakeupNotLost == NotifierSpec => []NoLostWakeup
  BY NotifierInvariance, PTL DEF NotifierIInv, NoLostWakeup

(* wait_all_exit() answers Ok only in a state without live waiters.          *)
THEOREM OkIsTruthful == NotifierSpec => OkMeansAllExited
  <1>1. NotifierIInv /\ [NotifierNext]_notifierVars
          => [\A c \in Caller : cpc[c] # "ok" /\ cpc'[c] = "ok" => Live = {}]_notifierVars
    <2> SUFFICES ASSUME NotifierIInv, NotifierNext, NEW c \in Caller, cpc[c] # "ok", cpc'[c] = "ok"
                 PROVE  Live = {}
      OBVIOUS
    <2>1. waiters = 0
      <3> USE DEF NotifierIInv, NotifierTypeOK, CallerPC
      <3>1. CheckExit(c) \/ RecheckExit(c)
        BY DEF NotifierNext, Clone, Subscribe, FromShared, WaitShutdown, HandleStep, CheckShutdown,
               NotifiedShutdown, RecheckShutdown, WakeShutdown, NotifyExit, CancelWait, DropWaiter,
               SwapShutdown, DropNotifier, WaitAllExit, Elapse, CallerStep, NotifyShutdown,
               CheckExit, NotifiedExit, RecheckExit, WakeExit
      <3> QED BY <3>1 DEF CheckExit, NotifiedExit, RecheckExit
    <2> QED BY <2>1, LiveFinite, FS_EmptySet DEF NotifierIInv, Accounting
  <1> QED BY <1>1, NotifierInvariance, PTL DEF NotifierSpec, OkMeansAllExited

-----------------------------------------------------------------------------
(* The notifier keeps ShutdownPromise.                                       *)
LEMMA SeenValues ==
  /\ Seen("none") = "none" /\ Seen("idle") = "idle" /\ Seen("returned") = "returned"
  /\ Seen("exit") = "gone" /\ Seen("gone") = "gone"
  /\ Seen("notify") = "idle" /\ Seen("ok") = "ok" /\ Seen("elapsed") = "elapsed"
  /\ \A at \in Waiting : Seen(at) = "waiting"
  BY DEF Seen, Waiting

(* A step within one call is not seen.                                       *)
LEMMA WaiterStays ==
  ASSUME NotifierTypeOK, NEW h \in Handle, NEW at, wpc' = [wpc EXCEPT ![h] = at],
         Seen(at) = Seen(wpc[h])
  PROVE  WaiterView' = WaiterView
  BY DEF NotifierTypeOK, WaiterView

LEMMA CallerStays ==
  ASSUME NotifierTypeOK, NEW c \in Caller, NEW at, cpc' = [cpc EXCEPT ![c] = at],
         Seen(at) = Seen(cpc[c])
  PROVE  CallerView' = CallerView
  BY DEF NotifierTypeOK, CallerView

(* The handles that the promise counts are the live ones.                    *)
LEMMA ExistingIsLive ==
  ASSUME NotifierTypeOK PROVE Promise!Existing = Live
  <1>1. ASSUME NEW h \in Handle
        PROVE  Seen(wpc[h]) \in {"idle", "waiting", "returned"} <=>
                 wpc[h] \in {"idle", "check", "create", "armed", "await", "returned"}
    BY SeenValues DEF NotifierTypeOK, HandlePC, Waiting
  <1> QED BY <1>1 DEF Promise!Existing, Live, WaiterView

LEMMA HandleKeepsPromise ==
  ASSUME NotifierTypeOK, NEW h \in Handle,
         FromShared(h) \/ WaitShutdown(h) \/ HandleStep(h) \/ CancelWait(h) \/ DropWaiter(h)
  PROVE  Promise!PromiseNext \/ UNCHANGED Promise!promiseVars
  <1> USE SeenValues DEF Waiting
  <1>0. /\ UNCHANGED <<shutdown, cpc>> /\ CallerView' = CallerView
    BY DEF FromShared, WaitShutdown, HandleStep, CheckShutdown, NotifiedShutdown, RecheckShutdown,
           WakeShutdown, NotifyExit, CancelWait, DropWaiter, CallerView
  <1>1. CASE FromShared(h)
    <2>1. wpc[h] = "none" /\ wpc' = [wpc EXCEPT ![h] = "idle"]
      BY <1>1 DEF FromShared
    <2>2. WaiterView[h] = "none" /\ WaiterView' = [WaiterView EXCEPT ![h] = "idle"]
      BY <2>1 DEF NotifierTypeOK, WaiterView
    <2>3. Promise!Make(h)
      BY <1>0, <2>2 DEF Promise!Make, Promise!WaiterMoves
    <2> QED BY <2>3 DEF Promise!PromiseNext
  <1>2. CASE WaitShutdown(h)
    <2>1. wpc[h] \in {"idle", "returned"} /\ wpc' = [wpc EXCEPT ![h] = "check"]
      BY <1>2 DEF WaitShutdown
    <2>2. WaiterView[h] \in {"idle", "returned"} /\ WaiterView' = [WaiterView EXCEPT ![h] = "waiting"]
      BY <2>1 DEF NotifierTypeOK, WaiterView
    <2>3. Promise!Wait(h)
      BY <1>0, <2>2 DEF Promise!Wait, Promise!WaiterMoves
    <2> QED BY <2>3 DEF Promise!PromiseNext
  <1>3. CASE (CheckShutdown(h) \/ RecheckShutdown(h)) /\ shutdown
    <2>1. wpc[h] \in Waiting /\ wpc' = [wpc EXCEPT ![h] = "returned"]
      BY <1>3 DEF CheckShutdown, RecheckShutdown
    <2>2. WaiterView[h] = "waiting" /\ WaiterView' = [WaiterView EXCEPT ![h] = "returned"]
      BY <2>1 DEF NotifierTypeOK, WaiterView
    <2>3. Promise!Return(h)
      BY <1>0, <1>3, <2>2 DEF Promise!Return, Promise!WaiterMoves
    <2> QED BY <2>3 DEF Promise!PromiseNext
  <1>4. CASE \/ (CheckShutdown(h) \/ RecheckShutdown(h)) /\ ~shutdown
             \/ NotifiedShutdown(h) \/ WakeShutdown(h) \/ NotifyExit(h)
    <2>1. PICK at \in Waiting \cup {"gone"} :
            wpc' = [wpc EXCEPT ![h] = at] /\ Seen(at) = Seen(wpc[h])
      BY <1>4 DEF CheckShutdown, RecheckShutdown, NotifiedShutdown, WakeShutdown, NotifyExit
    <2>2. WaiterView' = WaiterView
      BY <2>1, WaiterStays
    <2> QED BY <1>0, <2>2 DEF Promise!promiseVars
  <1>5. CASE CancelWait(h)
    <2>1. wpc[h] = "await" /\ wpc' = [wpc EXCEPT ![h] = "idle"]
      BY <1>5 DEF CancelWait
    <2>2. WaiterView[h] = "waiting" /\ WaiterView' = [WaiterView EXCEPT ![h] = "idle"]
      BY <2>1 DEF NotifierTypeOK, WaiterView
    <2>3. Promise!Cancel(h)
      BY <1>0, <2>2 DEF Promise!Cancel, Promise!WaiterMoves
    <2> QED BY <2>3 DEF Promise!PromiseNext
  <1>6. CASE DropWaiter(h)
    <2>1. PICK at \in {"exit", "gone"} : wpc' = [wpc EXCEPT ![h] = at]
      BY <1>6 DEF DropWaiter
    <2>2. wpc[h] \in {"idle", "returned"}
      BY <1>6 DEF DropWaiter
    <2>3. /\ WaiterView[h] \in {"idle", "returned"}
          /\ WaiterView' = [WaiterView EXCEPT ![h] = "gone"]
      BY <2>1, <2>2 DEF NotifierTypeOK, WaiterView
    <2>4. Promise!Release(h)
      BY <1>0, <2>3 DEF Promise!Release, Promise!WaiterMoves
    <2> QED BY <2>4 DEF Promise!PromiseNext
  <1> QED BY <1>1, <1>2, <1>3, <1>4, <1>5, <1>6 DEF HandleStep

LEMMA CallerKeepsPromise ==
  ASSUME NotifierIInv, NEW c \in Caller,
         SwapShutdown(c) \/ DropNotifier(c) \/ WaitAllExit(c) \/ Elapse(c) \/ CallerStep(c)
  PROVE  Promise!PromiseNext \/ UNCHANGED Promise!promiseVars
  <1> USE SeenValues DEF Waiting
  <1>0. NotifierTypeOK /\ wpc' = wpc /\ WaiterView' = WaiterView
    BY DEF NotifierIInv, SwapShutdown, DropNotifier, WaitAllExit, Elapse, CallerStep,
           NotifyShutdown, CheckExit, NotifiedExit, RecheckExit, WakeExit, WaiterView
  <1>1. CASE SwapShutdown(c) \/ DropNotifier(c)
    <2>1. PICK at \in {"idle", "notify"} : cpc' = [cpc EXCEPT ![c] = at]
      BY <1>1 DEF SwapShutdown, DropNotifier
    <2>2. shutdown' = TRUE /\ cpc[c] \in {"idle", "ok", "elapsed"}
      BY <1>1 DEF SwapShutdown, DropNotifier
    <2>3. /\ CallerView[c] \in {"idle", "ok", "elapsed"}
          /\ CallerView' = [CallerView EXCEPT ![c] = "idle"]
      BY <1>0, <2>1, <2>2 DEF NotifierTypeOK, CallerView
    <2>4. Promise!Request(c)
      BY <1>0, <2>2, <2>3 DEF Promise!Request, Promise!CallerMoves, Promise!Ready
    <2> QED BY <2>4 DEF Promise!PromiseNext
  <1>2. CASE WaitAllExit(c)
    <2>1. /\ cpc[c] \in {"idle", "ok", "elapsed"} /\ cpc' = [cpc EXCEPT ![c] = "check"]
          /\ shutdown' = shutdown
      BY <1>2 DEF WaitAllExit
    <2>2. /\ CallerView[c] \in {"idle", "ok", "elapsed"}
          /\ CallerView' = [CallerView EXCEPT ![c] = "waiting"]
      BY <1>0, <2>1 DEF NotifierTypeOK, CallerView
    <2>3. Promise!Join(c)
      BY <1>0, <2>1, <2>2 DEF Promise!Join, Promise!CallerMoves, Promise!Ready
    <2> QED BY <2>3 DEF Promise!PromiseNext
  <1>3. CASE (CheckExit(c) \/ RecheckExit(c)) /\ waiters = 0
    <2>1. Live = {}
      BY <1>3, LiveFinite, FS_EmptySet DEF NotifierIInv, Accounting
    <2>2. Promise!Existing = {}
      BY <1>0, <2>1, ExistingIsLive
    <2>3. /\ cpc[c] \in Waiting /\ cpc' = [cpc EXCEPT ![c] = "ok"] /\ shutdown' = shutdown
      BY <1>3 DEF CheckExit, RecheckExit
    <2>4. CallerView[c] = "waiting" /\ CallerView' = [CallerView EXCEPT ![c] = "ok"]
      BY <1>0, <2>3 DEF NotifierTypeOK, CallerView
    <2>5. Promise!Joined(c)
      BY <1>0, <2>2, <2>3, <2>4 DEF Promise!Joined, Promise!CallerMoves
    <2> QED BY <2>5 DEF Promise!PromiseNext
  <1>4. CASE \/ (CheckExit(c) \/ RecheckExit(c)) /\ waiters # 0
             \/ NotifiedExit(c) \/ WakeExit(c) \/ NotifyShutdown(c)
    <2>1. waiters # 0 => waiters > 0
      BY <1>0 DEF NotifierTypeOK
    <2>2. PICK at \in Waiting \cup {"idle"} :
            cpc' = [cpc EXCEPT ![c] = at] /\ Seen(at) = Seen(cpc[c])
      BY <1>4, <2>1 DEF CheckExit, RecheckExit, NotifiedExit, WakeExit, NotifyShutdown
    <2>3. CallerView' = CallerView
      BY <1>0, <2>2, CallerStays
    <2>4. shutdown' = shutdown
      BY <1>4 DEF CheckExit, RecheckExit, NotifiedExit, WakeExit, NotifyShutdown
    <2> QED BY <1>0, <2>3, <2>4 DEF Promise!promiseVars
  <1>5. CASE Elapse(c)
    <2>1. cpc[c] = "await" /\ cpc' = [cpc EXCEPT ![c] = "elapsed"] /\ shutdown' = shutdown
      BY <1>5 DEF Elapse
    <2>2. CallerView[c] = "waiting" /\ CallerView' = [CallerView EXCEPT ![c] = "elapsed"]
      BY <1>0, <2>1 DEF NotifierTypeOK, CallerView
    <2>3. Promise!GiveUp(c)
      BY <1>0, <2>1, <2>2 DEF Promise!GiveUp, Promise!CallerMoves
    <2> QED BY <2>3 DEF Promise!PromiseNext
  <1> QED BY <1>1, <1>2, <1>3, <1>4, <1>5 DEF CallerStep

(* The notifier implements ShutdownPromise: a wait_shutdown() that returns   *)
(* does so after the shutdown, a wait_all_exit() that returns Ok does so     *)
(* when no handle exists, although each of them reads the state, suspends    *)
(* and reads again while handles come and go (shutdown.rs:105-187).          *)
THEOREM PromiseIsKept == NotifierSpec => PromiseKept
  <1>1. NotifierInit => Promise!PromiseInit
    BY SeenValues DEF NotifierInit, Promise!PromiseInit, WaiterView, CallerView
  <1>2. NotifierIInv /\ [NotifierNext]_notifierVars => [Promise!PromiseNext]_(Promise!promiseVars)
    <2> SUFFICES ASSUME NotifierIInv, [NotifierNext]_notifierVars
                 PROVE  Promise!PromiseNext \/ UNCHANGED Promise!promiseVars
      OBVIOUS
    <2>0. NotifierTypeOK
      BY DEF NotifierIInv
    <2>1. CASE UNCHANGED notifierVars
      BY <2>1 DEF notifierVars, Promise!promiseVars, WaiterView, CallerView
    <2>2. ASSUME NEW h \in Handle,
                 FromShared(h) \/ WaitShutdown(h) \/ HandleStep(h) \/ CancelWait(h) \/ DropWaiter(h)
          PROVE  Promise!PromiseNext \/ UNCHANGED Promise!promiseVars
      BY <2>0, <2>2, HandleKeepsPromise
    <2>3. ASSUME NEW c \in Caller, \/ SwapShutdown(c) \/ DropNotifier(c) \/ WaitAllExit(c)
                                   \/ Elapse(c) \/ CallerStep(c)
          PROVE  Promise!PromiseNext \/ UNCHANGED Promise!promiseVars
      BY <2>3, CallerKeepsPromise
    <2> QED BY <2>1, <2>2, <2>3 DEF NotifierNext, Clone, Subscribe
  <1> QED BY <1>1, <1>2, NotifierInvariance, PTL DEF NotifierSpec, PromiseKept, Promise!PromiseSpec
=============================================================================
