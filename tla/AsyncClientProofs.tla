-------------------------- MODULE AsyncClientProofs --------------------------
(***************************************************************************)
(* Proofs about the asynchronous client, for any sets of calls, streams    *)
(* and sends, any workload and any capacity of the outbound channel. The   *)
(* order of sealed frames, acknowledgements and torn frames are proved     *)
(* without further assumptions (IInv). What rests on the routing by stream *)
(* id is proved for connections on which ids do not repeat (NoWrap, IInv2):*)
(* the code's counter wraps after 2^31 calls without looking whether an id *)
(* is still in use.                                                        *)
(***************************************************************************)
EXTENDS AsyncClient, FiniteSetTheorems, TLAPS

(* The counter steps by two: fewer calls than half the ids.                  *)
NoWrap == 2 * Cardinality(Call) < IdSpace

-----------------------------------------------------------------------------
(* Tasks whose frame may have been handed to the channel: past the permit,   *)
(* and a unary call that has returned since knows how.                       *)
Handed ==
  {t \in Task :
     /\ pc[t] \in {"ack", "wait", "open", "done"}
     /\ t \in Unary /\ pc[t] = "done" => result[t] # "none"
     /\ t \in Call => id[t] # 0}

(* Tasks under way have no outcome yet and, if calls, a stream id; the       *)
(* frames between the permit and the peer.                                   *)
Tasks ==
  /\ \A t \in Task : pc[t] # "done" => result[t] = "none"
  /\ \A c \in Call : pc[c] \notin {"init", "done"} => id[c] # 0
  /\ \A k \in 1..Len(chan) : chan[k] \in Handed
  /\ wmsg # NoCall => wmsg \in Handed
  /\ \A k \in 1..Len(wire) : wire[k] \in Handed

(* The writer: a frame in hand while it writes, nothing queued and nothing   *)
(* torn without its end, which disconnect() waits for.                       *)
Writer ==
  /\ wstate = "write" <=> wmsg # NoCall
  /\ Ended => chan = <<>>
  /\ torn => Ended
  /\ run \in {"disconnect", "end"} => Ended

OnWire(t) == \E k \in 1..Len(wire) : wire[k] = t
Acks == \A s \in Send : ack[s] = "ok" \/ result[s] = "sent" => OnWire(s)

(* Wire, the writer's hands and the channel hold the sealed frames in the    *)
(* order of their nonces, without a gap.                                     *)
Taken == Len(wire) + (IF wstate = "write" THEN 1 ELSE 0)
Nonces ==
  Transform =>
    /\ \A k \in 1..Len(wire) : nonce[wire[k]] = k
    /\ ~Ended =>
         /\ wstate = "write" => nonce[wmsg] = Taken
         /\ \A k \in 1..Len(chan) : nonce[chan[k]] = Taken + k
         /\ next_nonce = Taken + Len(chan) + 1

IInv == TypeOK /\ Tasks /\ Writer /\ Acks /\ Nonces

-----------------------------------------------------------------------------
(* Stream ids are given out once.                                            *)
Began == {c \in Call : id[c] # 0}
Ids ==
  /\ next_stream_id = 2 * Cardinality(Began) + 1
  /\ \A c \in Call : id[c] < next_stream_id
  /\ \A c, d \in Call : id[c] = id[d] /\ id[c] # 0 => c = d
  /\ \A c \in Call : pc[c] = "init" => id[c] = 0

(* An entry belongs to a call that can still receive, and that has no answer *)
(* yet if it is a unary one; a call on its way is registered unless it has   *)
(* an item to read; nothing arrives before registration and only streams are *)
(* open; and an item other than an error is the peer's answer to this call.  *)
Entries ==
  \A i \in Id : streams[i] # NoCall =>
    /\ id[streams[i]] = i
    /\ pc[streams[i]] \in {"reserve", "permit", "wait", "open"}
    /\ streams[i] \in Unary => mailbox[streams[i]] = <<>>
Awaited ==
  \A c \in Call : pc[c] \in {"reserve", "permit", "wait"} =>
    streams[id[c]] = c \/ mailbox[c] # <<>>
Phases ==
  \A c \in Call :
    /\ pc[c] \in {"init", "register"} => mailbox[c] = <<>>
    /\ pc[c] = "open" => c \notin Unary
Answers ==
  \A c \in Unary : \A k \in 1..Len(mailbox[c]) :
    mailbox[c][k].kind # "err" => peerDone[c] /\ mailbox[c][k].call = c
Registry == Entries /\ Awaited /\ Phases /\ Answers

(* After disconnect() only a call that starts on the dead connection is      *)
(* registered, and it gets no permit.                                        *)
TornDown ==
  (run = "end" /\ wstate # "ok") =>
    /\ \A i \in Id : streams[i] # NoCall => pc[streams[i]] = "reserve"
    /\ \A c \in Call : pc[c] \in {"permit", "wait"} => mailbox[c] # <<>>

IInv2 == IInv /\ Ids /\ Registry /\ TornDown

-----------------------------------------------------------------------------
(* The counter stays odd and in range, also when it wraps.                   *)
LEMMA NextId ==
  ASSUME NEW n \in Id PROVE (n + 2) % IdSpace \in Id /\ n # 0
  <1> USE BoundAssumption DEF Id
  <1>1. n + 2 < IdSpace \/ n + 2 = IdSpace + 1
    OBVIOUS
  <1>2. CASE n + 2 < IdSpace
    <2>1. (n + 2) % IdSpace = n + 2
      BY <1>2
    <2> QED BY <1>2, <2>1
  <1>3. CASE n + 2 = IdSpace + 1
    <2>1. (IdSpace + 1) % IdSpace = 1
      <3>1. IdSpace \in Nat /\ IdSpace > 1
        OBVIOUS
      <3>2. IdSpace + 1 = IdSpace * 1 + 1
        OBVIOUS
      <3> QED BY <3>1, <3>2
    <2> QED BY <1>3, <2>1
  <1> QED BY <1>1, <1>2, <1>3

(* The elements of an extended sequence.                                     *)
LEMMA AppendElems ==
  ASSUME NEW S, NEW s \in Seq(S), NEW e \in S
  PROVE  /\ Append(s, e) \in Seq(S) /\ Len(Append(s, e)) = Len(s) + 1
         /\ \A k \in 1..Len(s) : k \in 1..(Len(s) + 1) /\ Append(s, e)[k] = s[k]
         /\ Len(s) + 1 \in 1..(Len(s) + 1) /\ Append(s, e)[Len(s) + 1] = e
         /\ \A k \in 1..(Len(s) + 1) : k \in 1..Len(s) \/ k = Len(s) + 1
  <1>1. Append(s, e) \in Seq(S) /\ Len(Append(s, e)) = Len(s) + 1 /\ Len(s) \in Nat
    OBVIOUS
  <1>2. \A k \in 1..Len(s) : k \in 1..(Len(s) + 1) /\ Append(s, e)[k] = s[k]
    BY <1>1
  <1>3. Append(s, e)[Len(s) + 1] = e
    BY <1>1
  <1> QED BY <1>1, <1>2, <1>3

-----------------------------------------------------------------------------
(* Types.                                                                    *)
LEMMA ReturnType ==
  ASSUME TypeOK, NEW t \in Task, NEW r \in Result, Return(t, r)
  PROVE  pc' \in [Task -> PC] /\ result' \in [Task -> Result]
  BY DEF TypeOK, Return, PC

LEMMA AbandonType ==
  ASSUME TypeOK, NEW t \in Task, NEW r \in Result, Abandon(t, r)
  PROVE  /\ pc' \in [Task -> PC] /\ result' \in [Task -> Result]
         /\ streams' \in [Id -> Call \cup {NoCall}]
  <1>1. pc' \in [Task -> PC] /\ result' \in [Task -> Result]
    BY ReturnType DEF Abandon
  <1> QED BY <1>1 DEF TypeOK, Abandon, Unregister

LEMMA WriterEndsType ==
  ASSUME TypeOK, NEW w \in {"ok", "err", "aborted"}, WriterEnds(w)
  PROVE  /\ wstate' \in {"recv", "write", "ok", "err", "aborted"}
         /\ wmsg' \in Task \cup {NoCall} /\ chan' \in Seq(Task)
         /\ ack' \in [Send -> {"none", "ok", "err"}]
  BY DEF TypeOK, WriterEnds

LEMMA TypeStep ==
  ASSUME IInv, Next PROVE TypeOK'
  <1> USE TaskAssumption DEF clientVars, streamVars, chanVars, writerVars, peerVars
  <1>0. TypeOK /\ Tasks /\ Writer
    BY DEF IInv
  <1>1. ASSUME NEW c \in Call, Begin(c) PROVE TypeOK'
    <2>1. c \in Task /\ next_stream_id' \in Id /\ id' \in [Call -> Id \cup {0}]
      BY <1>0, <1>1, NextId DEF TypeOK, Begin, Task
    <2>2. pc' \in [Task -> PC] /\ result' \in [Task -> Result]
      <3>1. CASE pc' = [pc EXCEPT ![c] = "register"] /\ UNCHANGED result
        BY <1>0, <2>1, <3>1 DEF TypeOK, PC
      <3>2. CASE Return(c, "rejected")
        BY <1>0, <2>1, <3>2, ReturnType DEF Result
      <3> QED BY <1>1, <3>1, <3>2 DEF Begin
    <2> QED BY <1>0, <1>1, <2>1, <2>2 DEF TypeOK, Begin
  <1>2. ASSUME NEW s \in Send, StartSend(s) PROVE TypeOK'
    <2>1. s \in Task
      BY DEF Task
    <2>2. pc' \in [Task -> PC] /\ result' \in [Task -> Result]
      <3>1. CASE pc' = [pc EXCEPT ![s] = "reserve"] /\ UNCHANGED result
        BY <1>0, <2>1, <3>1 DEF TypeOK, PC
      <3>2. CASE Return(s, "local_closed")
        BY <1>0, <2>1, <3>2, ReturnType DEF Result
      <3> QED BY <1>2, <3>1, <3>2 DEF StartSend
    <2> QED BY <1>0, <1>2, <2>2 DEF TypeOK, StartSend
  <1>3. ASSUME NEW c \in Call, Register(c) PROVE TypeOK'
    <2>1. c \in Task
      BY DEF Task
    <2>2. pc' \in [Task -> PC] /\ streams' \in [Id -> Call \cup {NoCall}]
      BY <1>0, <1>3, <2>1 DEF TypeOK, PC, Register
    <2> QED BY <1>0, <1>3, <2>2 DEF TypeOK, Register
  <1>4. ASSUME NEW t \in Task, NEW r \in Result, Abandon(t, r),
               UNCHANGED <<id, next_stream_id, mailbox, streamVars, client, expired, chanVars,
                           ack, writerVars, run, peerVars>>
        PROVE  TypeOK'
    <2>1. /\ pc' \in [Task -> PC] /\ result' \in [Task -> Result]
          /\ streams' \in [Id -> Call \cup {NoCall}]
      BY <1>0, <1>4, AbandonType
    <2> QED BY <1>0, <1>4, <2>1 DEF TypeOK
  <1>5. ASSUME NEW t \in Task, Reserve(t) PROVE TypeOK'
    <2>1. CASE Abandon(t, "closed")
      BY <1>4, <1>5, <2>1 DEF Reserve, Result
    <2>2. CASE pc' = [pc EXCEPT ![t] = "permit"] /\ UNCHANGED <<result, streams>>
      <3>1. pc' \in [Task -> PC]
        BY <1>0, <2>2 DEF TypeOK, PC
      <3> QED BY <1>0, <1>5, <2>2, <3>1 DEF TypeOK, Reserve
    <2> QED BY <1>5, <2>1, <2>2 DEF Reserve
  <1>6. ASSUME NEW t \in Task, Enqueue(t) PROVE TypeOK'
    <2>1. pc' \in [Task -> PC]
      <3>1. PICK q \in {"wait", "open", "ack"} : pc' = [pc EXCEPT ![t] = q]
        BY <1>6 DEF Enqueue, Task, Call
      <3> QED BY <1>0, <3>1 DEF TypeOK, PC
    <2>2. nonce' \in [Task -> Nat] /\ next_nonce' \in Nat
      <3>1. nonce' \in {nonce, [nonce EXCEPT ![t] = next_nonce]}
            /\ next_nonce' \in {next_nonce, next_nonce + 1}
        BY <1>6 DEF Enqueue
      <3>2. nonce \in [Task -> Nat] /\ next_nonce \in Nat
        BY <1>0 DEF TypeOK
      <3>3. nonce' \in [Task -> Nat]
        BY <3>1, <3>2
      <3>4. next_nonce' \in Nat
        BY <3>1, <3>2
      <3> QED BY <3>3, <3>4
    <2>3. chan' \in Seq(Task) /\ stuck' \subseteq Task
      <3>1. chan \in Seq(Task) /\ stuck \subseteq Task
        BY <1>0 DEF TypeOK
      <3>2. chan' \in {chan, Append(chan, t)} /\ stuck' \in {stuck, stuck \cup {t}}
        BY <1>6 DEF Enqueue
      <3>3. Append(chan, t) \in Seq(Task)
        BY <3>1
      <3> QED BY <3>1, <3>2, <3>3
    <2>4. sender' \in [Open -> BOOLEAN]
      BY <1>6 DEF Enqueue
    <2> QED BY <1>0, <1>6, <2>1, <2>2, <2>3, <2>4 DEF TypeOK, Enqueue
  <1>7. ASSUME NEW t \in Task, Timeout(t) \/ RecvNone(t) \/ TransformFails(t) \/ Cancel(t)
        PROVE  TypeOK'
    <2>1. PICK r \in Result : Abandon(t, r)
      BY <1>7 DEF Timeout, RecvNone, TransformFails, Cancel, Result
    <2> QED BY <1>4, <1>7, <2>1 DEF Timeout, RecvNone, TransformFails, Cancel
  <1>8. ASSUME NEW s \in Send, RecvAck(s) PROVE TypeOK'
    <2>1. s \in Task /\ StreamOf[s] \in Open
      BY DEF Task
    <2>2. PICK r \in Result : Return(s, r)
      BY <1>8 DEF RecvAck, Result
    <2>3. pc' \in [Task -> PC] /\ result' \in [Task -> Result]
      BY <1>0, <2>1, <2>2, ReturnType
    <2>4. sclosed' \in [Open -> BOOLEAN]
      BY <1>0, <1>8, <2>1 DEF TypeOK, RecvAck
    <2> QED BY <1>0, <1>8, <2>3, <2>4 DEF TypeOK, RecvAck
  <1>9. ASSUME NEW c \in Task, RecvResult(c) PROVE TypeOK'
    <2>1. PICK r \in Result : Return(c, r)
      BY <1>9 DEF RecvResult, Result
    <2>2. pc' \in [Task -> PC] /\ result' \in [Task -> Result]
      BY <1>0, <2>1, ReturnType
    <2>3. mailbox' \in [Call -> Seq(Item)]
      BY <1>0, <1>9 DEF TypeOK, RecvResult, Call
    <2> QED BY <1>0, <1>9, <2>2, <2>3 DEF TypeOK, RecvResult
  <1>10. ASSUME NEW c \in Task, Expire(c) PROVE TypeOK'
    BY <1>0, <1>10 DEF TypeOK, Expire
  <1>11. ASSUME NEW c \in Open, StreamRecv(c) PROVE TypeOK'
    <2>1. mailbox' \in [Call -> Seq(Item)]
      BY <1>0, <1>11 DEF TypeOK, StreamRecv, Call
    <2>2. rclosed' \in [Open -> BOOLEAN]
      BY <1>0, <1>11 DEF TypeOK, StreamRecv
    <2> QED BY <1>0, <1>11, <2>1, <2>2 DEF TypeOK, StreamRecv
  <1>12. ASSUME NEW c \in Open, DropReceiver(c) PROVE TypeOK'
    <2>1. pc' \in [Task -> PC]
      BY <1>0, <1>12 DEF TypeOK, DropReceiver, PC, Task, Call
    <2>2. streams' \in [Id -> Call \cup {NoCall}]
      BY <1>0, <1>12 DEF TypeOK, DropReceiver, Unregister
    <2> QED BY <1>0, <1>12, <2>1, <2>2 DEF TypeOK, DropReceiver
  <1>13. ASSUME NEW c \in Open, DropSender(c) PROVE TypeOK'
    BY <1>0, <1>13 DEF TypeOK, DropSender
  <1>14. CASE DropClient
    BY <1>0, <1>14 DEF TypeOK, DropClient
  <1>15. CASE WriterRecv
    <2>1. Head(chan) \in Task /\ Tail(chan) \in Seq(Task)
      BY <1>0, <1>15 DEF TypeOK, WriterRecv
    <2>2. /\ wstate' \in {"recv", "write", "ok", "err", "aborted"}
          /\ wmsg' \in Task \cup {NoCall} /\ chan' \in Seq(Task)
      BY <1>0, <1>15, <2>1 DEF TypeOK, WriterRecv
    <2> QED BY <1>0, <1>15, <2>2 DEF TypeOK, WriterRecv
  <1>16. CASE WriterNone
    <2>1. /\ wstate' \in {"recv", "write", "ok", "err", "aborted"}
          /\ wmsg' \in Task \cup {NoCall} /\ chan' \in Seq(Task)
          /\ ack' \in [Send -> {"none", "ok", "err"}]
      BY <1>0, <1>16, WriterEndsType DEF WriterNone
    <2> QED BY <1>0, <1>16, <2>1 DEF TypeOK, WriterNone
  <1>17. CASE WriteOk
    <2>1. wire' \in Seq(Task)
      BY <1>0, <1>17 DEF TypeOK, WriteOk, Writer
    <2>2. ack' \in [Send -> {"none", "ok", "err"}]
      BY <1>0, <1>17 DEF TypeOK, WriteOk
    <2> QED BY <1>0, <1>17, <2>1, <2>2 DEF TypeOK, WriteOk
  <1>18. CASE WriteFails
    <2>1. /\ wstate' \in {"recv", "write", "ok", "err", "aborted"}
          /\ wmsg' \in Task \cup {NoCall} /\ chan' \in Seq(Task)
          /\ ack' \in [Send -> {"none", "ok", "err"}]
      BY <1>0, <1>18, WriterEndsType DEF WriteFails
    <2> QED BY <1>0, <1>18, <2>1 DEF TypeOK, WriteFails
  <1>19. CASE SelectWriter \/ SelectRead \/ ReadError
    BY <1>0, <1>19 DEF TypeOK, SelectWriter, SelectRead, ReadError
  <1>20. CASE AwaitWriter
    <2>1. CASE Ended
      BY <1>0, <1>20, <2>1 DEF TypeOK, AwaitWriter
    <2>2. CASE ~Ended
      <3>1. /\ wstate' \in {"recv", "write", "ok", "err", "aborted"}
            /\ wmsg' \in Task \cup {NoCall} /\ chan' \in Seq(Task)
            /\ ack' \in [Send -> {"none", "ok", "err"}]
        BY <1>0, <1>20, <2>2, WriterEndsType DEF AwaitWriter
      <3>2. torn' \in BOOLEAN /\ wire' = wire
        BY <1>0, <1>20, <2>2 DEF TypeOK, AwaitWriter
      <3> QED BY <1>0, <1>20, <3>1, <3>2 DEF TypeOK, AwaitWriter
    <2> QED BY <2>1, <2>2
  <1>21. CASE Disconnect
    <2>1. \A c \in Call : [kind |-> "err", call |-> c] \in Item
      BY DEF Item
    <2>2. mailbox' \in [Call -> Seq(Item)]
      BY <1>0, <1>21, <2>1 DEF TypeOK, Disconnect
    <2>3. streams' \in [Id -> Call \cup {NoCall}]
      BY <1>21 DEF Disconnect
    <2> QED BY <1>0, <1>21, <2>2, <2>3 DEF TypeOK, Disconnect
  <1>22. ASSUME NEW c \in Call, NEW kind \in {"response", "data", "last", "bad"},
                HandleMsg(c, kind)
         PROVE  TypeOK'
    <2> DEFINE item == [kind |-> IF kind = "bad" THEN "err" ELSE kind, call |-> c]
    <2>1. item \in Item
      BY DEF Item
    <2>2. Route(id[c], item)
      BY <1>22 DEF HandleMsg
    <2> HIDE DEF item
    <2>3. mailbox' \in [Call -> Seq(Item)] /\ streams' \in [Id -> Call \cup {NoCall}]
      <3>1. id[c] \in Id
        BY <1>0, <1>22 DEF HandleMsg, PeerSends, Tasks, Handed, TypeOK
      <3>2. streams[id[c]] \in Call \cup {NoCall}
        BY <1>0, <3>1 DEF TypeOK
      <3>3. CASE streams[id[c]] = NoCall
        BY <1>0, <2>2, <3>3 DEF TypeOK, Route
      <3>4. CASE streams[id[c]] \in Call
        <4>1. Append(mailbox[streams[id[c]]], item) \in Seq(Item)
          BY <1>0, <2>1, <3>4 DEF TypeOK
        <4>2. streams[id[c]] # NoCall
          BY <3>4 DEF Task
        <4>3. mailbox' \in {mailbox,
                [mailbox EXCEPT ![streams[id[c]]] = Append(mailbox[streams[id[c]]], item)]}
          BY <2>2, <4>2 DEF Route
        <4>4. streams' \in {streams, [streams EXCEPT ![id[c]] = NoCall]}
          BY <2>2, <4>2 DEF Route
        <4>5. mailbox \in [Call -> Seq(Item)] /\ streams \in [Id -> Call \cup {NoCall}]
          BY <1>0 DEF TypeOK
        <4>6. mailbox' \in [Call -> Seq(Item)]
          BY <4>1, <4>3, <4>5
        <4>7. streams' \in [Id -> Call \cup {NoCall}]
          BY <4>4, <4>5
        <4> QED BY <4>6, <4>7
      <3> QED BY <3>2, <3>3, <3>4
    <2>4. replied' \in [Call -> 0..MaxData] /\ peerDone' \in [Call -> BOOLEAN]
      BY <1>0, <1>22, BoundAssumption DEF TypeOK, HandleMsg, PeerSends
    <2> QED BY <1>0, <1>22, <2>3, <2>4 DEF TypeOK, HandleMsg
  <1> QED
    BY <1>1, <1>2, <1>3, <1>5, <1>6, <1>7, <1>8, <1>9, <1>10, <1>11, <1>12, <1>13, <1>14,
       <1>15, <1>16, <1>17, <1>18, <1>19, <1>20, <1>21, <1>22
    DEF Next, TaskStep, ConnStep, WriteInterrupted

-----------------------------------------------------------------------------
(* What the steps of the callers leave alone: only a push into the channel,  *)
(* the writer and the connection task touch the outbound path.               *)
LEMMA Outbound ==
  ASSUME Next
  PROVE  \/ UNCHANGED <<chanVars, ack, writerVars, run, peerVars>>
         \/ \E t \in Task : Enqueue(t)
         \/ WriterRecv \/ WriterNone \/ WriteOk \/ WriteFails
         \/ SelectWriter \/ SelectRead \/ AwaitWriter \/ Disconnect \/ ReadError
         \/ \E c \in Call, kind \in {"response", "data", "last", "bad"} : HandleMsg(c, kind)
  <1> DEFINE Quiet == UNCHANGED <<chanVars, ack, writerVars, run, peerVars>>
  <1>1. ASSUME NEW c \in Call, Begin(c) PROVE Quiet
    BY <1>1 DEF Begin
  <1>2. ASSUME NEW s \in Send, StartSend(s) PROVE Quiet
    BY <1>2 DEF StartSend
  <1>3. ASSUME NEW t \in Task, TaskStep(t) PROVE Quiet \/ Enqueue(t)
    BY <1>3 DEF TaskStep, Register, Reserve, Timeout, RecvAck, RecvResult, RecvNone
  <1>4. ASSUME NEW t \in Task, TransformFails(t) \/ Cancel(t) \/ Expire(t) PROVE Quiet
    BY <1>4 DEF TransformFails, Cancel, Expire
  <1>5. ASSUME NEW c \in Open, StreamRecv(c) \/ DropReceiver(c) \/ DropSender(c) PROVE Quiet
    BY <1>5 DEF StreamRecv, DropReceiver, DropSender
  <1>6. DropClient => Quiet
    BY DEF DropClient
  <1> HIDE DEF Quiet
  <1> QED BY <1>1, <1>2, <1>3, <1>4, <1>5, <1>6 DEF Next, ConnStep, WriteInterrupted, Quiet

-----------------------------------------------------------------------------
(* The writer.                                                               *)
LEMMA WriterStep ==
  ASSUME IInv, Next PROVE Writer'
  <1> USE TaskAssumption DEF chanVars, writerVars, peerVars, Ended
  <1>0. TypeOK /\ Writer
    BY DEF IInv
  <1>1. CASE UNCHANGED <<chanVars, ack, writerVars, run, peerVars>>
    BY <1>0, <1>1 DEF Writer
  <1>2. ASSUME NEW t \in Task, Enqueue(t) PROVE Writer'
    BY <1>0, <1>2 DEF Writer, Enqueue
  <1>3. CASE WriterRecv
    <2>1. Head(chan) \in Task /\ Head(chan) # NoCall
      BY <1>0, <1>3 DEF TypeOK, WriterRecv
    <2> QED BY <1>0, <1>3, <2>1 DEF Writer, WriterRecv
  <1>4. CASE WriterNone \/ WriteFails
    BY <1>0, <1>4 DEF Writer, WriterNone, WriteFails, WriterEnds
  <1>5. CASE WriteOk
    BY <1>0, <1>5 DEF Writer, WriteOk
  <1>6. CASE SelectWriter \/ SelectRead \/ Disconnect \/ ReadError
    BY <1>0, <1>6 DEF Writer, SelectWriter, SelectRead, Disconnect, ReadError
  <1>7. CASE AwaitWriter
    BY <1>0, <1>7 DEF Writer, AwaitWriter, WriterEnds
  <1>8. ASSUME NEW c \in Call, NEW kind \in {"response", "data", "last", "bad"},
               HandleMsg(c, kind)
        PROVE  Writer'
    BY <1>0, <1>8 DEF Writer, HandleMsg
  <1> QED BY Outbound, <1>1, <1>2, <1>3, <1>4, <1>5, <1>6, <1>7, <1>8
-----------------------------------------------------------------------------
(* Control points, outcomes and the frames handed over.                      *)
LEMMA HandedKept ==
  ASSUME TypeOK, Tasks,
         \A t \in Task : pc'[t] # "done" => result'[t] = "none",
         \A c \in Call : pc'[c] \notin {"init", "done"} => id'[c] # 0,
         Handed \subseteq Handed',
         UNCHANGED <<chan, wmsg, wire>>
  PROVE  Tasks'
  <1>1. \A k \in 1..Len(chan) : chan[k] \in Task /\ chan[k] \in Handed
    BY DEF TypeOK, Tasks
  <1>2. \A k \in 1..Len(wire) : wire[k] \in Task /\ wire[k] \in Handed
    BY DEF TypeOK, Tasks
  <1>3. wmsg # NoCall => wmsg \in Task /\ wmsg \in Handed
    BY DEF TypeOK, Tasks
  <1>4. \A k \in 1..Len(chan') : chan'[k] \in Handed'
    BY <1>1
  <1>5. \A k \in 1..Len(wire') : wire'[k] \in Handed'
    BY <1>2
  <1>6. wmsg' # NoCall => wmsg' \in Handed'
    BY <1>3
  <1> QED BY <1>4, <1>5, <1>6 DEF Tasks

LEMMA ReturnTasks ==
  ASSUME TypeOK, Tasks, NEW t \in Task, NEW r \in Result \ {"none"}, Return(t, r),
         UNCHANGED <<id, chan, wmsg, wire>>
  PROVE  Tasks'
  <1>1. \A u \in Task : pc'[u] = IF u = t THEN "done" ELSE pc[u]
    BY DEF TypeOK, Return
  <1>2. \A u \in Task : result'[u] = IF u = t THEN r ELSE result[u]
    BY DEF TypeOK, Return
  <1>3. \A u \in Task : pc'[u] # "done" => result'[u] = "none"
    BY <1>1, <1>2 DEF Tasks
  <1>4. \A c \in Call : pc'[c] \notin {"init", "done"} => id'[c] # 0
    BY <1>1 DEF Tasks, Task
  <1>5. Handed \subseteq Handed'
    BY <1>1, <1>2 DEF Handed
  <1> QED BY <1>3, <1>4, <1>5, HandedKept

(* A task moves to its next control point.                                   *)
LEMMA MoveTasks ==
  ASSUME TypeOK, Tasks, NEW t \in Task, NEW q \in PC \ {"init", "done"},
         pc[t] \in {"init", "register", "reserve", "permit"}, pc' = [pc EXCEPT ![t] = q],
         UNCHANGED result,
         \A c \in Call : id'[c] = id[c] \/ c = t, t \in Call => id'[t] # 0,
         UNCHANGED <<chan, wmsg, wire>>
  PROVE  Tasks'
  <1>1. \A u \in Task : pc'[u] = IF u = t THEN q ELSE pc[u]
    BY DEF TypeOK
  <1>2. \A u \in Task : pc'[u] # "done" => result'[u] = "none"
    BY <1>1 DEF Tasks
  <1>3. \A c \in Call : pc'[c] \notin {"init", "done"} => id'[c] # 0
    BY <1>1 DEF Tasks, Task
  <1>4. Handed \subseteq Handed'
    BY <1>1 DEF Handed
  <1> QED BY <1>2, <1>3, <1>4, HandedKept

LEMMA TasksStep ==
  ASSUME IInv, Next PROVE Tasks'
  <1> USE TaskAssumption DEF clientVars, streamVars, chanVars, writerVars, peerVars
  <1>0. TypeOK /\ Tasks /\ Writer
    BY DEF IInv
  <1>1. ASSUME NEW c \in Call, Begin(c) PROVE Tasks'
    <2>1. c \in Task
      BY DEF Task
    <2>2. \A d \in Call : id'[d] = IF d = c THEN next_stream_id ELSE id[d]
      BY <1>0, <1>1 DEF TypeOK, Begin
    <2>3. next_stream_id # 0
      BY <1>0 DEF TypeOK, Id
    <2>4. CASE pc' = [pc EXCEPT ![c] = "register"] /\ UNCHANGED result
      <3>1. pc[c] = "init" /\ UNCHANGED <<chan, wmsg, wire>>
        BY <1>1 DEF Begin
      <3>2. \A d \in Call : id'[d] = id[d] \/ d = c
        BY <2>2
      <3>3. id'[c] # 0
        BY <2>2, <2>3
      <3>4. "register" \in PC \ {"init", "done"}
        BY DEF PC
      <3> QED BY <1>0, <2>1, <2>4, <3>1, <3>2, <3>3, <3>4, MoveTasks
    <2>5. CASE Return(c, "rejected")
      <3>1. \A u \in Task : pc'[u] = IF u = c THEN "done" ELSE pc[u]
        BY <1>0, <2>5 DEF TypeOK, Return
      <3>2. \A u \in Task : result'[u] = IF u = c THEN "rejected" ELSE result[u]
        BY <1>0, <2>5 DEF TypeOK, Return
      <3>3. \A u \in Task : pc'[u] # "done" => result'[u] = "none"
        BY <1>0, <3>1, <3>2 DEF Tasks
      <3>4. \A d \in Call : pc'[d] \notin {"init", "done"} => id'[d] # 0
        BY <1>0, <3>1, <2>2, <2>3 DEF Tasks, Task
      <3>5. Handed \subseteq Handed'
        BY <2>2, <2>3, <3>1, <3>2 DEF Handed
      <3>6. UNCHANGED <<chan, wmsg, wire>>
        BY <1>1 DEF Begin
      <3> QED BY <1>0, <3>3, <3>4, <3>5, <3>6, HandedKept
    <2> QED BY <1>1, <2>4, <2>5 DEF Begin
  <1>2. ASSUME NEW s \in Send, StartSend(s) PROVE Tasks'
    <2>1. s \in Task /\ s \notin Call /\ UNCHANGED <<id, chan, wmsg, wire>>
      BY <1>2 DEF Task, StartSend
    <2>2. CASE sclosed[StreamOf[s]]
      BY <1>0, <1>2, <2>1, <2>2, ReturnTasks DEF StartSend, Result
    <2>3. CASE ~sclosed[StreamOf[s]]
      BY <1>0, <1>2, <2>1, <2>3, MoveTasks DEF StartSend, PC
    <2> QED BY <2>2, <2>3
  <1>3. ASSUME NEW c \in Call, Register(c) PROVE Tasks'
    BY <1>0, <1>3, MoveTasks DEF Register, PC, Tasks, Task
  <1>4. ASSUME NEW t \in Task, Reserve(t) PROVE Tasks'
    <2>1. UNCHANGED <<id, chan, wmsg, wire>> /\ pc[t] = "reserve"
      BY <1>4 DEF Reserve
    <2>2. CASE Abandon(t, "closed")
      BY <1>0, <2>1, <2>2, ReturnTasks DEF Abandon, Result
    <2>3. CASE pc' = [pc EXCEPT ![t] = "permit"] /\ UNCHANGED <<result, streams>>
      <3>1. t \in Call => id'[t] # 0
        BY <1>0, <2>1 DEF Tasks
      <3> QED BY <1>0, <2>1, <2>3, <3>1, MoveTasks DEF PC
    <2> QED BY <1>4, <2>2, <2>3 DEF Reserve
  <1>5. ASSUME NEW t \in Task, Enqueue(t) PROVE Tasks'
    <2>1. PICK q \in {"wait", "open", "ack"} : pc' = [pc EXCEPT ![t] = q]
      BY <1>5 DEF Enqueue, Task, Call
    <2>2. pc[t] = "permit" /\ result' = result /\ id' = id /\ wmsg' = wmsg /\ wire' = wire
      BY <1>5 DEF Enqueue
    <2>3. \A u \in Task : pc'[u] = IF u = t THEN q ELSE pc[u]
      BY <1>0, <2>1 DEF TypeOK
    <2>4. Handed \subseteq Handed'
      BY <2>2, <2>3 DEF Handed
    <2>5. t \in Handed'
      BY <1>0, <2>2, <2>3 DEF Handed, Tasks
    <2>6. \A k \in 1..Len(chan') : chan'[k] \in Handed'
      <3>1. chan \in Seq(Task) /\ \A k \in 1..Len(chan) : chan[k] \in Task /\ chan[k] \in Handed
        BY <1>0 DEF TypeOK, Tasks
      <3>2. chan' = chan \/ chan' = Append(chan, t)
        BY <1>5 DEF Enqueue
      <3>3. \A k \in 1..Len(chan') : chan'[k] = t \/ (k \in 1..Len(chan) /\ chan'[k] = chan[k])
        BY <3>1, <3>2, AppendElems
      <3> QED BY <2>4, <2>5, <3>1, <3>3
    <2>7. (wmsg # NoCall => wmsg \in Handed') /\ \A k \in 1..Len(wire) : wire[k] \in Handed'
      <3>1. \A k \in 1..Len(wire) : wire[k] \in Task /\ wire[k] \in Handed
        BY <1>0 DEF TypeOK, Tasks
      <3>2. wmsg # NoCall => wmsg \in Task /\ wmsg \in Handed
        BY <1>0 DEF TypeOK, Tasks
      <3> QED BY <2>4, <3>1, <3>2
    <2>8. \A u \in Task : pc'[u] # "done" => result'[u] = "none"
      BY <1>0, <2>2, <2>3 DEF Tasks
    <2>9. \A c \in Call : pc'[c] \notin {"init", "done"} => id'[c] # 0
      BY <1>0, <2>2, <2>3 DEF Tasks, Task
    <2> QED BY <2>2, <2>6, <2>7, <2>8, <2>9 DEF Tasks
  <1>6. ASSUME NEW t \in Task, Timeout(t) \/ RecvNone(t) \/ TransformFails(t) \/ Cancel(t)
        PROVE  Tasks'
    <2>1. PICK r \in Result \ {"none"} : Return(t, r)
      BY <1>6 DEF Timeout, RecvNone, TransformFails, Cancel, Abandon, Result
    <2>2. UNCHANGED <<id, chan, wmsg, wire>>
      BY <1>6 DEF Timeout, RecvNone, TransformFails, Cancel
    <2> QED BY <1>0, <2>1, <2>2, ReturnTasks
  <1>7. ASSUME NEW t \in Task, (t \in Send /\ RecvAck(t)) \/ RecvResult(t) PROVE Tasks'
    <2>1. PICK r \in Result \ {"none"} : Return(t, r)
      BY <1>7 DEF RecvAck, RecvResult, Result
    <2>2. UNCHANGED <<id, chan, wmsg, wire>>
      BY <1>7 DEF RecvAck, RecvResult
    <2> QED BY <1>0, <2>1, <2>2, ReturnTasks
  <1>8. ASSUME NEW c \in Open, DropReceiver(c) PROVE Tasks'
    <2>1. c \in Task /\ c \notin Unary /\ pc[c] = "open" /\ c \in Call
      BY <1>8 DEF DropReceiver, Task, Call
    <2>2. \A u \in Task : pc'[u] = IF u = c THEN "done" ELSE pc[u]
      BY <1>0, <1>8 DEF TypeOK, DropReceiver
    <2>3. UNCHANGED <<result, id, chan, wmsg, wire>>
      BY <1>8 DEF DropReceiver
    <2>4. \A u \in Task : pc'[u] # "done" => result'[u] = "none"
      BY <1>0, <2>2, <2>3 DEF Tasks
    <2>5. \A d \in Call : pc'[d] \notin {"init", "done"} => id'[d] # 0
      BY <1>0, <2>2, <2>3 DEF Tasks, Task
    <2>6. Handed \subseteq Handed'
      BY <2>1, <2>2, <2>3 DEF Handed
    <2> QED BY <1>0, <2>3, <2>4, <2>5, <2>6, HandedKept
  <1>9. CASE UNCHANGED <<pc, result, id, chan, wmsg, wire>>
    BY <1>0, <1>9 DEF Tasks, Handed
  <1>10. CASE WriterRecv
    <2>1. chan \in Seq(Task) /\ chan # <<>> /\ chan' = Tail(chan) /\ wmsg' \in {wmsg, chan[1]}
      BY <1>0, <1>10 DEF TypeOK, WriterRecv
    <2>2. \A k \in 1..Len(chan') : k + 1 \in 1..Len(chan) /\ chan'[k] = chan[k + 1]
      BY <2>1
    <2>3. 1 \in 1..Len(chan)
      BY <2>1
    <2>4. UNCHANGED <<pc, result, id, wire>>
      BY <1>10 DEF WriterRecv
    <2>5. Handed' = Handed
      BY <2>4 DEF Handed
    <2> QED BY <1>0, <2>1, <2>2, <2>3, <2>4, <2>5 DEF Tasks
  <1>11. CASE WriterNone \/ WriteFails \/ AwaitWriter
    <2>1. wmsg' \in {wmsg, NoCall} /\ chan' \in {chan, <<>>} /\ UNCHANGED <<pc, result, id, wire>>
      BY <1>11 DEF WriterNone, WriteFails, AwaitWriter, WriterEnds
    <2>2. Handed' = Handed
      BY <2>1 DEF Handed
    <2> QED BY <1>0, <2>1, <2>2 DEF Tasks
  <1>12. CASE WriteOk
    <2>1. wmsg # NoCall /\ wmsg' = NoCall /\ wire' = Append(wire, wmsg)
          /\ UNCHANGED <<pc, result, id, chan>>
      BY <1>0, <1>12 DEF WriteOk, Writer
    <2>2. Handed' = Handed
      BY <2>1 DEF Handed
    <2>3. wmsg \in Task /\ wire \in Seq(Task)
      BY <1>0, <2>1 DEF TypeOK
    <2>4. \A k \in 1..Len(wire') : wire'[k] = wmsg \/ (k \in 1..Len(wire) /\ wire'[k] = wire[k])
      BY <2>1, <2>3, AppendElems
    <2> QED BY <1>0, <2>1, <2>2, <2>4 DEF Tasks
  <1>13. ASSUME NEW t \in Task, Expire(t) PROVE UNCHANGED <<pc, result, id, chan, wmsg, wire>>
    BY <1>13 DEF Expire
  <1>14. ASSUME NEW c \in Open, StreamRecv(c) \/ DropSender(c)
         PROVE  UNCHANGED <<pc, result, id, chan, wmsg, wire>>
    BY <1>14 DEF StreamRecv, DropSender
  <1>15. CASE DropClient \/ SelectWriter \/ SelectRead \/ Disconnect \/ ReadError
    BY <1>9, <1>15 DEF DropClient, SelectWriter, SelectRead, Disconnect, ReadError
  <1>16. ASSUME NEW c \in Call, NEW kind \in {"response", "data", "last", "bad"},
                HandleMsg(c, kind)
         PROVE  UNCHANGED <<pc, result, id, chan, wmsg, wire>>
    BY <1>16 DEF HandleMsg
  <1> QED
    BY <1>1, <1>2, <1>3, <1>4, <1>5, <1>6, <1>7, <1>8, <1>9, <1>10, <1>11, <1>12, <1>13, <1>14,
       <1>15, <1>16
    DEF Next, TaskStep, ConnStep, WriteInterrupted

-----------------------------------------------------------------------------
(* Acknowledgements.                                                         *)
LEMMA WireGrows ==
  ASSUME IInv, Next
  PROVE  \/ wire' = wire
         \/ WriteOk /\ wmsg \in Task /\ wire \in Seq(Task) /\ wire' = Append(wire, wmsg)
  <1>1. CASE WriteOk
    BY <1>1 DEF IInv, TypeOK, Writer, WriteOk
  <1>2. ASSUME NEW t \in Task, Enqueue(t) PROVE wire' = wire
    BY <1>2 DEF Enqueue, writerVars
  <1>3. ASSUME NEW c \in Call, NEW kind \in {"response", "data", "last", "bad"},
               HandleMsg(c, kind)
        PROVE  wire' = wire
    BY <1>3 DEF HandleMsg, writerVars
  <1>4. CASE WriterRecv \/ WriterNone \/ WriteFails \/ SelectWriter \/ SelectRead \/ AwaitWriter
             \/ Disconnect \/ ReadError
    BY <1>4 DEF WriterRecv, WriterNone, WriteFails, SelectWriter, SelectRead, AwaitWriter,
                Disconnect, ReadError, writerVars
  <1>5. UNCHANGED writerVars => wire' = wire
    BY DEF writerVars
  <1> QED BY Outbound, <1>1, <1>2, <1>3, <1>4, <1>5

LEMMA WireKeeps ==
  ASSUME IInv, Next, NEW t, OnWire(t) PROVE OnWire(t)'
  <1>1. CASE wire' = wire
    BY <1>1 DEF OnWire
  <1>2. CASE wmsg \in Task /\ wire \in Seq(Task) /\ wire' = Append(wire, wmsg)
    BY <1>2, AppendElems DEF OnWire
  <1> QED BY <1>1, <1>2, WireGrows

LEMMA AckOk ==
  ASSUME IInv, Next, NEW s \in Send, ack'[s] = "ok"
  PROVE  ack[s] = "ok" \/ (WriteOk /\ s = wmsg)
  <1>1. CASE WriteOk
    BY <1>1 DEF IInv, TypeOK, WriteOk
  <1>2. ASSUME NEW t \in Task, Enqueue(t) PROVE ack' = ack
    BY <1>2 DEF Enqueue
  <1>3. ASSUME NEW c \in Call, NEW kind \in {"response", "data", "last", "bad"},
               HandleMsg(c, kind)
        PROVE  ack' = ack
    BY <1>3 DEF HandleMsg
  <1>4. CASE WriterRecv \/ SelectWriter \/ SelectRead \/ Disconnect \/ ReadError
    BY <1>4 DEF WriterRecv, SelectWriter, SelectRead, Disconnect, ReadError
  <1>5. CASE WriterNone \/ WriteFails \/ AwaitWriter
    <2>1. ack' = ack \/ \E w \in {"ok", "err", "aborted"} : WriterEnds(w)
      BY <1>5 DEF WriterNone, WriteFails, AwaitWriter
    <2> QED BY <2>1 DEF WriterEnds
  <1> QED BY Outbound, <1>1, <1>2, <1>3, <1>4, <1>5

LEMMA ResultSent ==
  ASSUME IInv, Next, NEW s \in Send, result'[s] = "sent"
  PROVE  result[s] = "sent" \/ ack[s] = "ok"
  <1> USE TaskAssumption DEF clientVars
  <1>0. result \in [Task -> Result] /\ s \in Task
    BY DEF IInv, TypeOK, Task
  <1>1. ASSUME NEW t \in Task, NEW r \in Result \ {"sent"}, Return(t, r) PROVE result[s] = "sent"
    BY <1>0, <1>1 DEF Return
  <1>2. CASE result' = result
    BY <1>2
  <1>3. ASSUME NEW c \in Call, Begin(c) PROVE result[s] = "sent"
    BY <1>1, <1>2, <1>3 DEF Begin, Task, Result
  <1>4. ASSUME NEW u \in Send, StartSend(u) PROVE result[s] = "sent"
    <2>1. Return(u, "local_closed") \/ UNCHANGED result
      BY <1>4 DEF StartSend
    <2> QED BY <1>1, <1>2, <2>1 DEF Task, Result
  <1>5. ASSUME NEW t \in Task, Timeout(t) \/ RecvNone(t) \/ TransformFails(t) \/ Cancel(t)
                               \/ Reserve(t) \/ RecvResult(t)
        PROVE  result[s] = "sent"
    <2>1. result' = result \/ \E r \in Result \ {"sent"} : Return(t, r)
      BY <1>5 DEF Timeout, RecvNone, TransformFails, Cancel, Reserve, RecvResult, Abandon, Result
    <2> QED BY <1>1, <1>2, <2>1
  <1>6. ASSUME NEW u \in Send, RecvAck(u) PROVE result[s] = "sent" \/ ack[s] = "ok"
    <2>1. result' = [result EXCEPT ![u] = IF ack[u] = "ok" THEN "sent" ELSE "unsent"]
      BY <1>6 DEF RecvAck, Return
    <2> QED BY <1>0, <2>1
  <1>7. ASSUME NEW t \in Task, (t \in Call /\ Register(t)) \/ Enqueue(t) \/ Expire(t)
        PROVE  result' = result
    BY <1>7 DEF Register, Enqueue, Expire
  <1>8. ASSUME NEW c \in Open, StreamRecv(c) \/ DropReceiver(c) \/ DropSender(c)
        PROVE  result' = result
    BY <1>8 DEF StreamRecv, DropReceiver, DropSender
  <1>9. CASE DropClient \/ WriterRecv \/ WriterNone \/ WriteOk \/ WriteFails \/ SelectWriter
             \/ SelectRead \/ AwaitWriter \/ Disconnect \/ ReadError
    BY <1>9 DEF DropClient, WriterRecv, WriterNone, WriteOk, WriteFails, SelectWriter, SelectRead,
                AwaitWriter, Disconnect, ReadError
  <1>10. ASSUME NEW c \in Call, NEW kind \in {"response", "data", "last", "bad"},
                HandleMsg(c, kind)
         PROVE  result' = result
    BY <1>10 DEF HandleMsg
  <1> QED
    BY <1>2, <1>3, <1>4, <1>5, <1>6, <1>7, <1>8, <1>9, <1>10
    DEF Next, TaskStep, ConnStep, WriteInterrupted

LEMMA AcksStep ==
  ASSUME IInv, Next PROVE Acks'
  <1> SUFFICES ASSUME NEW s \in Send, ack'[s] = "ok" \/ result'[s] = "sent" PROVE OnWire(s)'
    BY DEF Acks
  <1>1. CASE ack[s] = "ok" \/ result[s] = "sent"
    BY <1>1, WireKeeps DEF IInv, Acks
  <1>2. CASE WriteOk /\ s = wmsg
    <2>1. wmsg \in Task /\ wire \in Seq(Task) /\ wire' = Append(wire, wmsg)
      BY <1>2 DEF WriteOk, IInv, TypeOK, Task
    <2> QED BY <1>2, <2>1, AppendElems DEF OnWire
  <1> QED BY <1>1, <1>2, AckOk, ResultSent

-----------------------------------------------------------------------------
(* Nonces.                                                                   *)
LEMMA NoncesStep ==
  ASSUME IInv, Next PROVE Nonces'
  <1> USE TaskAssumption DEF Ended
  <1>0. TypeOK /\ Tasks /\ Writer /\ Nonces
    BY DEF IInv
  <1>1. /\ chan \in Seq(Task) /\ wire \in Seq(Task) /\ nonce \in [Task -> Nat]
        /\ next_nonce \in Nat /\ wmsg \in Task \cup {NoCall}
    BY <1>0 DEF TypeOK
  <1>2. CASE UNCHANGED <<chanVars, wire, wmsg, wstate>>
    BY <1>0, <1>2 DEF Nonces, Transform, Taken, chanVars
  <1>3. ASSUME NEW t \in Task, Enqueue(t) PROVE Nonces'
    <2> SUFFICES ASSUME Transform' PROVE Nonces'
      BY DEF Nonces
    <2>1. Transform /\ nonce' = [nonce EXCEPT ![t] = next_nonce] /\ next_nonce' = next_nonce + 1
      BY <1>3 DEF Enqueue, Transform
    <2>2. UNCHANGED <<wire, wmsg, wstate>> /\ Taken' = Taken
      BY <1>3 DEF Enqueue, Taken, writerVars
    <2>3. t \notin Handed
      BY <1>3 DEF Enqueue, Handed
    <2>4. \A u \in Handed : nonce'[u] = nonce[u]
      BY <1>1, <2>1, <2>3 DEF Handed
    <2>5. \A k \in 1..Len(wire) : nonce'[wire[k]] = k
      BY <1>0, <2>1, <2>4 DEF Tasks, Nonces
    <2>6. CASE Ended
      BY <2>2, <2>5, <2>6 DEF Nonces
    <2>7. CASE ~Ended
      <3>1. chan' = Append(chan, t)
        BY <1>3, <2>7 DEF Enqueue
      <3>2. wstate = "write" => nonce'[wmsg] = Taken
        BY <1>0, <2>1, <2>4, <2>7 DEF Tasks, Nonces, Writer
      <3>3. \A k \in 1..Len(chan) : nonce'[chan[k]] = Taken + k
        BY <1>0, <2>1, <2>4, <2>7 DEF Tasks, Nonces
      <3>4. Taken \in Nat /\ Len(chan) \in Nat
        BY <1>1 DEF Taken
      <3>5. next_nonce = Taken + Len(chan) + 1
        BY <1>0, <2>1, <2>7 DEF Nonces
      <3>6. nonce'[t] = Taken + Len(chan) + 1 /\ next_nonce' = Taken + Len(chan) + 2
        BY <1>1, <2>1, <3>4, <3>5
      <3>7. \A k \in 1..Len(chan') : nonce'[chan'[k]] = Taken + k
        <4> SUFFICES ASSUME NEW k \in 1..Len(chan') PROVE nonce'[chan'[k]] = Taken + k
          OBVIOUS
        <4>1. CASE k \in 1..Len(chan)
          BY <1>1, <3>1, <3>3, <4>1, AppendElems
        <4>2. CASE k = Len(chan) + 1
          <5>1. chan'[k] = t
            BY <1>1, <3>1, <4>2, AppendElems
          <5> QED BY <3>6, <3>4, <4>2, <5>1
        <4>3. Len(chan') = Len(chan) + 1
          BY <1>1, <3>1, AppendElems
        <4> QED BY <3>4, <4>1, <4>2, <4>3
      <3>8. next_nonce' = Taken + Len(chan') + 1
        BY <1>1, <3>1, <3>6, <3>4, AppendElems
      <3> QED BY <2>2, <2>5, <3>2, <3>7, <3>8 DEF Nonces
    <2> QED BY <2>6, <2>7
  <1>4. CASE WriterRecv
    <2> SUFFICES ASSUME Transform' PROVE Nonces'
      BY DEF Nonces
    <2>1. Transform /\ wstate = "recv" /\ chan # <<>> /\ chan' = Tail(chan)
          /\ UNCHANGED <<wire, nonce, next_nonce>>
      BY <1>4 DEF WriterRecv, Transform
    <2>2. wstate' = "write" /\ wmsg' = chan[1]
      BY <1>1, <1>4, <2>1 DEF WriterRecv, Controlled
    <2>3. Taken' = Taken + 1 /\ Taken \in Nat
      BY <1>1, <2>1, <2>2 DEF Taken
    <2>4. 1 \in 1..Len(chan) /\ Len(chan') = Len(chan) - 1 /\ Len(chan) \in Nat
      BY <1>1, <2>1
    <2>5. \A k \in 1..Len(chan') : k + 1 \in 1..Len(chan) /\ chan'[k] = chan[k + 1]
      BY <1>1, <2>1
    <2>6. nonce'[wmsg'] = Taken'
      BY <1>0, <2>1, <2>2, <2>3, <2>4 DEF Nonces
    <2>7. \A k \in 1..Len(chan') : nonce'[chan'[k]] = Taken' + k
      <3> SUFFICES ASSUME NEW k \in 1..Len(chan') PROVE nonce[chan[k + 1]] = Taken + 1 + k
        BY <2>1, <2>3, <2>5
      <3>1. nonce[chan[k + 1]] = Taken + (k + 1)
        BY <1>0, <2>1, <2>5 DEF Nonces
      <3> QED BY <2>3, <3>1
    <2>8. next_nonce' = Taken' + Len(chan') + 1
      BY <1>0, <2>1, <2>3, <2>4 DEF Nonces
    <2>9. \A k \in 1..Len(wire') : nonce'[wire'[k]] = k
      BY <1>0, <2>1 DEF Nonces
    <2> QED BY <2>6, <2>7, <2>8, <2>9 DEF Nonces
  <1>5. CASE WriterNone \/ WriteFails \/ AwaitWriter
    <2>1. \/ UNCHANGED <<chanVars, wire, wmsg, wstate>>
          \/ wstate' \in {"ok", "err", "aborted"} /\ UNCHANGED <<wire, nonce, next_nonce>>
      BY <1>5 DEF WriterNone, WriteFails, AwaitWriter, WriterEnds, writerVars, chanVars
    <2> QED BY <1>0, <1>2, <2>1 DEF Nonces, Transform
  <1>6. CASE WriteOk
    <2> SUFFICES ASSUME Transform' PROVE Nonces'
      BY DEF Nonces
    <2>1. /\ Transform /\ wstate = "write" /\ wstate' = "recv" /\ wire' = Append(wire, wmsg)
          /\ UNCHANGED <<chan, nonce, next_nonce>>
      BY <1>6 DEF WriteOk, Transform, chanVars
    <2>2. wmsg \in Task
      BY <1>0, <1>1, <2>1 DEF Writer
    <2>3. Len(wire') = Len(wire) + 1 /\ Len(wire) \in Nat
      BY <1>1, <2>1, <2>2, AppendElems
    <2>4. Taken' = Taken /\ Taken = Len(wire) + 1
      BY <2>1, <2>3 DEF Taken
    <2>5. \A k \in 1..Len(wire') : nonce'[wire'[k]] = k
      <3>1. nonce[wmsg] = Len(wire) + 1 /\ \A k \in 1..Len(wire) : nonce[wire[k]] = k
        BY <1>0, <2>1, <2>4 DEF Nonces
      <3> QED BY <1>1, <2>1, <2>2, <3>1, AppendElems
    <2> QED BY <1>0, <2>1, <2>4, <2>5 DEF Nonces
  <1>7. CASE SelectWriter \/ SelectRead \/ Disconnect \/ ReadError
    BY <1>2, <1>7 DEF SelectWriter, SelectRead, Disconnect, ReadError, writerVars
  <1>8. ASSUME NEW c \in Call, NEW kind \in {"response", "data", "last", "bad"},
               HandleMsg(c, kind)
        PROVE  UNCHANGED <<chanVars, wire, wmsg, wstate>>
    BY <1>8 DEF HandleMsg, writerVars
  <1> QED BY Outbound, <1>2, <1>3, <1>4, <1>5, <1>6, <1>7, <1>8 DEF writerVars

-----------------------------------------------------------------------------
LEMMA InitIInv == Init => IInv
  <1> SUFFICES ASSUME Init PROVE IInv
    OBVIOUS
  <1> USE TaskAssumption, BoundAssumption
  <1>1. PICK w \in Workload :
          /\ pc = [t \in Task |-> IF t \in w.tasks THEN "init" ELSE "done"]
          /\ next_nonce = IF w.transform THEN 1 ELSE 0
    BY DEF Init
  <1>2. pc \in [Task -> {"init", "done"}] /\ next_nonce \in {0, 1}
    BY <1>1
  <1>3. 1 \in Id
    BY DEF Id
  <1>4. TypeOK
    <2>1. pc \in [Task -> PC] /\ result \in [Task -> Result]
      BY <1>2 DEF Init, PC, Result
    <2>2. id \in [Call -> Id \cup {0}] /\ next_stream_id \in Id
          /\ streams \in [Id -> Call \cup {NoCall}] /\ mailbox \in [Call -> Seq(Item)]
      BY <1>3 DEF Init
    <2>3. /\ rclosed \in [Open -> BOOLEAN] /\ sclosed \in [Open -> BOOLEAN]
          /\ sender \in [Open -> BOOLEAN] /\ client \in BOOLEAN /\ expired \subseteq Deadline
      BY DEF Init
    <2>4. /\ chan \in Seq(Task) /\ stuck \subseteq Task /\ nonce \in [Task -> Nat]
          /\ next_nonce \in Nat /\ ack \in [Send -> {"none", "ok", "err"}]
          /\ wire \in Seq(Task)
      BY <1>2 DEF Init
    <2>5. replied \in [Call -> 0..MaxData] /\ peerDone \in [Call -> BOOLEAN]
      BY DEF Init
    <2> QED BY <2>1, <2>2, <2>3, <2>4, <2>5 DEF TypeOK, Init
  <1>5. Tasks
    BY <1>2 DEF Init, Tasks, Task
  <1>6. Writer /\ Acks /\ Nonces
    BY <1>2 DEF Init, Writer, Acks, Nonces, Taken, Transform, Ended, Task
  <1> QED BY <1>4, <1>5, <1>6 DEF IInv

LEMMA IInvStep == IInv /\ [Next]_vars => IInv'
  <1>1. IInv /\ Next => IInv'
    BY TypeStep, TasksStep, WriterStep, AcksStep, NoncesStep DEF IInv
  <1>2. IInv /\ UNCHANGED vars => IInv'
    BY DEF IInv, vars, clientVars, streamVars, chanVars, writerVars, peerVars, TypeOK, Tasks,
           Handed, Writer, Ended, Acks, OnWire, Nonces, Transform, Taken
  <1> QED BY <1>1, <1>2

(* IInv holds in every reachable state, whatever the callers, the writer,    *)
(* the connection task and the peer do (client.rs, connection.rs).           *)
THEOREM Invariance == Spec => []IInv
  BY InitIInv, IInvStep, PTL DEF Spec

(* With a stateful transform the frames on the wire carry consecutive        *)
(* nonces, for any capacity, any number of senders and also when ids wrap:   *)
(* sealing under the permit and pushing without an await keeps the order     *)
(* (transform_send_inner), and the writer discards no sealed frame.          *)
THEOREM SealedInOrder == Spec => []NonceOrder
  <1>1. IInv => NonceOrder
    BY DEF IInv, Nonces, NonceOrder
  <1> QED BY <1>1, Invariance, PTL

(* send() and close_send() report success only for a frame that is on the    *)
(* wire in full (stream.rs, run_writer).                                     *)
THEOREM SendIsAcknowledged == Spec => []AckTruthful
  <1>1. IInv => AckTruthful
    BY DEF IInv, Acks, AckTruthful, OnWire
  <1> QED BY <1>1, Invariance, PTL

(* Nothing follows a frame that may be half written: the writer that wrote   *)
(* it has ended and no step restarts it (run_writer, Connection::run).       *)
THEOREM TornFrameIsLast == Spec => FramesWhole
  <1>1. IInv /\ [Next]_vars => [torn => wire' = wire /\ torn']_vars
    <2> SUFFICES ASSUME IInv, Next, torn PROVE wire' = wire /\ torn'
      BY DEF vars
    <2>1. Ended /\ torn \in BOOLEAN
      BY DEF IInv, Writer, TypeOK
    <2>2. wire' = wire
      BY <2>1, WireGrows DEF WriteOk, Ended
    <2>3. torn'
      <3> USE DEF Ended, writerVars
      <3>1. ASSUME NEW t \in Task, Enqueue(t) PROVE torn'
        BY <3>1 DEF Enqueue
      <3>2. ASSUME NEW c \in Call, NEW kind \in {"response", "data", "last", "bad"},
                   HandleMsg(c, kind)
            PROVE  torn'
        BY <3>2 DEF HandleMsg
      <3>3. CASE WriterRecv \/ WriterNone \/ WriteOk \/ WriteFails \/ SelectWriter \/ SelectRead
                 \/ AwaitWriter \/ Disconnect \/ ReadError
        BY <2>1, <3>3 DEF WriterRecv, WriterNone, WriteOk, WriteFails, SelectWriter, SelectRead,
                          AwaitWriter, Disconnect, ReadError
      <3> QED BY Outbound, <3>1, <3>2, <3>3
    <2> QED BY <2>2, <2>3
  <1> QED BY <1>1, Invariance, PTL DEF Spec, FramesWhole

-----------------------------------------------------------------------------
(* Routing, on a connection whose stream ids do not repeat.                  *)
LEMMA FreshId ==
  ASSUME IInv2, NoWrap, NEW c \in Call, Begin(c)
  PROVE  /\ next_stream_id' = next_stream_id + 2
         /\ Began' = Began \cup {c} /\ Cardinality(Began') = Cardinality(Began) + 1
         /\ Cardinality(Began) \in Nat
  <1>0. /\ id \in [Call -> Id \cup {0}] /\ next_stream_id \in Id /\ next_stream_id # 0
        /\ id[c] = 0 /\ id' = [id EXCEPT ![c] = next_stream_id]
    BY DEF IInv2, IInv, TypeOK, Ids, Begin, Id
  <1>1. Began' = Began \cup {c} /\ c \notin Began
    BY <1>0 DEF Began
  <1>2. IsFiniteSet(Call)
    BY TaskAssumption, FS_Subset DEF Task
  <1>3. IsFiniteSet(Began) /\ IsFiniteSet(Began')
    BY <1>2, FS_Subset DEF Began
  <1>4. Cardinality(Began') = Cardinality(Began) + 1
    BY <1>1, <1>3, FS_AddElement
  <1>5. /\ Cardinality(Began') <= Cardinality(Call)
        /\ Cardinality(Began) \in Nat /\ Cardinality(Call) \in Nat
    BY <1>2, <1>3, FS_Subset, FS_CardinalityType DEF Began
  <1>6. next_stream_id + 2 < IdSpace
    <2> DEFINE n == Cardinality(Began)
               m == Cardinality(Call)
    <2>1. next_stream_id = 2 * n + 1 /\ n \in Nat /\ m \in Nat /\ n + 1 <= m /\ 2 * m < IdSpace
      BY <1>4, <1>5 DEF IInv2, Ids, NoWrap
    <2> HIDE DEF n, m
    <2>2. 2 * n + 2 < IdSpace
      BY <2>1, BoundAssumption
    <2>3. 2 * n + 3 # IdSpace
      BY <2>1, BoundAssumption
    <2> QED BY <2>1, <2>2, <2>3, BoundAssumption
  <1>7. next_stream_id' = next_stream_id + 2
    <2>1. next_stream_id' = (next_stream_id + 2) % IdSpace /\ next_stream_id \in Nat
      BY <1>0 DEF Begin, Id
    <2> QED BY <1>6, <2>1, BoundAssumption
  <1> QED BY <1>1, <1>4, <1>5, <1>7

LEMMA IdsKept ==
  ASSUME Ids, UNCHANGED <<id, next_stream_id>>,
         \A c \in Call : pc'[c] = "init" => pc[c] = "init"
  PROVE  Ids'
  <1>1. Began' = Began
    BY DEF Began
  <1> QED BY <1>1 DEF Ids

LEMMA IdsStep ==
  ASSUME IInv2, NoWrap, Next PROVE Ids'
  <1> USE TaskAssumption DEF clientVars
  <1>0. TypeOK /\ Ids
    BY DEF IInv2, IInv
  <1>1. ASSUME NEW c \in Call, Begin(c) PROVE Ids'
    <2>1. \A d \in Call : id'[d] = IF d = c THEN next_stream_id ELSE id[d]
      BY <1>0, <1>1 DEF TypeOK, Begin
    <2>2. next_stream_id' = next_stream_id + 2 /\ next_stream_id \in Nat
      BY <1>0, <1>1, FreshId DEF TypeOK, Id
    <2>3. \A d \in Call : id[d] \in Nat /\ id[d] < next_stream_id
      BY <1>0 DEF TypeOK, Ids, Id
    <2>4. \A d \in Call : id'[d] < next_stream_id'
      BY <2>1, <2>2, <2>3
    <2>5. \A d, e \in Call : id'[d] = id'[e] /\ id'[d] # 0 => d = e
      BY <1>0, <2>1, <2>2, <2>3 DEF Ids
    <2>6. \A d \in Call : pc'[d] = "init" => id'[d] = 0
      <3>1. pc' = [pc EXCEPT ![c] = "register"] \/ pc' = [pc EXCEPT ![c] = "done"]
        BY <1>1 DEF Begin, Return
      <3>2. \A d \in Call : d # c => pc'[d] = pc[d]
        BY <1>0, <3>1 DEF TypeOK, Task
      <3>3. pc'[c] # "init"
        BY <1>0, <3>1 DEF TypeOK, Task
      <3> QED BY <1>0, <2>1, <3>2, <3>3 DEF Ids
    <2>7. next_stream_id' = 2 * Cardinality(Began') + 1
      BY <1>0, <1>1, <2>2, FreshId DEF Ids
    <2> QED BY <2>4, <2>5, <2>6, <2>7 DEF Ids
  <1>2. ASSUME NEW t \in Task, NEW q \in PC \ {"init"}, pc' = [pc EXCEPT ![t] = q],
               UNCHANGED <<id, next_stream_id>>
        PROVE  Ids'
    <2>1. \A c \in Call : pc'[c] = "init" => pc[c] = "init"
      BY <1>0, <1>2 DEF TypeOK, Task
    <2> QED BY <1>0, <1>2, <2>1, IdsKept
  <1>3. ASSUME NEW s \in Send, StartSend(s) PROVE Ids'
    <2>1. PICK q \in PC \ {"init"} : pc' = [pc EXCEPT ![s] = q]
      BY <1>3 DEF StartSend, Return, PC
    <2> QED BY <1>2, <1>3, <2>1 DEF StartSend, Task
  <1>4. ASSUME NEW t \in Task, t \in Call /\ Register(t) PROVE Ids'
    BY <1>2, <1>4 DEF Register, PC
  <1>5. ASSUME NEW t \in Task, Reserve(t) PROVE Ids'
    <2>1. PICK q \in PC \ {"init"} : pc' = [pc EXCEPT ![t] = q]
      BY <1>5 DEF Reserve, Abandon, Return, PC
    <2> QED BY <1>2, <1>5, <2>1 DEF Reserve
  <1>6. ASSUME NEW t \in Task, Enqueue(t) PROVE Ids'
    <2>1. PICK q \in PC \ {"init"} : pc' = [pc EXCEPT ![t] = q]
      BY <1>6 DEF Enqueue, PC, Task, Call
    <2> QED BY <1>2, <1>6, <2>1 DEF Enqueue
  <1>7. ASSUME NEW t \in Task, Timeout(t) \/ RecvNone(t) \/ TransformFails(t) \/ Cancel(t)
        PROVE  Ids'
    <2>1. pc' = [pc EXCEPT ![t] = "done"] /\ UNCHANGED <<id, next_stream_id>>
      BY <1>7 DEF Timeout, RecvNone, TransformFails, Cancel, Abandon, Return
    <2> QED BY <1>2, <2>1 DEF PC
  <1>8. ASSUME NEW t \in Task, (t \in Send /\ RecvAck(t)) \/ RecvResult(t) PROVE Ids'
    <2>1. pc' = [pc EXCEPT ![t] = "done"] /\ UNCHANGED <<id, next_stream_id>>
      BY <1>8 DEF RecvAck, RecvResult, Return
    <2> QED BY <1>2, <2>1 DEF PC
  <1>9. ASSUME NEW c \in Open, DropReceiver(c) PROVE Ids'
    <2>1. pc' = [pc EXCEPT ![c] = "done"] /\ UNCHANGED <<id, next_stream_id>> /\ c \in Task
      BY <1>9 DEF DropReceiver, Task, Call
    <2> QED BY <1>2, <2>1 DEF PC
  <1>10. CASE UNCHANGED <<pc, id, next_stream_id>>
    BY <1>0, <1>10, IdsKept
  <1>11. ASSUME NEW t \in Task, Expire(t) PROVE UNCHANGED <<pc, id, next_stream_id>>
    BY <1>11 DEF Expire
  <1>12. ASSUME NEW c \in Open, StreamRecv(c) \/ DropSender(c)
         PROVE  UNCHANGED <<pc, id, next_stream_id>>
    BY <1>12 DEF StreamRecv, DropSender
  <1>13. CASE DropClient \/ WriterRecv \/ WriterNone \/ WriteOk \/ WriteFails \/ SelectWriter
              \/ SelectRead \/ AwaitWriter \/ Disconnect \/ ReadError
    BY <1>10, <1>13 DEF DropClient, WriterRecv, WriterNone, WriteOk, WriteFails, SelectWriter,
                        SelectRead, AwaitWriter, Disconnect, ReadError
  <1>14. ASSUME NEW c \in Call, NEW kind \in {"response", "data", "last", "bad"},
                HandleMsg(c, kind)
         PROVE  UNCHANGED <<pc, id, next_stream_id>>
    BY <1>14 DEF HandleMsg
  <1> QED
    BY <1>1, <1>3, <1>4, <1>5, <1>6, <1>7, <1>8, <1>9, <1>10, <1>11, <1>12, <1>13, <1>14
    DEF Next, TaskStep, ConnStep, WriteInterrupted

-----------------------------------------------------------------------------
(* Steps that move no call and touch no mailbox, entry or teardown.          *)
LEMMA RoutesKept ==
  ASSUME IInv2, \A c \in Call : pc'[c] = pc[c],
         UNCHANGED <<id, streams, mailbox, peerDone, run, wstate>>
  PROVE  Registry' /\ TornDown'
  <1> USE TaskAssumption
  <1>1. \A i \in Id : streams[i] # NoCall => streams[i] \in Call
    BY DEF IInv2, IInv, TypeOK
  <1>2. Entries' /\ Awaited' /\ Phases' /\ Answers'
    BY <1>1 DEF IInv2, Registry, Entries, Awaited, Phases, Answers
  <1>3. TornDown'
    BY <1>1 DEF IInv2, TornDown
  <1> QED BY <1>2, <1>3 DEF Registry

(* A call that leaves takes its entry with it.                               *)
LEMMA RoutesLeave ==
  ASSUME IInv2, NEW t \in Call, pc' = [pc EXCEPT ![t] = "done"], Unregister(t), id[t] # 0,
         UNCHANGED <<id, mailbox, peerDone, run, wstate>>
  PROVE  Registry' /\ TornDown'
  <1> USE TaskAssumption
  <1>0. TypeOK /\ Ids /\ Registry /\ TornDown
    BY DEF IInv2, IInv
  <1>1. \A c \in Call : pc'[c] = IF c = t THEN "done" ELSE pc[c]
    BY <1>0 DEF TypeOK, Task
  <1>2. id[t] \in Id /\ \A i \in Id : streams'[i] = IF i = id[t] THEN NoCall ELSE streams[i]
    BY <1>0 DEF TypeOK, Unregister
  <1>3. \A i \in Id : streams[i] # NoCall =>
          streams[i] \in Call /\ id[streams[i]] = i
    BY <1>0 DEF TypeOK, Registry, Entries
  <1>4. \A i \in Id : streams'[i] # NoCall =>
          /\ streams'[i] = streams[i] /\ streams[i] \in Call /\ streams[i] # t
          /\ pc'[streams[i]] = pc[streams[i]]
    BY <1>1, <1>2, <1>3
  <1>5. Entries'
    BY <1>0, <1>4 DEF Registry, Entries
  <1>6. Awaited'
    <2> SUFFICES ASSUME NEW c \in Call, pc'[c] \in {"reserve", "permit", "wait"}
                 PROVE  streams'[id[c]] = c \/ mailbox[c] # <<>>
      BY DEF Awaited
    <2>1. c # t /\ pc[c] = pc'[c] /\ id[c] # 0
      BY <1>1 DEF IInv2, IInv, Tasks
    <2>2. id[c] \in Id /\ id[c] # id[t]
      BY <1>0, <2>1 DEF TypeOK, Ids
    <2> QED BY <1>0, <1>2, <2>1, <2>2 DEF Registry, Awaited
  <1>7. Phases' /\ Answers'
    BY <1>0, <1>1 DEF Registry, Phases, Answers
  <1>8. TornDown'
    BY <1>0, <1>1, <1>4 DEF TornDown
  <1> QED BY <1>5, <1>6, <1>7, <1>8 DEF Registry

(* A task leaves through its guard, a call or a send.                        *)
LEMMA RoutesAbandon ==
  ASSUME IInv2, NEW t \in Task, NEW r, Abandon(t, r), pc[t] \notin {"init", "done"},
         UNCHANGED <<id, mailbox, peerDone, run, wstate>>
  PROVE  Registry' /\ TornDown'
  <1> USE TaskAssumption
  <1>1. pc' = [pc EXCEPT ![t] = "done"] /\ pc \in [Task -> PC]
    BY DEF Abandon, Return, IInv2, IInv, TypeOK
  <1>2. CASE t \in Call
    <2>1. Unregister(t) /\ id[t] # 0
      BY <1>2 DEF Abandon, IInv2, IInv, Tasks
    <2> QED BY <1>1, <1>2, <2>1, RoutesLeave
  <1>3. CASE t \notin Call
    <2>1. UNCHANGED streams /\ \A c \in Call : pc'[c] = pc[c]
      BY <1>1, <1>3 DEF Abandon, Task
    <2> QED BY <2>1, RoutesKept
  <1> QED BY <1>2, <1>3

(* A call takes its next step with its registration as it was.               *)
LEMMA RoutesMove ==
  ASSUME IInv2, NEW t \in Call, NEW q, pc' = [pc EXCEPT ![t] = q],
         UNCHANGED <<id, streams, mailbox, peerDone, run, wstate>>,
         \/ pc[t] = "reserve" /\ q = "permit" /\ ~Ended
         \/ pc[t] = "permit" /\ q \in {"wait", "open"} /\ (q = "open" => t \notin Unary)
  PROVE  Registry' /\ TornDown'
  <1> USE TaskAssumption
  <1>0. TypeOK /\ Ids /\ Registry /\ TornDown /\ Writer
    BY DEF IInv2, IInv
  <1>1. \A c \in Call : pc'[c] = IF c = t THEN q ELSE pc[c]
    BY <1>0 DEF TypeOK, Task
  <1>2. \A i \in Id : streams[i] # NoCall => streams[i] \in Call
    BY <1>0 DEF TypeOK
  <1>3. Entries'
    BY <1>0, <1>1, <1>2 DEF Registry, Entries
  <1>4. Awaited' /\ Phases' /\ Answers'
    BY <1>0, <1>1 DEF Registry, Awaited, Phases, Answers
  <1>5. TornDown'
    BY <1>0, <1>1, <1>2 DEF TornDown, Writer
  <1> QED BY <1>3, <1>4, <1>5 DEF Registry

(* A frame for call c can only reach c itself.                               *)
LEMMA RoutesDeliver ==
  ASSUME IInv2, NEW c \in Call, NEW kind \in {"response", "data", "last", "bad"},
         HandleMsg(c, kind)
  PROVE  /\ id[c] \in Id /\ streams[id[c]] \in {c, NoCall}
         /\ streams[id[c]] = c => RxOpen(c)
  <1>1. id[c] \in Id
    BY DEF IInv2, IInv, HandleMsg, PeerSends, Tasks, Handed, TypeOK
  <1>2. streams[id[c]] # NoCall => streams[id[c]] \in Call /\ id[streams[id[c]]] = id[c]
    BY <1>1 DEF IInv2, IInv, TypeOK, Registry, Entries
  <1>3. id[c] # 0
    BY <1>1 DEF Id
  <1>4. streams[id[c]] \in {c, NoCall}
    BY <1>2, <1>3 DEF IInv2, Ids
  <1>5. streams[id[c]] = c => RxOpen(c)
    BY <1>1, TaskAssumption DEF IInv2, Registry, Entries, RxOpen, Task
  <1> QED BY <1>1, <1>4, <1>5

LEMMA RoutesHandle ==
  ASSUME IInv2, NEW c \in Call, NEW kind \in {"response", "data", "last", "bad"},
         HandleMsg(c, kind)
  PROVE  Registry' /\ TornDown'
  <1> USE TaskAssumption
  <1> DEFINE item == [kind |-> IF kind = "bad" THEN "err" ELSE kind, call |-> c]
  <1>0. /\ TypeOK /\ Ids /\ Registry /\ c # NoCall
        /\ UNCHANGED <<pc, id>> /\ run' = "select" /\ Route(id[c], item)
        /\ (c \in Unary => kind \in {"response", "bad"} /\ peerDone'[c])
        /\ \A d \in Unary : peerDone[d] => peerDone'[d]
    <2>1. c # NoCall /\ (c \in Unary => kind \in {"response", "bad"})
      BY DEF HandleMsg, PeerSends, Task
    <2>2. peerDone' = [peerDone EXCEPT ![c] = c \in Unary \/ kind \in {"response", "last"}]
      BY DEF HandleMsg, PeerSends
    <2>3. peerDone \in [Call -> BOOLEAN] /\ Unary \subseteq Call
      BY DEF IInv2, IInv, TypeOK, Call
    <2> QED BY <2>1, <2>2, <2>3 DEF IInv2, IInv, HandleMsg, clientVars
  <1>1. item.kind = "data" => kind = "data"
    OBVIOUS
  <1>2. TornDown'
    BY <1>0 DEF TornDown
  <1>3. CASE streams[id[c]] = NoCall
    <2>1. UNCHANGED <<streams, mailbox>>
      BY <1>0, <1>3 DEF Route
    <2>2. Entries' /\ Awaited' /\ Phases'
      BY <1>0, <2>1 DEF Registry, Entries, Awaited, Phases
    <2>3. Answers'
      BY <1>0, <2>1 DEF Registry, Answers
    <2> QED BY <1>2, <2>2, <2>3 DEF Registry
  <1>4. CASE streams[id[c]] = c
    <2>1. RxOpen(c) /\ id[c] \in Id
      BY <1>4, RoutesDeliver
    <2>2. /\ mailbox' = [mailbox EXCEPT ![c] = Append(@, item)]
          /\ streams' = IF kind = "data" THEN streams ELSE [streams EXCEPT ![id[c]] = NoCall]
      BY <1>0, <1>4, <2>1 DEF Route
    <2> HIDE DEF item
    <2>3. \A d \in Call : mailbox'[d] = IF d = c THEN Append(mailbox[c], item) ELSE mailbox[d]
      BY <1>0, <2>2 DEF TypeOK
    <2>4. mailbox[c] \in Seq(Item) /\ item \in Item
      BY <1>0 DEF TypeOK, Item, item
    <2>5. mailbox'[c] # <<>>
      <3>1. mailbox'[c] = Append(mailbox[c], item)
        BY <2>3
      <3>2. Len(Append(mailbox[c], item)) = Len(mailbox[c]) + 1 /\ Len(mailbox[c]) \in Nat
        BY <2>4
      <3> QED BY <3>1, <3>2
    <2>6. \A i \in Id : streams'[i] = streams[i] \/ (i = id[c] /\ streams'[i] = NoCall)
      BY <1>0, <2>1, <2>2 DEF TypeOK
    <2>7. c \in Unary => streams'[id[c]] = NoCall
      BY <1>0, <2>1, <2>2 DEF TypeOK
    <2>8. \A i \in Id : streams[i] = c => i = id[c]
      BY <1>0 DEF Registry, Entries
    <2>9. Entries'
      <3> SUFFICES ASSUME NEW i \in Id, streams'[i] # NoCall
                   PROVE  /\ id[streams'[i]] = i
                          /\ pc[streams'[i]] \in {"reserve", "permit", "wait", "open"}
                          /\ streams'[i] \in Unary => mailbox'[streams'[i]] = <<>>
        BY <1>0 DEF Entries
      <3>1. streams'[i] = streams[i]
        BY <2>6
      <3>2. streams[i] \in Unary => streams[i] # c /\ streams[i] \in Call
        BY <2>7, <2>8, <3>1 DEF Call
      <3> QED BY <1>0, <2>3, <3>1, <3>2 DEF Registry, Entries
    <2>10. Awaited'
      <3> SUFFICES ASSUME NEW d \in Call, pc[d] \in {"reserve", "permit", "wait"}, d # c
                   PROVE  streams'[id[d]] = d \/ mailbox'[d] # <<>>
        BY <1>0, <2>5 DEF Awaited
      <3>1. id[d] \in Id /\ id[d] # id[c]
        BY <1>0, <2>1 DEF IInv2, IInv, Tasks, TypeOK, Ids
      <3> QED BY <1>0, <2>3, <2>6, <3>1 DEF Registry, Awaited
    <2>11. Phases'
      BY <1>0, <2>1, <2>3, <1>4 DEF Registry, Phases, Entries
    <2>12. Answers'
      <3> SUFFICES ASSUME NEW d \in Unary, NEW k \in 1..Len(mailbox'[d]),
                          mailbox'[d][k].kind # "err"
                   PROVE  peerDone'[d] /\ mailbox'[d][k].call = d
        BY DEF Answers
      <3>1. CASE d = c
        <4>1. mailbox'[c] = Append(mailbox[c], item) /\ item.call = c
          BY <2>3 DEF item
        <4>2. \/ k \in 1..Len(mailbox[c]) /\ mailbox'[c][k] = mailbox[c][k]
              \/ mailbox'[c][k] = item
          BY <2>4, <3>1, <4>1, AppendElems
        <4> QED BY <1>0, <3>1, <4>1, <4>2 DEF Registry, Answers
      <3>2. CASE d # c
        <4>1. mailbox'[d] = mailbox[d]
          BY <2>3, <3>2 DEF Call
        <4> QED BY <1>0, <4>1 DEF Registry, Answers
      <3> QED BY <3>1, <3>2
    <2> QED BY <1>2, <2>9, <2>10, <2>11, <2>12 DEF Registry
  <1> QED BY <1>3, <1>4, RoutesDeliver

(* disconnect() takes the whole registry and leaves every entry an item.     *)
LEMMA RoutesDisconnect ==
  ASSUME IInv2, Disconnect PROVE Registry' /\ TornDown'
  <1> USE TaskAssumption
  <1>0. TypeOK /\ Registry /\ UNCHANGED <<pc, id, peerDone, wstate>>
    BY DEF IInv2, IInv, Disconnect, clientVars, peerVars, writerVars
  <1>1. \A i \in Id : streams'[i] = NoCall
    BY DEF Disconnect
  <1>2. \A c \in Call : [kind |-> "err", call |-> c] \in Item /\ mailbox[c] \in Seq(Item)
    BY <1>0 DEF TypeOK, Item
  <1>3. \A c \in Call :
          mailbox'[c] = IF RxOpen(c) /\ \E i \in Id : streams[i] = c
                        THEN Append(mailbox[c], [kind |-> "err", call |-> c]) ELSE mailbox[c]
    BY DEF Disconnect
  <1>4. \A c \in Call : pc[c] \in {"reserve", "permit", "wait"} => mailbox'[c] # <<>>
    <2> SUFFICES ASSUME NEW c \in Call, pc[c] \in {"reserve", "permit", "wait"}
                 PROVE  mailbox'[c] # <<>>
      OBVIOUS
    <2>1. id[c] \in Id /\ RxOpen(c)
      BY <1>0 DEF IInv2, IInv, Tasks, TypeOK, RxOpen
    <2>2. CASE streams[id[c]] = c
      <3>1. mailbox'[c] = Append(mailbox[c], [kind |-> "err", call |-> c])
        BY <1>3, <2>1, <2>2
      <3> QED BY <1>2, <3>1
    <2>3. CASE mailbox[c] # <<>>
      <3>1. mailbox'[c] \in {mailbox[c], Append(mailbox[c], [kind |-> "err", call |-> c])}
        BY <1>3
      <3> QED BY <1>2, <2>3, <3>1
    <2> QED BY <1>0, <2>2, <2>3 DEF Registry, Awaited
  <1>5. Entries' /\ Awaited'
    BY <1>0, <1>1, <1>4 DEF Entries, Awaited
  <1>6. Phases'
    <2> SUFFICES ASSUME NEW c \in Call, pc[c] \in {"init", "register"} PROVE mailbox'[c] = <<>>
      BY <1>0 DEF Phases, Registry
    <2>1. mailbox[c] = <<>> /\ \A i \in Id : streams[i] # c
      BY <1>0 DEF Registry, Phases, Entries, Task
    <2> QED BY <1>3, <2>1
  <1>7. Answers'
    <2> SUFFICES ASSUME NEW c \in Unary, NEW k \in 1..Len(mailbox'[c]),
                        mailbox'[c][k].kind # "err"
                 PROVE  peerDone[c] /\ mailbox'[c][k].call = c
      BY <1>0 DEF Answers
    <2>1. c \in Call
      BY DEF Call
    <2>2. CASE mailbox'[c] = mailbox[c]
      BY <1>0, <2>2 DEF Registry, Answers
    <2>3. CASE mailbox'[c] = Append(mailbox[c], [kind |-> "err", call |-> c])
      <3>1. k \in 1..Len(mailbox[c]) /\ mailbox'[c][k] = mailbox[c][k]
        BY <1>2, <2>1, <2>3, AppendElems
      <3> QED BY <1>0, <3>1 DEF Registry, Answers
    <2> QED BY <1>3, <2>1, <2>2, <2>3
  <1>8. TornDown'
    BY <1>0, <1>1, <1>4 DEF TornDown
  <1> QED BY <1>5, <1>6, <1>7, <1>8 DEF Registry

LEMMA RoutesStep ==
  ASSUME IInv2, Next PROVE Registry' /\ TornDown'
  <1> USE TaskAssumption DEF clientVars, streamVars, chanVars, writerVars, peerVars
  <1>0. TypeOK /\ Tasks /\ Writer /\ Ids /\ Registry /\ TornDown
    BY DEF IInv2, IInv
  <1>1. ASSUME NEW c \in Call, Begin(c) PROVE Registry' /\ TornDown'
    <2>1. pc' = [pc EXCEPT ![c] = "register"] \/ pc' = [pc EXCEPT ![c] = "done"]
      BY <1>1 DEF Begin, Return
    <2>2. \A d \in Call : d # c => pc'[d] = pc[d] /\ id'[d] = id[d]
      BY <1>0, <1>1, <2>1 DEF TypeOK, Task, Begin
    <2>3. pc[c] = "init" /\ pc'[c] \in {"register", "done"} /\ mailbox[c] = <<>>
      BY <1>0, <1>1, <2>1 DEF TypeOK, Task, Begin, Registry, Phases
    <2>4. UNCHANGED <<streams, mailbox, peerDone, run, wstate>>
      BY <1>1 DEF Begin
    <2>5. \A i \in Id : streams[i] # NoCall => streams[i] \in Call /\ streams[i] # c
      <3>1. \A i \in Id : streams[i] # NoCall => streams[i] \in Call
        BY <1>0 DEF TypeOK
      <3>2. \A i \in Id : streams[i] # NoCall => pc[streams[i]] # "init"
        BY <1>0 DEF Registry, Entries
      <3> QED BY <2>3, <3>1, <3>2
    <2>6. Entries'
      BY <1>0, <2>2, <2>4, <2>5 DEF Registry, Entries
    <2>7. Awaited' /\ Phases' /\ Answers'
      BY <1>0, <2>2, <2>3, <2>4 DEF Registry, Awaited, Phases, Answers
    <2>8. TornDown'
      BY <1>0, <2>2, <2>3, <2>4, <2>5 DEF TornDown
    <2> QED BY <2>6, <2>7, <2>8 DEF Registry
  <1>2. ASSUME NEW s \in Send, StartSend(s) PROVE Registry' /\ TornDown'
    <2>1. pc' = [pc EXCEPT ![s] = "reserve"] \/ pc' = [pc EXCEPT ![s] = "done"]
      BY <1>2 DEF StartSend, Return
    <2>2. \A c \in Call : pc'[c] = pc[c]
      BY <1>0, <2>1 DEF TypeOK, Task
    <2> QED BY <1>2, <2>2, RoutesKept DEF StartSend
  <1>3. ASSUME NEW c \in Call, Register(c) PROVE Registry' /\ TornDown'
    <2>1. \A d \in Call : pc'[d] = IF d = c THEN "reserve" ELSE pc[d]
      BY <1>0, <1>3 DEF TypeOK, Task, Register
    <2>2. id[c] \in Id /\ c # NoCall /\ mailbox[c] = <<>>
      BY <1>0, <1>3 DEF TypeOK, Tasks, Register, Registry, Phases, Task
    <2>3. \A i \in Id : streams'[i] = IF i = id[c] THEN c ELSE streams[i]
      BY <1>0, <1>3, <2>2 DEF TypeOK, Register
    <2>4. UNCHANGED <<id, mailbox, peerDone, run, wstate>>
      BY <1>3 DEF Register
    <2>5. \A i \in Id : streams[i] # NoCall => streams[i] \in Call
      BY <1>0 DEF TypeOK
    <2>6. \A d \in Call : id[d] = id[c] => d = c
      BY <1>0, <2>2 DEF Ids, Id
    <2>7. Entries'
      BY <1>0, <2>1, <2>2, <2>3, <2>4, <2>5 DEF Registry, Entries
    <2>8. Awaited'
      <3> SUFFICES ASSUME NEW d \in Call, pc'[d] \in {"reserve", "permit", "wait"}
                   PROVE  streams'[id[d]] = d \/ mailbox[d] # <<>>
        BY <2>4 DEF Awaited
      <3>1. CASE d = c
        BY <2>2, <2>3, <3>1
      <3>2. CASE d # c
        <4>1. pc[d] = pc'[d] /\ id[d] \in Id /\ id[d] # id[c]
          BY <1>0, <2>1, <2>6, <3>2 DEF Tasks, TypeOK
        <4> QED BY <1>0, <2>3, <4>1 DEF Registry, Awaited
      <3> QED BY <3>1, <3>2
    <2>9. Phases' /\ Answers'
      BY <1>0, <2>1, <2>4 DEF Registry, Phases, Answers
    <2>10. TornDown'
      BY <1>0, <2>1, <2>3, <2>4, <2>5 DEF TornDown
    <2> QED BY <2>7, <2>8, <2>9, <2>10 DEF Registry
  <1>4. ASSUME NEW t \in Task, Reserve(t) PROVE Registry' /\ TornDown'
    <2>1. pc[t] = "reserve" /\ UNCHANGED <<id, mailbox, peerDone, run, wstate>>
      BY <1>4 DEF Reserve
    <2>2. CASE Abandon(t, "closed")
      BY <2>1, <2>2, RoutesAbandon
    <2>3. CASE ~Ended /\ pc' = [pc EXCEPT ![t] = "permit"] /\ UNCHANGED <<result, streams>>
      <3>1. CASE t \in Call
        BY <2>1, <2>3, <3>1, RoutesMove
      <3>2. CASE t \notin Call
        <4>1. \A c \in Call : pc'[c] = pc[c]
          BY <1>0, <2>3, <3>2 DEF TypeOK, Task
        <4> QED BY <2>1, <2>3, <4>1, RoutesKept
      <3> QED BY <3>1, <3>2
    <2> QED BY <1>4, <2>2, <2>3 DEF Reserve
  <1>5. ASSUME NEW t \in Task, Enqueue(t) PROVE Registry' /\ TornDown'
    <2>1. pc[t] = "permit" /\ UNCHANGED <<id, streams, mailbox, peerDone, run, wstate>>
      BY <1>5 DEF Enqueue
    <2>2. CASE t \in Call
      <3>1. PICK q \in {"wait", "open"} :
              pc' = [pc EXCEPT ![t] = q] /\ (q = "open" => t \notin Unary)
        BY <1>5, <2>2 DEF Enqueue, Call
      <3> QED BY <2>1, <2>2, <3>1, RoutesMove
    <2>3. CASE t \notin Call
      <3>1. PICK q \in {"wait", "open", "ack"} : pc' = [pc EXCEPT ![t] = q]
        BY <1>5 DEF Enqueue, Task, Call
      <3>2. \A c \in Call : pc'[c] = pc[c]
        BY <1>0, <2>3, <3>1 DEF TypeOK, Task
      <3> QED BY <2>1, <3>2, RoutesKept
    <2> QED BY <2>2, <2>3
  <1>6. ASSUME NEW t \in Task, Timeout(t) \/ RecvNone(t) \/ TransformFails(t) \/ Cancel(t)
        PROVE  Registry' /\ TornDown'
    <2>1. pc[t] \notin {"init", "done"}
      BY <1>6 DEF Timeout, RecvNone, TransformFails, Cancel, Suspended
    <2>2. PICK r : Abandon(t, r)
      BY <1>6 DEF Timeout, RecvNone, TransformFails, Cancel
    <2>3. UNCHANGED <<id, mailbox, peerDone, run, wstate>>
      BY <1>6 DEF Timeout, RecvNone, TransformFails, Cancel
    <2> QED BY <2>1, <2>2, <2>3, RoutesAbandon
  <1>7. ASSUME NEW s \in Send, RecvAck(s) PROVE Registry' /\ TornDown'
    <2>1. pc' = [pc EXCEPT ![s] = "done"]
      BY <1>7 DEF RecvAck, Return
    <2>2. \A c \in Call : pc'[c] = pc[c]
      BY <1>0, <2>1 DEF TypeOK, Task
    <2>3. UNCHANGED <<id, streams, mailbox, peerDone, run, wstate>>
      BY <1>7 DEF RecvAck
    <2> QED BY <2>2, <2>3, RoutesKept
  <1>8. ASSUME NEW c \in Task, RecvResult(c) PROVE Registry' /\ TornDown'
    <2>1. /\ c \in Unary /\ c \in Call /\ pc[c] = "wait" /\ mailbox[c] # <<>>
          /\ UNCHANGED <<id, streams, peerDone, run, wstate>>
      BY <1>8 DEF RecvResult, Call
    <2>2. \A d \in Call : pc'[d] = IF d = c THEN "done" ELSE pc[d]
      BY <1>0, <1>8 DEF TypeOK, Task, RecvResult, Return
    <2>3. \A d \in Call : mailbox'[d] = IF d = c THEN Tail(mailbox[c]) ELSE mailbox[d]
      BY <1>0, <1>8 DEF TypeOK, RecvResult
    <2>4. \A i \in Id : streams[i] # NoCall => streams[i] \in Call /\ streams[i] # c
      BY <1>0, <2>1 DEF TypeOK, Registry, Entries
    <2>5. Entries'
      BY <1>0, <2>1, <2>2, <2>3, <2>4 DEF Registry, Entries
    <2>6. Awaited' /\ Phases'
      BY <1>0, <2>1, <2>2, <2>3 DEF Registry, Awaited, Phases
    <2>7. Answers'
      <3> SUFFICES ASSUME NEW d \in Unary, NEW k \in 1..Len(mailbox'[d]),
                          mailbox'[d][k].kind # "err"
                   PROVE  peerDone[d] /\ mailbox'[d][k].call = d
        BY <2>1 DEF Answers
      <3>1. CASE d = c
        <4>1. mailbox[c] \in Seq(Item)
          BY <1>0, <2>1 DEF TypeOK
        <4>2. k + 1 \in 1..Len(mailbox[c]) /\ mailbox'[c][k] = mailbox[c][k + 1]
          <5>1. mailbox'[c] = Tail(mailbox[c]) /\ k \in 1..Len(Tail(mailbox[c]))
            BY <2>1, <2>3, <3>1
          <5>2. Len(Tail(mailbox[c])) = Len(mailbox[c]) - 1 /\ Len(mailbox[c]) \in Nat
            BY <2>1, <4>1
          <5>3. Tail(mailbox[c])[k] = mailbox[c][k + 1]
            BY <2>1, <4>1, <5>1
          <5> QED BY <5>1, <5>2, <5>3
        <4> QED BY <1>0, <3>1, <4>2 DEF Registry, Answers
      <3>2. CASE d # c
        BY <1>0, <2>3, <3>2 DEF Registry, Answers, Call
      <3> QED BY <3>1, <3>2
    <2>8. TornDown'
      BY <1>0, <2>1, <2>2, <2>3, <2>4 DEF TornDown
    <2> QED BY <2>5, <2>6, <2>7, <2>8 DEF Registry
  <1>9. ASSUME NEW c \in Open, StreamRecv(c) PROVE Registry' /\ TornDown'
    <2>1. c \in Call /\ c \notin Unary /\ pc[c] = "open"
          /\ UNCHANGED <<pc, id, streams, peerDone, run, wstate>>
      BY <1>9 DEF StreamRecv, Call
    <2>2. \A d \in Call : d # c => mailbox'[d] = mailbox[d]
      BY <1>0, <1>9 DEF TypeOK, StreamRecv
    <2>3. \A i \in Id : streams[i] # NoCall => streams[i] \in Call
      BY <1>0 DEF TypeOK
    <2>4. Entries' /\ Awaited' /\ Phases'
      BY <1>0, <2>1, <2>2, <2>3 DEF Registry, Entries, Awaited, Phases
    <2>5. Answers'
      BY <1>0, <2>1, <2>2 DEF Registry, Answers, Call
    <2>6. TornDown'
      BY <1>0, <2>1, <2>2 DEF TornDown
    <2> QED BY <2>4, <2>5, <2>6 DEF Registry
  <1>10. ASSUME NEW c \in Open, DropReceiver(c) PROVE Registry' /\ TornDown'
    <2>1. c \in Call /\ id[c] # 0
      BY <1>0, <1>10 DEF DropReceiver, Tasks, Call
    <2> QED BY <1>10, <2>1, RoutesLeave DEF DropReceiver
  <1>11. CASE UNCHANGED <<pc, id, streams, mailbox, peerDone, run, wstate>>
    BY <1>11, RoutesKept
  <1>12. ASSUME NEW t \in Task, Expire(t)
         PROVE  UNCHANGED <<pc, id, streams, mailbox, peerDone, run, wstate>>
    BY <1>12 DEF Expire
  <1>13. ASSUME NEW c \in Open, DropSender(c)
         PROVE  UNCHANGED <<pc, id, streams, mailbox, peerDone, run, wstate>>
    BY <1>13 DEF DropSender
  <1>14. CASE DropClient
    BY <1>11, <1>14 DEF DropClient
  <1>15. CASE WriterRecv \/ WriterNone \/ WriteOk \/ WriteFails \/ SelectWriter \/ SelectRead
              \/ AwaitWriter \/ ReadError
    <2>1. UNCHANGED <<pc, id, streams, mailbox, peerDone>>
      BY <1>15 DEF WriterRecv, WriterNone, WriteOk, WriteFails, SelectWriter, SelectRead,
                   AwaitWriter, ReadError
    <2>2. \/ ~(run' = "end" /\ wstate' # "ok")
          \/ UNCHANGED <<run, wstate>>
      <3>1. run \in {"disconnect", "end"} => wstate \notin {"recv", "write"}
        BY <1>0 DEF Writer, Ended
      <3> QED BY <1>15, <3>1 DEF WriterRecv, WriterNone, WriteOk, WriteFails, SelectWriter,
                                 SelectRead, AwaitWriter, ReadError, WriterEnds
    <2>3. Registry'
      BY <1>0, <2>1 DEF Registry, Entries, Awaited, Phases, Answers
    <2>4. TornDown'
      BY <1>0, <2>1, <2>2 DEF TornDown
    <2> QED BY <2>3, <2>4
  <1> QED
    BY <1>1, <1>2, <1>3, <1>4, <1>5, <1>6, <1>7, <1>8, <1>9, <1>10, <1>11, <1>12, <1>13, <1>14,
       <1>15, RoutesHandle, RoutesDisconnect
    DEF Next, TaskStep, ConnStep, WriteInterrupted

-----------------------------------------------------------------------------
LEMMA InitIInv2 == Init => IInv2
  <1> SUFFICES ASSUME Init PROVE IInv2
    OBVIOUS
  <1>1. Began = {} /\ Cardinality(Began) = 0
    BY FS_EmptySet DEF Init, Began
  <1>2. Ids
    BY <1>1 DEF Init, Ids
  <1>3. \A c \in Call : pc[c] \in {"init", "done"}
    BY DEF Init, Task
  <1>4. \A c \in Unary : mailbox[c] = <<>>
    BY DEF Init, Call
  <1>5. Registry
    BY <1>3, <1>4 DEF Init, Registry, Entries, Awaited, Phases, Answers
  <1>6. TornDown
    BY DEF Init, TornDown
  <1> QED BY <1>2, <1>5, <1>6, InitIInv DEF IInv2

LEMMA IInv2Step == ASSUME NoWrap PROVE IInv2 /\ [Next]_vars => IInv2'
  <1>1. IInv2 /\ Next => IInv2'
    BY IInvStep, IdsStep, RoutesStep DEF IInv2
  <1>2. IInv2 /\ UNCHANGED vars => IInv2'
    <2> SUFFICES ASSUME IInv2, UNCHANGED vars PROVE IInv2'
      OBVIOUS
    <2>1. UNCHANGED <<pc, id, next_stream_id, streams, mailbox, peerDone, run, wstate>>
      BY DEF vars, clientVars, writerVars, peerVars
    <2>2. IInv' /\ Ids' /\ Registry' /\ TornDown'
      BY <2>1, IInvStep, IdsKept, RoutesKept DEF IInv2
    <2> QED BY <2>2 DEF IInv2
  <1> QED BY <1>1, <1>2

(* IInv2 holds in every reachable state when no stream id is given out       *)
(* twice: ids, registry and mailboxes agree, before and after teardown.      *)
THEOREM RoutesInvariance == ASSUME NoWrap PROVE Spec => []IInv2
  BY InitIInv2, IInv2Step, PTL DEF Spec

(* The registry holds no entry but that of a call which owns the id and can  *)
(* still receive, however calls end (StreamRegistrationGuard, StreamReceiver *)
(* drop, send_result, disconnect).                                           *)
THEOREM RegistryIsExact == ASSUME NoWrap PROVE Spec => []RegistryExact
  <1>1. IInv2 => RegistryExact
    BY DEF IInv2, IInv, Registry, Entries, RegistryExact
  <1> QED BY <1>1, RoutesInvariance, PTL

(* After disconnect() every call that got as far as the channel has an item  *)
(* to read or no sender left: registering before reserving and awaiting the  *)
(* writer before disconnect() leave no window (client.rs, connection.rs).    *)
THEOREM TeardownIsComplete == ASSUME NoWrap PROVE Spec => []TeardownReachesAll
  <1>1. IInv2 => TeardownReachesAll
    <2> SUFFICES ASSUME IInv2, run = "end" /\ wstate # "ok", NEW c \in Call
                 PROVE  /\ pc[c] \in {"permit", "wait"} => mailbox[c] # <<>>
                        /\ pc[c] = "open" => mailbox[c] # <<>> \/ SendersGone(c)
      BY DEF TeardownReachesAll
    <2>1. pc[c] \in {"permit", "wait"} => mailbox[c] # <<>>
      BY DEF IInv2, TornDown
    <2>2. ASSUME pc[c] = "open", mailbox[c] = <<>> PROVE SendersGone(c)
      <3>1. c # NoCall
        BY TaskAssumption DEF Task
      <3>2. \A i \in Id : streams[i] # c
        BY <2>2, <3>1 DEF IInv2, TornDown
      <3>3. wmsg = NoCall /\ chan = <<>>
        BY DEF IInv2, IInv, Writer, Ended
      <3>4. ~Controlled(c)
        BY <2>2 DEF IInv2, Registry, Phases, Controlled
      <3> QED BY <3>1, <3>2, <3>3, <3>4 DEF SendersGone
    <2> QED BY <2>1, <2>2
  <1> QED BY <1>1, RoutesInvariance, PTL

-----------------------------------------------------------------------------
(* The state of a call in UnaryCalls, read off its control point.            *)
Idle == {"init", "done"}

(* The results other than an error.                                          *)
Told == {"none", "answered", "crossed"}

LEMMA CallSame ==
  ASSUME \A c \in Unary : /\ result'[c] = result[c] /\ peerDone'[c] = peerDone[c]
                          /\ pc'[c] \in Idle <=> pc[c] \in Idle
  PROVE  UNCHANGED Calls!callVars
  <1>1. CallView' = CallView
    BY DEF CallView, Idle
  <1>2. {c \in Unary : peerDone'[c]} = {c \in Unary : peerDone[c]}
    OBVIOUS
  <1> QED BY <1>1, <1>2 DEF Calls!callVars

LEMMA CallChange ==
  ASSUME NEW c \in Unary,
         \A d \in Unary : d # c => pc'[d] = pc[d] /\ result'[d] = result[d]
  PROVE  CallView' = [CallView EXCEPT ![c] = CallView'[c]]
  <1>1. \A d \in Unary : d # c => CallView'[d] = CallView[d]
    BY DEF CallView
  <1>2. /\ CallView = [d \in Unary |-> CallView[d]]
        /\ CallView' = [d \in Unary |-> CallView'[d]]
    BY DEF CallView
  <1> QED BY <1>1, <1>2

LEMMA CallValue ==
  ASSUME NEW c \in Unary
  PROVE  /\ result[c] = "none" /\ pc[c] \in Idle => CallView[c] = "idle"
         /\ result[c] = "none" /\ pc[c] \notin Idle => CallView[c] = "pending"
         /\ result[c] = "answered" => CallView[c] = "ok"
         /\ result[c] = "crossed" => CallView[c] = "crossed"
         /\ result[c] \notin Told => CallView[c] = "failed"
  BY DEF CallView, Idle, Told

LEMMA CallValueNext ==
  ASSUME NEW c \in Unary
  PROVE  /\ result'[c] = "none" /\ pc'[c] \notin Idle => CallView'[c] = "pending"
         /\ result'[c] = "answered" => CallView'[c] = "ok"
         /\ result'[c] \notin Told => CallView'[c] = "failed"
  BY DEF CallView, Idle, Told

(* Returning an error is Fail; returning the peer's answer is Succeed.       *)
LEMMA CallReturns ==
  ASSUME IInv, NEW c \in Unary, pc[c] # "done", NEW r, Return(c, r), peerDone' = peerDone,
         r \notin Told \/ (r = "answered" /\ peerDone[c] /\ pc[c] # "init")
  PROVE  Calls!CallNext
  <1>1. c \in Task /\ Unary \subseteq Task
    BY DEF Task, Call
  <1>2. /\ result'[c] = r /\ result[c] = "none"
        /\ \A d \in Unary : d # c => pc'[d] = pc[d] /\ result'[d] = result[d]
    BY <1>1 DEF Return, IInv, TypeOK, Tasks
  <1>3. CallView' = [CallView EXCEPT ![c] = CallView'[c]] /\ CallView[c] \in {"idle", "pending"}
    BY <1>2, CallChange, CallValue
  <1>4. {d \in Unary : peerDone'[d]} = {d \in Unary : peerDone[d]}
    OBVIOUS
  <1>5. CASE r \notin Told
    <2>1. CallView'[c] = "failed"
      BY <1>2, <1>5, CallValueNext
    <2> QED BY <1>3, <1>4, <2>1 DEF Calls!CallNext, Calls!Fail
  <1>6. CASE r = "answered" /\ peerDone[c] /\ pc[c] # "init"
    <2>1. CallView'[c] = "ok" /\ CallView[c] = "pending"
      BY <1>2, <1>6, CallValueNext, CallValue DEF Idle
    <2> QED BY <1>3, <1>4, <1>6, <2>1 DEF Calls!CallNext, Calls!Succeed
  <1> QED BY <1>5, <1>6

(* A task that is not a unary call returns: nothing to see for UnaryCalls.   *)
LEMMA OtherMoves ==
  ASSUME IInv, NEW t \in Task \ Unary, peerDone' = peerDone,
         \A u \in Task : u # t => pc'[u] = pc[u] /\ result'[u] = result[u]
  PROVE  UNCHANGED Calls!callVars
  <1>1. \A c \in Unary : pc'[c] = pc[c] /\ result'[c] = result[c]
    BY DEF Task, Call
  <1> QED BY <1>1, CallSame

LEMMA CallLeaves ==
  ASSUME IInv, NEW t \in Task, pc[t] # "done", NEW r \in Result \ Told,
         Return(t, r), peerDone' = peerDone
  PROVE  [Calls!CallNext]_(Calls!callVars)
  <1>1. CASE t \in Unary
    BY <1>1, CallReturns
  <1>2. CASE t \notin Unary
    <2>1. \A u \in Task : u # t => pc'[u] = pc[u] /\ result'[u] = result[u]
      BY DEF Return, IInv, TypeOK
    <2> QED BY <1>2, <2>1, OtherMoves
  <1> QED BY <1>1, <1>2

LEMMA CallMoves ==
  ASSUME IInv, NEW t \in Task, pc[t] \notin Idle, NEW q, q \notin Idle,
         pc' = [pc EXCEPT ![t] = q], UNCHANGED <<result, peerDone>>
  PROVE  UNCHANGED Calls!callVars
  <1>1. \A c \in Unary : pc'[c] = IF c = t THEN q ELSE pc[c]
    BY DEF IInv, TypeOK, Task, Call
  <1> QED BY <1>1, CallSame

(* Every step of the client is a step of UnaryCalls or leaves the calls as   *)
(* they are. Two cases are deep: an answer is routed to the call the peer    *)
(* answered, after that call was made; and an item other than an error that  *)
(* a caller takes from its mailbox is that answer.                           *)
LEMMA CallStep ==
  ASSUME IInv2, Next PROVE [Calls!CallNext]_(Calls!callVars)
  <1> USE TaskAssumption DEF clientVars, streamVars, chanVars, writerVars, peerVars
  <1>0. IInv /\ TypeOK /\ Tasks
    BY DEF IInv2, IInv
  <1>1. CASE UNCHANGED <<pc, result, peerDone>>
    BY <1>1, CallSame
  <1>2. ASSUME NEW c \in Call, Begin(c) PROVE [Calls!CallNext]_(Calls!callVars)
    <2>1. c \in Task /\ pc[c] = "init" /\ peerDone' = peerDone
      BY <1>2 DEF Begin, Task
    <2>2. CASE Return(c, "rejected")
      BY <1>0, <2>1, <2>2, CallLeaves DEF Result, Told
    <2>3. CASE pc' = [pc EXCEPT ![c] = "register"] /\ UNCHANGED result
      <3>1. \A u \in Task : pc'[u] = IF u = c THEN "register" ELSE pc[u]
        BY <1>0, <2>3 DEF TypeOK
      <3>2. CASE c \in Unary
        <4>1. result[c] = "none" /\ result'[c] = "none" /\ pc[c] \in Idle /\ pc'[c] \notin Idle
          BY <1>0, <2>1, <2>3, <3>1 DEF Tasks, Idle
        <4>2. CallView[c] = "idle" /\ CallView'[c] = "pending"
          BY <3>2, <4>1, CallValue, CallValueNext
        <4>3. CallView' = [CallView EXCEPT ![c] = CallView'[c]]
          BY <2>3, <3>1, <3>2, CallChange DEF Task, Call
        <4>4. {d \in Unary : peerDone'[d]} = {d \in Unary : peerDone[d]}
          BY <2>1
        <4> QED BY <3>2, <4>2, <4>3, <4>4 DEF Calls!CallNext, Calls!Invoke
      <3>3. CASE c \notin Unary
        BY <1>0, <2>1, <2>3, <3>1, <3>3, OtherMoves
      <3> QED BY <3>2, <3>3
    <2> QED BY <1>2, <2>2, <2>3 DEF Begin
  <1>3. ASSUME NEW s \in Send, StartSend(s) PROVE [Calls!CallNext]_(Calls!callVars)
    <2>1. s \in Task \ Unary /\ peerDone' = peerDone
      BY <1>3 DEF StartSend, Task, Call
    <2>2. \A u \in Task : u # s => pc'[u] = pc[u] /\ result'[u] = result[u]
      BY <1>0, <1>3 DEF TypeOK, StartSend, Return
    <2> QED BY <1>0, <2>1, <2>2, OtherMoves
  <1>4. ASSUME NEW c \in Call, Register(c) PROVE [Calls!CallNext]_(Calls!callVars)
    BY <1>0, <1>4, CallMoves DEF Register, Idle, Task
  <1>5. ASSUME NEW t \in Task, Reserve(t) PROVE [Calls!CallNext]_(Calls!callVars)
    <2>1. pc[t] = "reserve" /\ peerDone' = peerDone
      BY <1>5 DEF Reserve
    <2>2. CASE Abandon(t, "closed")
      BY <1>0, <2>1, <2>2, CallLeaves DEF Abandon, Result, Told
    <2>3. CASE pc' = [pc EXCEPT ![t] = "permit"] /\ UNCHANGED result
      BY <1>0, <2>1, <2>3, CallMoves DEF Idle
    <2> QED BY <1>5, <2>2, <2>3 DEF Reserve
  <1>6. ASSUME NEW t \in Task, Enqueue(t) PROVE [Calls!CallNext]_(Calls!callVars)
    <2>1. PICK q \in {"wait", "open", "ack"} : pc' = [pc EXCEPT ![t] = q]
      BY <1>6 DEF Enqueue, Task, Call
    <2>2. pc[t] \notin Idle /\ q \notin Idle /\ UNCHANGED <<result, peerDone>>
      BY <1>6 DEF Enqueue, Idle
    <2> QED BY <1>0, <2>1, <2>2, CallMoves
  <1>7. ASSUME NEW t \in Task, Timeout(t) \/ RecvNone(t) \/ TransformFails(t) \/ Cancel(t)
        PROVE  [Calls!CallNext]_(Calls!callVars)
    <2>1. pc[t] # "done" /\ peerDone' = peerDone
      BY <1>7 DEF Timeout, RecvNone, TransformFails, Cancel, Suspended
    <2>2. PICK r \in Result \ Told : Return(t, r)
      BY <1>7 DEF Timeout, RecvNone, TransformFails, Cancel, Abandon, Result, Told
    <2> QED BY <1>0, <2>1, <2>2, CallLeaves
  <1>8. ASSUME NEW s \in Send, RecvAck(s) PROVE [Calls!CallNext]_(Calls!callVars)
    <2>1. s \in Task /\ pc[s] # "done" /\ peerDone' = peerDone
      BY <1>8 DEF RecvAck, Task
    <2>2. PICK r \in Result \ Told : Return(s, r)
      BY <1>8 DEF RecvAck, Result, Told
    <2> QED BY <1>0, <2>1, <2>2, CallLeaves
  <1>9. ASSUME NEW c \in Task, RecvResult(c) PROVE [Calls!CallNext]_(Calls!callVars)
    <2>1. c \in Unary /\ c \in Call /\ pc[c] = "wait" /\ mailbox[c] # <<>> /\ peerDone' = peerDone
      BY <1>9 DEF RecvResult, Call
    <2>2. CASE Head(mailbox[c]).kind = "err"
      <3>1. Return(c, "failed")
        BY <1>9, <2>2 DEF RecvResult
      <3> QED BY <1>0, <2>1, <3>1, CallReturns DEF Told
    <2>3. CASE Head(mailbox[c]).kind # "err"
      <3>1. mailbox[c] \in Seq(Item)
        BY <1>0, <2>1 DEF TypeOK
      <3>2. 1 \in 1..Len(mailbox[c]) /\ Head(mailbox[c]) = mailbox[c][1]
        BY <2>1, <3>1
      <3>3. peerDone[c] /\ Head(mailbox[c]).call = c
        BY <2>1, <2>3, <3>2 DEF IInv2, Registry, Answers
      <3>4. Return(c, "answered")
        BY <1>9, <2>3, <3>3 DEF RecvResult
      <3> QED BY <1>0, <2>1, <3>3, <3>4, CallReturns DEF Told
    <2> QED BY <2>2, <2>3
  <1>10. ASSUME NEW c \in Open, DropReceiver(c) PROVE [Calls!CallNext]_(Calls!callVars)
    <2>1. c \in Task \ Unary /\ peerDone' = peerDone
      BY <1>10 DEF DropReceiver, Task, Call
    <2>2. \A u \in Task : u # c => pc'[u] = pc[u] /\ result'[u] = result[u]
      BY <1>0, <1>10 DEF TypeOK, DropReceiver
    <2> QED BY <1>0, <2>1, <2>2, OtherMoves
  <1>11. ASSUME NEW t \in Task, Expire(t) PROVE UNCHANGED <<pc, result, peerDone>>
    BY <1>11 DEF Expire
  <1>12. ASSUME NEW c \in Open, StreamRecv(c) \/ DropSender(c)
         PROVE  UNCHANGED <<pc, result, peerDone>>
    BY <1>12 DEF StreamRecv, DropSender
  <1>13. CASE DropClient \/ WriterRecv \/ WriterNone \/ WriteOk \/ WriteFails \/ SelectWriter
              \/ SelectRead \/ AwaitWriter \/ Disconnect \/ ReadError
    BY <1>1, <1>13 DEF DropClient, WriterRecv, WriterNone, WriteOk, WriteFails, SelectWriter,
                       SelectRead, AwaitWriter, Disconnect, ReadError
  <1>14. ASSUME NEW c \in Call, NEW kind \in {"response", "data", "last", "bad"},
                HandleMsg(c, kind)
         PROVE  [Calls!CallNext]_(Calls!callVars)
    <2>1. UNCHANGED <<pc, result>> /\ c \in Handed
      BY <1>0, <1>14 DEF HandleMsg, PeerSends, Tasks
    <2>2. peerDone' = [peerDone EXCEPT ![c] = c \in Unary \/ kind \in {"response", "last"}]
      BY <1>14 DEF HandleMsg, PeerSends
    <2>3. peerDone \in [Call -> BOOLEAN] /\ Unary \subseteq Call
      BY <1>0 DEF TypeOK, Call
    <2>4. \A d \in Call : peerDone'[d] = IF d = c THEN c \in Unary \/ kind \in {"response", "last"}
                                         ELSE peerDone[d]
      BY <2>2, <2>3
    <2>5. CASE c \in Unary
      <3>1. {d \in Unary : peerDone'[d]} = {d \in Unary : peerDone[d]} \cup {c}
        BY <2>3, <2>4, <2>5, ZenonT(40)
      <3>2. CallView' = CallView
        BY <2>1 DEF CallView
      <3>3. CallView[c] # "idle"
        <4>1. result[c] # "none" \/ (result[c] = "none" /\ pc[c] \notin Idle)
          BY <2>1, <2>5 DEF Handed, Idle
        <4> QED BY <2>5, <4>1, CallValue DEF Told
      <3> QED BY <2>5, <3>1, <3>2, <3>3 DEF Calls!CallNext, Calls!Produce
    <2>6. CASE c \notin Unary
      <3>1. \A d \in Unary : peerDone'[d] = peerDone[d]
        BY <2>3, <2>4, <2>6
      <3> QED BY <2>1, <3>1, CallSame
    <2> QED BY <2>5, <2>6
  <1> QED
    BY <1>1, <1>2, <1>3, <1>4, <1>5, <1>6, <1>7, <1>8, <1>9, <1>10, <1>11, <1>12, <1>13, <1>14
    DEF Next, TaskStep, ConnStep, WriteInterrupted

(* The asynchronous client implements UnaryCalls: request() ends at most     *)
(* once and succeeds only with the answer the peer gave to this very call.   *)
THEOREM Refinement == ASSUME NoWrap PROVE Spec => CallsRefine
  <1>1. Init => Calls!CallInit
    <2> SUFFICES ASSUME Init PROVE Calls!CallInit
      OBVIOUS
    <2>1. \A c \in Unary : result[c] = "none" /\ pc[c] \in Idle /\ ~peerDone[c]
      BY DEF Init, Task, Call, Idle
    <2>2. \A c \in Unary : CallView[c] = "idle"
      BY <2>1, CallValue
    <2>3. CallView = [c \in Unary |-> CallView[c]]
      BY DEF CallView
    <2> QED BY <2>1, <2>2, <2>3 DEF Calls!CallInit
  <1>2. IInv2 /\ [Next]_vars => [Calls!CallNext]_(Calls!callVars)
    <2> SUFFICES ASSUME IInv2, [Next]_vars PROVE [Calls!CallNext]_(Calls!callVars)
      OBVIOUS
    <2>1. CASE UNCHANGED vars
      BY <2>1, CallSame DEF vars, clientVars, peerVars
    <2> QED BY <2>1, CallStep
  <1> QED BY <1>1, <1>2, RoutesInvariance, PTL DEF Spec, CallsRefine, Calls!CallSpec
=============================================================================
