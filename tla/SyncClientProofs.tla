--------------------------- MODULE SyncClientProofs ---------------------------
(***************************************************************************)
(* Proofs about the synchronous client, for any finite set of callers, any *)
(* traffic of the peer and both platforms: the map of pending requests,    *)
(* the life time of the descriptor, and that the client implements         *)
(* UnaryCalls.                                                             *)
(***************************************************************************)
EXTENDS SyncClient, FiniteSetTheorems, TLAPS

(* Who holds what. A client exists between its construction and the drop of  *)
(* its last clone, a call borrows a clone, and the descriptor is closed only *)
(* when no clone and no upgraded reference is left.                          *)
Owners ==
  /\ snd = "new" => held = {} /\ \A c \in Caller : pc[c] = "idle"
  /\ snd = "new" <=> rcv = "new"
  /\ snd = "ended" => held = {}
  /\ \A c \in Caller : InCall(c) => c \in held
  /\ strong <=> rcv = "ready"
  /\ fd = "closed" =>
       /\ held = {} /\ ~strong /\ snd # "new"
       /\ os = "windows" => Gone(rcv) /\ Gone(snd)

(* A request on its way to the map: its caller waits or has timed out.       *)
Unheard(c) == InCall(c) \/ (pc[c] = "done" /\ result[c] = "timeout")

(* The request goes from the queue through the sender's hands into the map;  *)
(* until it is there only a timeout can end its call.                        *)
Requests ==
  /\ \A c \in Caller : pc[c] = "idle" => id[c] = 0
  /\ \A k \in 1..Len(queue) : Unheard(queue[k]) /\ id[queue[k]] = 0
  /\ \A j, k \in 1..Len(queue) : queue[j] = queue[k] => j = k
  /\ snd \in {"insert", "write", "remove", "reply"} => cur \in Caller /\ id[cur] \in Id
  /\ snd = "insert" => Unheard(cur) /\ \A i \in Id : recver_map[i] # cur
  /\ snd = "reply" => recver_map[id[cur]] = None

(* The mutex, and what the receiver knows while it holds it.                 *)
Mutex ==
  /\ locked => rcv \in {"send", "drain"}
  /\ rcv = "send" => locked /\ Known
  /\ rcv = "drain" /\ locked => \A i \in drain : recver_map[i] # None

(* The entries, with the one moment at which an ended call has one that no   *)
(* timeout and no malformed packet explains: the drain.                      *)
Entries ==
  \A i \in Id : recver_map[i] # None =>
    /\ id[recver_map[i]] = i
    /\ pc[recver_map[i]] = "done" =>
         \/ result[recver_map[i]] \in {"timeout", "malformed"}
         \/ rcv = "drain" /\ locked

(* Stream ids are given out once: the counter does not wrap while there are  *)
(* fewer callers than ids.                                                   *)
Taken == {c \in Caller : id[c] # 0}
Ids ==
  /\ stream_id = 2 * Cardinality(Taken) + 1
  /\ \A c \in Caller : id[c] < stream_id
  /\ \A c, d \in Caller : id[c] = id[d] /\ id[c] # 0 => c = d

(* What the peer has and what it sent: an answer carries the id of the       *)
(* request that it answers.                                                  *)
Honest(f) == f.body # None => f.body \in answered /\ f.id # 0 /\ id[f.body] = f.id
Traffic ==
  /\ \A i \in Id : sent[i] # None => id[sent[i]] = i
  /\ \A k \in 1..Len(inbox) : Honest(inbox[k])
  /\ Honest(frame)
  /\ rcv = "body" => inbox # <<>>

IInv == TypeOK /\ Owners /\ Requests /\ Mutex /\ Entries /\ Ids /\ Traffic

-----------------------------------------------------------------------------
LEMMA SmallMod ==
  ASSUME NEW a \in Nat, NEW b \in Nat, a < b PROVE a % b = a
  OBVIOUS

LEMMA IdNotZero == \A i \in Id : i # 0
  BY BoundAssumption DEF Id

(* The next id is a new one, and the counter stays below its limit.          *)
LEMMA FreshId ==
  ASSUME IInv, SenderTake
  PROVE  /\ cur' = queue[1] /\ cur' \in Caller /\ id[cur'] = 0 /\ Unheard(cur')
         /\ stream_id' = stream_id + 2 /\ stream_id' \in Id
         /\ Taken' = Taken \cup {cur'} /\ Cardinality(Taken') = Cardinality(Taken) + 1
  <1>1. cur' = queue[1] /\ cur' \in Caller /\ id[cur'] = 0 /\ Unheard(cur')
    BY DEF IInv, TypeOK, Requests, SenderTake
  <1>2. Taken' = Taken \cup {cur'} /\ cur' \notin Taken
    BY <1>1 DEF IInv, TypeOK, Taken, SenderTake, Id
  <1>3. IsFiniteSet(Taken) /\ IsFiniteSet(Taken')
    BY CallerAssumption, FS_Subset DEF Taken
  <1>4. Cardinality(Taken') = Cardinality(Taken) + 1
    BY <1>2, <1>3, FS_AddElement
  <1>5. /\ Cardinality(Taken') <= Cardinality(Caller)
        /\ Cardinality(Taken) \in Nat /\ Cardinality(Caller) \in Nat
    BY <1>3, CallerAssumption, FS_Subset, FS_CardinalityType DEF Taken
  <1>6. stream_id + 2 < IdSpace
    <2> DEFINE n == Cardinality(Taken)
    <2>1. stream_id + 2 = 2 * n + 3 /\ n \in Nat /\ 2 * n + 2 < IdSpace
      BY <1>4, <1>5, BoundAssumption DEF IInv, Ids
    <2> HIDE DEF n
    <2> QED BY <2>1, BoundAssumption
  <1>7. stream_id' = stream_id + 2
    <2>1. stream_id \in Nat /\ stream_id' = (stream_id + 2) % IdSpace
      BY DEF SenderTake, IInv, TypeOK, Id
    <2> QED BY <2>1, <1>6, SmallMod, BoundAssumption
  <1>8. stream_id' \in Id
    BY <1>6, <1>7, BoundAssumption DEF IInv, TypeOK, Id
  <1> QED BY <1>1, <1>2, <1>4, <1>7, <1>8

-----------------------------------------------------------------------------
(* Types.                                                                    *)
LEMMA SendToType ==
  ASSUME NEW c \in Caller, NEW r \in Caller \cup Failure, SendTo(c, r),
         pc \in [Caller -> {"idle", "called", "recv", "done"}],
         result \in [Caller -> {None} \cup Caller \cup Failure]
  PROVE  /\ pc' \in [Caller -> {"idle", "called", "recv", "done"}]
         /\ result' \in [Caller -> {None} \cup Caller \cup Failure]
  BY DEF SendTo

LEMMA TypeStep ==
  ASSUME IInv, Next PROVE TypeOK'
  <1> USE CallerAssumption DEF IInv, TypeOK, callerVars, sndVars, mapVars, rcvVars, peerVars
  <1>1. CASE Connect \/ ConnectFails \/ HookRejects \/ NewClient
    BY <1>1 DEF Connect, ConnectFails, HookRejects, NewClient
  <1>2. ASSUME NEW c \in Caller, Request(c) \/ RequestOversized(c) PROVE TypeOK'
    <2>1. CASE Request(c)
      BY <2>1 DEF Request
    <2>2. CASE RequestOversized(c)
      BY <2>2 DEF RequestOversized, Failure
    <2> QED BY <1>2, <2>1, <2>2
  <1>3. ASSUME NEW c \in Caller, CallerStep(c) \/ DropClient(c) PROVE TypeOK'
    <2>1. CASE Recv(c)
      BY <2>1 DEF Recv
    <2>2. CASE RecvTimeout(c)
      BY <2>2 DEF RecvTimeout, Failure
    <2>3. CASE DropClient(c)
      BY <2>3 DEF DropClient, DropOwner
    <2> QED BY <1>3, <2>1, <2>2, <2>3 DEF CallerStep
  <1>4. ASSUME NEW c \in Caller, NEW r \in Caller \cup Failure, SendTo(c, r)
        PROVE  pc' \in [Caller -> {"idle", "called", "recv", "done"}]
               /\ result' \in [Caller -> {None} \cup Caller \cup Failure]
    BY <1>4, SendToType
  <1>5. CASE SenderStep \/ Write
    <2>1. CASE SenderTake
      <3>1. cur' \in Caller /\ stream_id' \in Id
        BY <2>1, FreshId
      <3>2. queue' \in Seq(Caller) /\ id' \in [Caller -> Id \cup {0}]
        BY <2>1, <3>1 DEF SenderTake
      <3> QED BY <2>1, <3>1, <3>2 DEF SenderTake
    <2>2. CASE SenderEnds
      BY <2>2 DEF SenderEnds, CloseWithLast
    <2>3. CASE SenderInsert
      BY <2>3 DEF SenderInsert, Requests
    <2>4. CASE WriteOk
      BY <2>4 DEF WriteOk, Requests
    <2>5. CASE WriteFails
      BY <2>5 DEF WriteFails
    <2>6. CASE SenderRemove
      BY <2>6 DEF SenderRemove, Requests
    <2>7. CASE SenderReply
      <3>1. cur \in Caller /\ SendTo(cur, "error")
        BY <2>7 DEF SenderReply, Requests
      <3>2. /\ pc' \in [Caller -> {"idle", "called", "recv", "done"}]
            /\ result' \in [Caller -> {None} \cup Caller \cup Failure]
        BY <3>1, <1>4 DEF Failure
      <3> QED BY <2>7, <3>2 DEF SenderReply
    <2> QED BY <1>5, <2>1, <2>2, <2>3, <2>4, <2>5, <2>6, <2>7 DEF SenderStep, Write
  <1>6. CASE Upgrade \/ UpgradeFails
    BY <1>6, ZenonT(40) DEF Upgrade, UpgradeFails, CloseWithLast
  <1>7. ASSUME NEW to \in {"upgrade", "read", "broken"}, Release(to) PROVE TypeOK'
    BY <1>7 DEF Release, DropOwner
  <1>8. CASE ReadBlocks \/ ReadFrame \/ ReadTruncated \/ ReadError \/ ReadForeign \/ ForeignReturns
    <2>1. CASE ReadBlocks \/ ReadError \/ ReadForeign \/ ForeignReturns
      BY <2>1 DEF ReadBlocks, ReadError, ReadForeign, ForeignReturns
    <2>2. CASE ReadFrame
      <3>1. Head(inbox) \in Frame /\ Tail(inbox) \in Seq(Frame)
        BY <2>2 DEF ReadFrame
      <3> QED BY <2>2, <3>1 DEF ReadFrame
    <2>3. CASE ReadTruncated
      <3>1. inbox # <<>>
        BY <2>3 DEF ReadTruncated, Traffic
      <3> QED BY <2>3, <3>1 DEF ReadTruncated
    <2> QED BY <1>8, <2>1, <2>2, <2>3
  <1>9. CASE TransUnknown \/ TransLock \/ TransSend
    <2>1. CASE TransUnknown \/ TransLock
      BY <2>1, ZenonT(40) DEF TransUnknown, TransLock
    <2>2. CASE TransSend
      <3>1. frame.id \in Id /\ recver_map[frame.id] \in Caller
        BY <2>2 DEF TransSend, Mutex, Known, Frame
      <3>2. Outcome \in Caller \cup Failure
        BY DEF Outcome, Failure, Frame
      <3>3. /\ pc' \in [Caller -> {"idle", "called", "recv", "done"}]
            /\ result' \in [Caller -> {None} \cup Caller \cup Failure]
        BY <2>2, <3>1, <3>2, <1>4 DEF TransSend
      <3> QED BY <2>2, <3>1, <3>3 DEF TransSend
    <2> QED BY <1>9, <2>1, <2>2
  <1>10. CASE DrainLock \/ DrainEnd
    <2>1. CASE DrainLock
      BY <2>1 DEF DrainLock
    <2>2. CASE DrainEnd
      BY <2>2 DEF DrainEnd, CloseWithLast
    <2> QED BY <1>10, <2>1, <2>2
  <1>11. ASSUME NEW i \in Id, DrainSend(i) PROVE TypeOK'
    <2>1. recver_map[i] \in Caller
      BY <1>11 DEF DrainSend, Mutex
    <2>2. /\ pc' \in [Caller -> {"idle", "called", "recv", "done"}]
          /\ result' \in [Caller -> {None} \cup Caller \cup Failure]
      BY <1>11, <2>1, <1>4 DEF DrainSend, Failure
    <2> QED BY <1>11, <2>2 DEF DrainSend
  <1>12. ASSUME NEW f \in Frame, Begin(f)
         PROVE  inbox' \in Seq(Frame) /\ frames' \in 0..MaxFrames
    BY <1>12, BoundAssumption DEF Begin
  <1>13. ASSUME NEW i \in Id, PeerAnswers(i) PROVE TypeOK'
    <2>1. PICK w \in BOOLEAN :
            Begin([id |-> i, response |-> TRUE, body |-> sent[i], whole |-> w])
      BY <1>13 DEF PeerAnswers
    <2>2. [id |-> i, response |-> TRUE, body |-> sent[i], whole |-> w] \in Frame
      BY DEF Frame
    <2> QED BY <1>13, <2>1, <2>2, <1>12 DEF PeerAnswers
  <1>14. ASSUME NEW i \in Id \cup {0}, PeerMisbehaves(i) PROVE TypeOK'
    <2>1. PICK w \in BOOLEAN, r \in BOOLEAN :
            Begin([id |-> i, response |-> r, body |-> None, whole |-> w])
      BY <1>14 DEF PeerMisbehaves
    <2>2. [id |-> i, response |-> r, body |-> None, whole |-> w] \in Frame
      BY DEF Frame
    <2> QED BY <1>14, <2>1, <2>2, <1>12 DEF PeerMisbehaves
  <1>15. CASE PeerFinishes \/ PeerCloses
    <2>1. CASE PeerFinishes
      <3>1. Len(inbox) \in 1..Len(inbox) /\ inbox[Len(inbox)] \in Frame
        BY <2>1 DEF PeerFinishes
      <3>2. [inbox[Len(inbox)] EXCEPT !.whole = TRUE] \in Frame
        BY <3>1 DEF Frame
      <3>3. inbox' \in Seq(Frame)
        BY <2>1, <3>1, <3>2 DEF PeerFinishes
      <3> QED BY <2>1, <3>3 DEF PeerFinishes
    <2>2. CASE PeerCloses
      BY <2>2 DEF PeerCloses
    <2> QED BY <1>15, <2>1, <2>2
  <1> QED
    BY <1>1, <1>2, <1>3, <1>5, <1>6, <1>7, <1>8, <1>9, <1>10, <1>11, <1>13, <1>14, <1>15
    DEF Next, ReceiverStep, ReadyNone, ReadyInterrupted, ReadySome, ReadyError, Peer

-----------------------------------------------------------------------------
(* A rendezvous changes the state of one caller, which has made its call.    *)
LEMMA SendToOne ==
  ASSUME TypeOK, NEW c \in Caller, NEW r, SendTo(c, r)
  PROVE  /\ pc[c] \in {"recv", "done"} /\ pc'[c] = "done"
         /\ \A d \in Caller : d # c => pc'[d] = pc[d] /\ result'[d] = result[d]
         /\ \A d \in Caller : pc'[d] = "idle" => pc[d] = "idle"
         /\ pc[c] = "recv" => result'[c] = r
         /\ pc[c] = "done" => result'[c] = result[c]
  <1>1. result' = result \/ result' = [result EXCEPT ![c] = r]
    BY DEF SendTo
  <1> QED BY <1>1 DEF SendTo, TypeOK

(* Sending to the owner of an entry disturbs no request that is still on its *)
(* way: those have no entry.                                                 *)
LEMMA SendToEntry ==
  ASSUME IInv, NEW i \in Id, NEW r, recver_map[i] # None, SendTo(recver_map[i], r),
         UNCHANGED <<queue, cur, id, snd>>,
         \A j \in Id : recver_map'[j] \in {recver_map[j], None}
  PROVE  Requests'
  <1> DEFINE c == recver_map[i]
  <1>1. c \in Caller /\ id[c] = i /\ i # 0
    BY DEF IInv, TypeOK, Entries, Id
  <1>2. /\ \A d \in Caller : d # c => (Unheard(d) => Unheard(d)')
        /\ \A d \in Caller : pc'[d] = "idle" => pc[d] = "idle"
    BY <1>1, SendToOne DEF IInv, Unheard, InCall
  <1>3. \A k \in 1..Len(queue) : queue[k] \in Caller /\ queue[k] # c
    BY <1>1 DEF IInv, TypeOK, Requests
  <1>4. snd = "insert" => cur # c
    BY DEF IInv, Requests
  <1> HIDE DEF c
  <1>5. \A k \in 1..Len(queue') : Unheard(queue[k])' /\ id'[queue'[k]] = 0
    BY <1>2, <1>3 DEF IInv, Requests, Unheard, InCall
  <1>6. snd' = "insert" => Unheard(cur)' /\ \A j \in Id : recver_map'[j] # cur'
    <2> SUFFICES ASSUME snd' = "insert" PROVE Unheard(cur)' /\ \A j \in Id : recver_map'[j] # cur'
      OBVIOUS
    <2>1. cur \in Caller /\ Unheard(cur) /\ cur' = cur
      BY DEF IInv, Requests
    <2>2. Unheard(cur)'
      BY <2>1, <1>2, <1>4 DEF Unheard, InCall
    <2> QED BY <2>1, <2>2, CallerAssumption DEF IInv, Requests
  <1>7. snd' = "reply" => recver_map'[id'[cur']] = None
    BY DEF IInv, Requests
  <1> QED BY <1>2, <1>5, <1>6, <1>7 DEF IInv, Requests, Unheard, InCall

(* The sender takes the first request: nobody has heard of it yet.           *)
LEMMA RequestTaken ==
  ASSUME IInv, SenderTake PROVE Requests'
  <1>0. TypeOK /\ Requests /\ Entries
    BY DEF IInv
  <1>1. /\ cur' = queue[1] /\ cur' \in Caller /\ 1 \in 1..Len(queue)
        /\ queue' = Tail(queue) /\ snd' = "insert" /\ queue \in Seq(Caller)
        /\ id' = [id EXCEPT ![cur'] = stream_id] /\ stream_id \in Id /\ stream_id # 0
        /\ UNCHANGED <<pc, result, recver_map>>
    BY <1>0 DEF SenderTake, TypeOK, Id, callerVars, mapVars
  <1>2. id[cur'] = 0 /\ Unheard(cur')
    BY <1>0, <1>1 DEF Requests
  <1>3. /\ Len(queue') = Len(queue) - 1 /\ Len(queue) \in Nat
        /\ \A k \in 1..Len(queue') : queue'[k] = queue[k + 1] /\ k + 1 \in 1..Len(queue) /\ k + 1 # 1
    BY <1>1
  <1>4. \A k \in 1..Len(queue') : queue'[k] # cur' /\ queue'[k] \in Caller
    BY <1>0, <1>1, <1>3 DEF Requests
  <1>5. /\ id'[cur'] = stream_id /\ \A c \in Caller : c # cur' => id'[c] = id[c]
    BY <1>0, <1>1 DEF TypeOK
  <1>7. \A k \in 1..Len(queue') : Unheard(queue[k])' /\ id'[queue'[k]] = 0
    <2> TAKE k \in 1..Len(queue')
    <2>1. Unheard(queue'[k]) /\ id[queue'[k]] = 0
      BY <1>0, <1>3 DEF Requests
    <2> QED BY <1>1, <1>4, <1>5, <2>1 DEF Unheard, InCall
  <1>8. \A j, k \in 1..Len(queue') : queue'[j] = queue'[k] => j = k
    BY <1>0, <1>3 DEF Requests
  <1>9. \A j \in Id : recver_map'[j] # cur'
    BY <1>0, <1>1, <1>2, CallerAssumption DEF Entries, Id
  <1>10. \A c \in Caller : pc'[c] = "idle" => id'[c] = 0
    <2> SUFFICES ASSUME NEW c \in Caller, pc[c] = "idle" PROVE id'[c] = 0
      BY <1>1
    <2>1. c # cur'
      BY <1>2 DEF Unheard, InCall
    <2> QED BY <1>0, <1>5, <2>1 DEF Requests
  <1>11. Unheard(cur)'
    BY <1>1, <1>2 DEF Unheard, InCall
  <1> QED BY <1>1, <1>5, <1>7, <1>8, <1>9, <1>10, <1>11 DEF Requests

(* A request moves from the queue through the sender to the map.             *)
LEMMA RequestsStep ==
  ASSUME IInv, Next PROVE Requests'
  <1> USE CallerAssumption
      DEF IInv, TypeOK, callerVars, sndVars, mapVars, rcvVars, peerVars, Requests, Unheard,
          InCall
  <1>1. CASE Connect \/ ConnectFails \/ HookRejects \/ NewClient
    BY <1>1 DEF Connect, ConnectFails, HookRejects, NewClient
  <1>2. ASSUME NEW c \in Caller, Request(c) PROVE Requests'
    <2>1. /\ Len(queue') = Len(queue) + 1 /\ queue'[Len(queue) + 1] = c
          /\ \A k \in 1..Len(queue) : queue'[k] = queue[k] /\ queue[k] # c
      BY <1>2 DEF Request
    <2>2. \A d \in Caller : d # c => pc'[d] = pc[d]
      BY <1>2 DEF Request
    <2>3. pc[c] = "idle" /\ pc'[c] = "called" /\ id[c] = 0 /\ id' = id /\ result' = result
      BY <1>2 DEF Request
    <2>4. \A k \in 1..Len(queue') : Unheard(queue[k])' /\ id'[queue'[k]] = 0
      <3> SUFFICES ASSUME NEW k \in 1..Len(queue')
                   PROVE  Unheard(queue[k])' /\ id'[queue'[k]] = 0
        OBVIOUS
      <3>1. CASE k \in 1..Len(queue)
        <4>1. queue'[k] = queue[k] /\ queue[k] \in Caller /\ queue[k] # c
              /\ Unheard(queue[k]) /\ id[queue[k]] = 0
          BY <2>1, <3>1
        <4> QED BY <4>1, <2>2, <2>3
      <3>2. CASE k = Len(queue) + 1
        BY <3>2, <2>1, <2>3
      <3> QED BY <2>1, <3>1, <3>2
    <2>5. \A j, k \in 1..Len(queue') : queue'[j] = queue'[k] => j = k
      BY <2>1, SMTT(30)
    <2>6. \A d \in Caller : pc'[d] = "idle" => id'[d] = 0
      BY <2>2, <2>3
    <2>7. snd' = "insert" => Unheard(cur)'
      <3> SUFFICES ASSUME snd' = "insert" PROVE Unheard(cur)'
        OBVIOUS
      <3>1. cur \in Caller /\ cur' = cur /\ Unheard(cur) /\ cur # c
        BY <1>2, <2>3 DEF Request, Id
      <3> QED BY <3>1, <2>2, <2>3
    <2> QED BY <1>2, <2>4, <2>5, <2>6, <2>7 DEF Request
  <1>3. ASSUME NEW c \in Caller, RequestOversized(c) PROVE Requests'
    <2>1. pc[c] = "idle" /\ id[c] = 0 /\ ~Unheard(c)
      BY <1>3 DEF RequestOversized
    <2>2. /\ \A d \in Caller : d # c => pc'[d] = pc[d] /\ result'[d] = result[d]
          /\ pc'[c] = "done"
      BY <1>3 DEF RequestOversized
    <2>3. UNCHANGED <<id, queue, snd, cur, recver_map>>
      BY <1>3 DEF RequestOversized
    <2>4. \A d \in Caller : Unheard(d) => Unheard(d)'
      BY <2>1, <2>2
    <2>5. \A k \in 1..Len(queue') : Unheard(queue[k])' /\ id'[queue'[k]] = 0
      BY <2>3, <2>4
    <2>6. snd' = "insert" => Unheard(cur)'
      BY <2>3, <2>4
    <2>7. \A d \in Caller : pc'[d] = "idle" => id'[d] = 0
      BY <2>2, <2>3
    <2> QED BY <2>3, <2>5, <2>6, <2>7
  <1>4. ASSUME NEW c \in Caller, CallerStep(c) PROVE Requests'
    <2>1. CASE Recv(c)
      BY <2>1 DEF Recv
    <2>2. CASE RecvTimeout(c)
      BY <2>2 DEF RecvTimeout
    <2> QED BY <1>4, <2>1, <2>2 DEF CallerStep
  <1>5. ASSUME NEW c \in Caller, DropClient(c) PROVE Requests'
    BY <1>5 DEF DropClient
  <1>6. CASE SenderTake
    BY <1>6, RequestTaken
  <1>7. CASE SenderEnds \/ SenderInsert \/ Write \/ SenderRemove
    BY <1>7 DEF SenderEnds, SenderInsert, Write, WriteOk, WriteFails, SenderRemove
  <1>8. CASE SenderReply
    <2>1. cur \in Caller /\ SendTo(cur, "error") /\ id[cur] # 0
      BY <1>8 DEF SenderReply, Id
    <2>2. /\ \A d \in Caller : d # cur => pc'[d] = pc[d] /\ result'[d] = result[d]
          /\ \A d \in Caller : pc'[d] = "idle" => pc[d] = "idle"
      BY <2>1, SendToOne
    <2>3. \A k \in 1..Len(queue) : queue[k] \in Caller /\ queue[k] # cur
      BY <2>1
    <2>4. \A k \in 1..Len(queue') : Unheard(queue[k])' /\ id'[queue'[k]] = 0
      BY <2>2, <2>3, <1>8 DEF SenderReply
    <2> QED BY <2>2, <2>4, <1>8, SMTT(30) DEF SenderReply
  <1>9. CASE Upgrade \/ UpgradeFails \/ ReadyNone \/ ReadySome \/ ReadyInterrupted \/ ReadyError
    BY <1>9 DEF Upgrade, UpgradeFails, ReadyNone, ReadySome, ReadyInterrupted, ReadyError,
                Release
  <1>10. CASE ReadBlocks \/ ReadFrame \/ ReadTruncated \/ ReadError \/ ReadForeign \/ ForeignReturns
    BY <1>10 DEF ReadBlocks, ReadFrame, ReadTruncated, ReadError, ReadForeign, ForeignReturns
  <1>11. CASE TransUnknown \/ TransLock \/ DrainLock \/ DrainEnd
    BY <1>11 DEF TransUnknown, TransLock, DrainLock, DrainEnd
  <1>12. CASE TransSend
    <2>1. frame.id \in Id /\ recver_map[frame.id] # None
      BY <1>12 DEF TransSend, Mutex, Known, Frame
    <2>2. \A j \in Id : recver_map'[j] \in {recver_map[j], None}
      BY <2>1, <1>12 DEF TransSend
    <2> QED BY <2>1, <2>2, <1>12, SendToEntry DEF TransSend
  <1>13. ASSUME NEW i \in Id, DrainSend(i) PROVE Requests'
    BY <1>13, SendToEntry DEF DrainSend, Mutex
  <1>14. CASE Peer
    BY <1>14 DEF Peer, PeerAnswers, PeerMisbehaves, PeerFinishes, PeerCloses
  <1> QED
    BY <1>1, <1>2, <1>3, <1>4, <1>5, <1>6, <1>7, <1>8, <1>9, <1>10, <1>11, <1>12, <1>13, <1>14
    DEF Next, SenderStep, ReceiverStep

(* Ownership: who may still use the client and its descriptor.               *)
LEMMA OwnersStep ==
  ASSUME IInv, Next PROVE Owners'
  <1> USE CallerAssumption
      DEF IInv, TypeOK, callerVars, sndVars, mapVars, rcvVars, peerVars, Owners, InCall, Gone
  <1>1. CASE Connect \/ ConnectFails \/ HookRejects \/ NewClient
    BY <1>1 DEF Connect, ConnectFails, HookRejects, NewClient
  <1>2. ASSUME NEW c \in Caller, Request(c) \/ RequestOversized(c) \/ CallerStep(c)
        PROVE  Owners'
    BY <1>2 DEF Request, RequestOversized, CallerStep, Recv, RecvTimeout
  <1>3. ASSUME NEW c \in Caller, DropClient(c) PROVE Owners'
    BY <1>3 DEF DropClient, DropOwner
  <1>4. CASE SenderStep \/ Write
    BY <1>4 DEF SenderStep, SenderTake, SenderEnds, CloseWithLast, SenderInsert, SenderRemove,
                SenderReply, SendTo, Write, WriteOk, WriteFails
  <1>5. CASE Upgrade \/ UpgradeFails
    BY <1>5 DEF Upgrade, UpgradeFails, CloseWithLast
  <1>6. CASE ReadyNone \/ ReadySome \/ ReadyInterrupted \/ ReadyError
    BY <1>6 DEF ReadyNone, ReadySome, ReadyInterrupted, ReadyError, Release, DropOwner
  <1>7. CASE ReadBlocks \/ ReadFrame \/ ReadTruncated \/ ReadError \/ ReadForeign \/ ForeignReturns
    BY <1>7 DEF ReadBlocks, ReadFrame, ReadTruncated, ReadError, ReadForeign, ForeignReturns
  <1>8. CASE TransUnknown \/ TransLock \/ TransSend
    BY <1>8 DEF TransUnknown, TransLock, TransSend, SendTo
  <1>9. CASE DrainLock \/ (\E i \in Id : DrainSend(i)) \/ DrainEnd
    BY <1>9 DEF DrainLock, DrainSend, DrainEnd, SendTo, CloseWithLast
  <1>10. CASE Peer
    BY <1>10 DEF Peer, PeerAnswers, PeerMisbehaves, PeerFinishes, PeerCloses
  <1> QED
    BY <1>1, <1>2, <1>3, <1>4, <1>5, <1>6, <1>7, <1>8, <1>9, <1>10 DEF Next, ReceiverStep

(* The receiver's mutex keeps the sender away from the entries it serves.    *)
LEMMA MutexStep ==
  ASSUME IInv, Next PROVE Mutex'
  <1> USE CallerAssumption
      DEF IInv, TypeOK, callerVars, sndVars, mapVars, rcvVars, peerVars, Mutex, Known
  <1>1. CASE Connect \/ ConnectFails \/ HookRejects \/ NewClient
    BY <1>1 DEF Connect, ConnectFails, HookRejects, NewClient, Owners
  <1>2. ASSUME NEW c \in Caller,
               Request(c) \/ RequestOversized(c) \/ CallerStep(c) \/ DropClient(c)
        PROVE  Mutex'
    BY <1>2 DEF Request, RequestOversized, CallerStep, Recv, RecvTimeout, DropClient
  <1>3. CASE SenderStep \/ Write
    BY <1>3 DEF SenderStep, SenderTake, SenderEnds, SenderInsert, SenderRemove, SenderReply,
                Write, WriteOk, WriteFails
  <1>4. CASE Upgrade \/ UpgradeFails
    BY <1>4 DEF Upgrade, UpgradeFails
  <1>5. ASSUME NEW to \in {"upgrade", "read", "broken"}, Release(to) PROVE Mutex'
    BY <1>5 DEF Release
  <1>6. CASE ReadBlocks \/ ReadFrame \/ ReadTruncated \/ ReadError \/ ReadForeign \/ ForeignReturns
    BY <1>6 DEF ReadBlocks, ReadFrame, ReadTruncated, ReadError, ReadForeign, ForeignReturns
  <1>7. CASE TransUnknown \/ TransLock \/ TransSend
    BY <1>7 DEF TransUnknown, TransLock, TransSend
  <1>8. CASE DrainLock \/ (\E i \in Id : DrainSend(i)) \/ DrainEnd
    BY <1>8 DEF DrainLock, DrainSend, DrainEnd
  <1>9. CASE Peer
    BY <1>9 DEF Peer, PeerAnswers, PeerMisbehaves, PeerFinishes, PeerCloses
  <1> QED
    BY <1>1, <1>2, <1>3, <1>4, <1>5, <1>6, <1>7, <1>8, <1>9
    DEF Next, ReceiverStep, ReadyNone, ReadySome, ReadyInterrupted, ReadyError

(* Every entry carries the id of its request, and only a timeout or a        *)
(* malformed packet ends a call that leaves its entry behind.                *)
LEMMA EntriesStep ==
  ASSUME IInv, Next PROVE Entries'
  <1> USE CallerAssumption
      DEF IInv, TypeOK, callerVars, sndVars, mapVars, rcvVars, peerVars, Entries
  <1>1. CASE Connect \/ ConnectFails \/ HookRejects \/ NewClient
    BY <1>1 DEF Connect, ConnectFails, HookRejects, NewClient, Owners
  <1>2. ASSUME NEW c \in Caller, Request(c) PROVE Entries'
    BY <1>2 DEF Request
  <1>3. ASSUME NEW c \in Caller, RequestOversized(c) PROVE Entries'
    BY <1>3 DEF RequestOversized, Requests, Id
  <1>4. ASSUME NEW c \in Caller, CallerStep(c) PROVE Entries'
    <2>1. CASE Recv(c)
      BY <2>1 DEF Recv
    <2>2. CASE RecvTimeout(c)
      BY <2>2 DEF RecvTimeout
    <2> QED BY <1>4, <2>1, <2>2 DEF CallerStep
  <1>5. ASSUME NEW c \in Caller, DropClient(c) PROVE Entries'
    BY <1>5 DEF DropClient
  <1>6. CASE SenderTake
    BY <1>6, FreshId DEF SenderTake, Id
  <1>7. CASE SenderInsert
    BY <1>7 DEF SenderInsert, Requests, Unheard, InCall
  <1>8. CASE SenderRemove
    BY <1>8 DEF SenderRemove, Requests
  <1>9. CASE SenderReply
    <2>1. cur \in Caller /\ SendTo(cur, "error") /\ \A i \in Id : recver_map[i] # cur
      BY <1>9 DEF SenderReply, Requests
    <2>2. \A d \in Caller : d # cur => pc'[d] = pc[d] /\ result'[d] = result[d]
      BY <2>1, SendToOne
    <2> QED BY <2>1, <2>2, <1>9 DEF SenderReply
  <1>10. CASE SenderEnds \/ Write
    BY <1>10 DEF SenderEnds, Write, WriteOk, WriteFails
  <1>11. CASE Upgrade \/ UpgradeFails \/ ReadyNone \/ ReadySome \/ ReadyInterrupted \/ ReadyError
    BY <1>11 DEF Upgrade, UpgradeFails, ReadyNone, ReadySome, ReadyInterrupted, ReadyError,
                 Release
  <1>12. CASE ReadBlocks \/ ReadFrame \/ ReadTruncated \/ ReadError \/ ReadForeign \/ ForeignReturns
    BY <1>12 DEF ReadBlocks, ReadFrame, ReadTruncated, ReadError, ReadForeign, ForeignReturns
  <1>13. CASE TransUnknown \/ TransLock
    BY <1>13 DEF TransUnknown, TransLock, Mutex
  <1>14. CASE TransSend
    <2> DEFINE c == recver_map[frame.id]
    <2>1. frame.id \in Id /\ c \in Caller /\ id[c] = frame.id
      BY <1>14 DEF TransSend, Mutex, Known, Frame
    <2>2. SendTo(c, Outcome) /\ rcv = "send" /\ id' = id
      BY <1>14 DEF TransSend
    <2> HIDE DEF c
    <2>3. /\ pc[c] \in {"recv", "done"} /\ pc'[c] = "done"
          /\ \A d \in Caller : d # c => pc'[d] = pc[d] /\ result'[d] = result[d]
          /\ pc[c] = "recv" => result'[c] = Outcome
          /\ pc[c] = "done" => result'[c] = result[c]
      BY <2>1, <2>2, SendToOne
    <2> SUFFICES ASSUME NEW i \in Id, recver_map'[i] # None
                 PROVE  /\ id[recver_map'[i]] = i
                        /\ pc'[recver_map'[i]] = "done" =>
                             result'[recver_map'[i]] \in {"timeout", "malformed"}
      BY <2>2
    <2>4. recver_map'[i] = recver_map[i] /\ (frame.response => i # frame.id)
      BY <2>1, <1>14 DEF TransSend
    <2>5. CASE recver_map[i] # c
      BY <2>3, <2>4, <2>5, <2>2
    <2>6. CASE recver_map[i] = c
      <3>1. ~frame.response /\ Outcome = "malformed"
        BY <2>1, <2>4, <2>6 DEF Outcome
      <3> QED BY <2>1, <2>2, <2>3, <2>4, <2>6, <3>1
    <2> QED BY <2>5, <2>6
  <1>15. CASE DrainLock
    BY <1>15 DEF DrainLock
  <1>16. ASSUME NEW i \in Id, DrainSend(i) PROVE Entries'
    BY <1>16 DEF DrainSend, SendTo, Mutex
  <1>17. CASE DrainEnd
    BY <1>17 DEF DrainEnd
  <1>18. CASE Peer
    BY <1>18 DEF Peer, PeerAnswers, PeerMisbehaves, PeerFinishes, PeerCloses
  <1> QED
    BY <1>1, <1>2, <1>3, <1>4, <1>5, <1>6, <1>7, <1>8, <1>9, <1>10, <1>11, <1>12, <1>13,
       <1>14, <1>15, <1>16, <1>17, <1>18
    DEF Next, SenderStep, ReceiverStep

(* Stream ids are unique.                                                    *)
LEMMA IdsStep ==
  ASSUME IInv, Next PROVE Ids'
  <1>1. CASE SenderTake
    <2>1. /\ cur' \in Caller /\ id[cur'] = 0 /\ stream_id' = stream_id + 2
          /\ Cardinality(Taken') = Cardinality(Taken) + 1
          /\ id' = [id EXCEPT ![cur'] = stream_id]
      BY <1>1, FreshId DEF SenderTake
    <2>2. stream_id \in Nat /\ id \in [Caller -> Nat]
      BY DEF IInv, TypeOK, Id
    <2>3. Cardinality(Taken) \in Nat
      BY CallerAssumption, FS_Subset, FS_CardinalityType DEF Taken
    <2>4. stream_id' = 2 * Cardinality(Taken') + 1
      BY <2>1, <2>3 DEF IInv, Ids
    <2>5. \A c \in Caller : id'[c] < stream_id'
      BY <2>1, <2>2 DEF IInv, Ids
    <2>6. \A c, d \in Caller : id'[c] = id'[d] /\ id'[c] # 0 => c = d
      BY <2>1, <2>2 DEF IInv, Ids
    <2> QED BY <2>4, <2>5, <2>6 DEF Ids
  <1>2. CASE UNCHANGED <<id, stream_id>>
    <2>1. Taken' = Taken
      BY <1>2 DEF Taken
    <2> QED BY <1>2, <2>1 DEF IInv, Ids
  <1>3. SenderTake \/ UNCHANGED <<id, stream_id>>
    BY DEF Next, Connect, ConnectFails, HookRejects, NewClient, Request, RequestOversized,
           CallerStep, Recv, RecvTimeout, DropClient, SenderStep, SenderEnds, SenderInsert,
           SenderRemove, SenderReply, Write, WriteOk, WriteFails, ReceiverStep, Upgrade,
           UpgradeFails, ReadyNone, ReadySome, ReadyInterrupted, ReadyError, Release,
           ReadBlocks, ReadFrame, ReadTruncated, ReadError, ReadForeign, ForeignReturns, TransUnknown,
           TransLock, TransSend, DrainLock, DrainSend, DrainEnd, Peer, PeerAnswers,
           PeerMisbehaves, PeerFinishes, PeerCloses, sndVars
  <1> QED BY <1>1, <1>2, <1>3

(* Answers carry the id of the request they answer.                          *)
LEMMA TrafficStep ==
  ASSUME IInv, Next PROVE Traffic'
  <1> USE CallerAssumption DEF callerVars, sndVars, mapVars, rcvVars, peerVars
  <1>1. CASE UNCHANGED <<id, sent, inbox, frame, answered>> /\ (rcv' = "body" => rcv = "body")
    BY <1>1 DEF IInv, Traffic, Honest
  <1>2. CASE ReadBlocks
    BY <1>2 DEF ReadBlocks, IInv, Traffic, Honest
  <1>3. CASE SenderTake
    <2>1. cur' \in Caller /\ id[cur'] = 0 /\ id' = [id EXCEPT ![cur'] = stream_id]
      BY <1>3, FreshId DEF SenderTake
    <2>2. \A f \in Frame : Honest(f) => Honest(f)'
      BY <1>3, <2>1 DEF Honest, Frame, IInv, TypeOK, SenderTake
    <2>3. \A i \in Id : sent'[i] # None => id'[sent'[i]] = i
      <3>1. \A i \in Id : i # 0 /\ sent[i] \in Caller \cup {None}
        BY IdNotZero DEF IInv, TypeOK
      <3>2. \A i \in Id : sent[i] # None => id[sent[i]] = i
        BY DEF IInv, Traffic
      <3> QED BY <1>3, <2>1, <3>1, <3>2 DEF IInv, TypeOK, SenderTake
    <2>4. UNCHANGED <<inbox, frame, rcv>>
      BY <1>3 DEF SenderTake
    <2>5. \A k \in 1..Len(inbox') : Honest(inbox[k])'
      <3> SUFFICES ASSUME NEW k \in 1..Len(inbox) PROVE Honest(inbox[k])'
        BY <2>4
      <3>1. inbox[k] \in Frame /\ Honest(inbox[k])
        BY DEF IInv, TypeOK, Traffic
      <3> QED BY <3>1, <2>2, <2>4 DEF Honest
    <2>6. Honest(frame)'
      BY <2>2, <2>4 DEF IInv, TypeOK, Traffic, Honest
    <2> QED BY <2>3, <2>4, <2>5, <2>6 DEF IInv, Traffic
  <1>4. CASE WriteOk
    BY <1>4 DEF WriteOk, IInv, TypeOK, Requests, Traffic, Honest
  <1>5. CASE ReadFrame \/ ReadTruncated
    <2>1. inbox # <<>> /\ inbox' = Tail(inbox) /\ frame' \in {frame, inbox[1]} /\ rcv' # "body"
      BY <1>5 DEF ReadFrame, ReadTruncated, IInv, TypeOK, Traffic
    <2>2. \A k \in 1..Len(inbox') : k + 1 \in 1..Len(inbox) /\ inbox'[k] = inbox[k + 1]
      BY <2>1 DEF IInv, TypeOK
    <2>3. 1 \in 1..Len(inbox)
      BY <2>1 DEF IInv, TypeOK
    <2>4. UNCHANGED <<id, sent, answered>>
      BY <1>5 DEF ReadFrame, ReadTruncated
    <2>5. \A k \in 1..Len(inbox') : Honest(inbox[k])'
      BY <2>2, <2>4 DEF IInv, Traffic, Honest
    <2>6. Honest(frame)'
      BY <2>1, <2>3, <2>4 DEF IInv, Traffic, Honest
    <2> QED BY <2>1, <2>4, <2>5, <2>6 DEF IInv, Traffic
  <1>6. ASSUME NEW f \in Frame, Begin(f), Honest(f)', answered \subseteq answered',
               UNCHANGED <<id, sent, frame, rcv>>
        PROVE  Traffic'
    <2>1. /\ Len(inbox') = Len(inbox) + 1 /\ inbox'[Len(inbox) + 1] = f
          /\ \A k \in 1..Len(inbox) : inbox'[k] = inbox[k]
      BY <1>6 DEF Begin, IInv, TypeOK
    <2>3. \A k \in 1..Len(inbox') : Honest(inbox[k])'
      <3> SUFFICES ASSUME NEW k \in 1..Len(inbox') PROVE Honest(inbox[k])'
        OBVIOUS
      <3>1. CASE k \in 1..Len(inbox)
        BY <3>1, <2>1, <1>6 DEF IInv, Traffic, Honest
      <3>2. CASE k = Len(inbox) + 1
        BY <3>2, <2>1, <1>6 DEF Honest
      <3> QED BY <2>1, <3>1, <3>2 DEF IInv, TypeOK
    <2>4. inbox' # <<>>
      BY <2>1 DEF IInv, TypeOK
    <2>5. Honest(frame)'
      BY <1>6 DEF IInv, Traffic, Honest
    <2> QED BY <1>6, <2>3, <2>4, <2>5 DEF IInv, Traffic
  <1>7. ASSUME NEW i \in Id, PeerAnswers(i) PROVE Traffic'
    <2>1. PICK w \in BOOLEAN :
            Begin([id |-> i, response |-> TRUE, body |-> sent[i], whole |-> w])
      BY <1>7 DEF PeerAnswers
    <2> DEFINE f == [id |-> i, response |-> TRUE, body |-> sent[i], whole |-> w]
    <2>2. f \in Frame /\ Honest(f)'
      <3>1. sent[i] \in Caller /\ id[sent[i]] = i /\ i # 0
        BY <1>7, IdNotZero DEF PeerAnswers, IInv, TypeOK, Traffic
      <3>2. id' = id /\ answered' = answered \cup {sent[i]} /\ sent' = sent
        BY <1>7 DEF PeerAnswers
      <3> QED BY <3>1, <3>2 DEF Frame, Honest
    <2> QED BY <1>7, <2>1, <2>2, <1>6 DEF PeerAnswers
  <1>8. ASSUME NEW i \in Id \cup {0}, PeerMisbehaves(i) PROVE Traffic'
    <2>1. PICK w \in BOOLEAN, r \in BOOLEAN :
            Begin([id |-> i, response |-> r, body |-> None, whole |-> w])
      BY <1>8 DEF PeerMisbehaves
    <2> DEFINE f == [id |-> i, response |-> r, body |-> None, whole |-> w]
    <2>2. f \in Frame /\ Honest(f)'
      BY DEF Frame, Honest
    <2> QED BY <1>8, <2>1, <2>2, <1>6 DEF PeerMisbehaves
  <1>9. CASE PeerFinishes
    BY <1>9 DEF PeerFinishes, IInv, TypeOK, Traffic, Honest, Frame
  <1>10. \/ UNCHANGED <<id, sent, inbox, frame, answered>> /\ (rcv' = "body" => rcv = "body")
         \/ ReadBlocks \/ SenderTake \/ WriteOk \/ ReadFrame \/ ReadTruncated \/ Peer
    BY DEF Next, Connect, ConnectFails, HookRejects, NewClient, Request, RequestOversized,
           CallerStep, Recv, RecvTimeout, DropClient, SenderStep, SenderEnds, SenderInsert,
           SenderRemove, SenderReply, Write, WriteFails, ReceiverStep, Upgrade,
           UpgradeFails, ReadyNone, ReadySome, ReadyInterrupted, ReadyError, Release,
           ReadError, ReadForeign, ForeignReturns, TransUnknown, TransLock, TransSend, DrainLock, DrainSend,
           DrainEnd
  <1>11. CASE PeerCloses
    BY <1>11, <1>1 DEF PeerCloses
  <1> QED BY <1>1, <1>2, <1>3, <1>4, <1>5, <1>7, <1>8, <1>9, <1>10, <1>11 DEF Peer

-----------------------------------------------------------------------------
LEMMA InitIInv == Init => IInv
  <1> SUFFICES ASSUME Init PROVE IInv
    OBVIOUS
  <1> USE CallerAssumption, BoundAssumption
  <1>1. Cardinality(Caller) \in Nat
    BY FS_CardinalityType
  <1>2. 1 \in Id
    BY <1>1 DEF Id
  <1>3. TypeOK
    <2>1. NoFrame \in Frame
      BY DEF NoFrame, Frame
    <2>2. /\ pc \in [Caller -> {"idle", "called", "recv", "done"}]
          /\ result \in [Caller -> {None} \cup Caller \cup Failure]
          /\ id \in [Caller -> Id \cup {0}]
      BY DEF Init
    <2>3. /\ recver_map \in [Id -> Caller \cup {None}] /\ sent \in [Id -> Caller \cup {None}]
      BY DEF Init
    <2>4. queue \in Seq(Caller) /\ inbox \in Seq(Frame) /\ frame \in Frame
      BY <2>1 DEF Init
    <2>5. frames \in 0..MaxFrames /\ stream_id \in Id
      BY <1>2 DEF Init
    <2> QED BY <2>2, <2>3, <2>4, <2>5 DEF Init, TypeOK
  <1>4. Taken = {} /\ Cardinality(Taken) = 0
    BY FS_EmptySet DEF Init, Taken
  <1>5. Ids
    BY <1>4 DEF Init, Ids
  <1>6. Owners /\ Requests /\ Mutex /\ Entries
    BY DEF Init, Owners, InCall, Gone, Requests, Mutex, Entries
  <1>7. Traffic
    BY DEF Init, Traffic, Honest, NoFrame
  <1> QED BY <1>3, <1>5, <1>6, <1>7 DEF IInv

(* The inductive invariant: ownership, the way of a request, the mutex, the  *)
(* entries, the ids and the peer's answers (client.rs:86-222, 268-364).      *)
THEOREM Invariance == Spec => []IInv
  <1>1. IInv /\ [Next]_vars => IInv'
    <2> SUFFICES ASSUME IInv, [Next]_vars PROVE IInv'
      OBVIOUS
    <2>1. CASE Next
      BY <2>1, TypeStep, OwnersStep, RequestsStep, MutexStep, EntriesStep, IdsStep,
         TrafficStep DEF IInv
    <2>2. CASE UNCHANGED vars
      BY <2>2 DEF vars, callerVars, sndVars, mapVars, rcvVars, peerVars, IInv, TypeOK, Owners,
                  InCall, Gone, Requests, Unheard, Mutex, Known, Entries, Ids, Taken, Traffic,
                  Honest
    <2> QED BY <2>1, <2>2
  <1> QED BY InitIInv, <1>1, PTL DEF Spec

(* Whatever the interleaving of callers, sender, receiver and peer: an entry *)
(* of the map of pending requests belongs to the request with its stream id, *)
(* and outlives its call only after a timeout or a malformed packet          *)
(* (client.rs:150-189, 330-354).                                             *)
THEOREM MapIsExact == Spec => []MapExact
  <1>1. IInv => MapExact
    BY DEF IInv, Entries, MapExact
  <1> QED BY <1>1, Invariance, PTL

(* The descriptor is closed only after the last clone of the client and the  *)
(* receiver's upgraded reference are gone, hence under no call and no poll   *)
(* (ClientConnection::drop; on Windows PipeConnection::drop).                *)
THEOREM DescriptorIsOwned == Spec => []DescriptorOwned
  <1>1. IInv => DescriptorOwned
    BY DEF IInv, Owners, DescriptorOwned
  <1> QED BY <1>1, Invariance, PTL

-----------------------------------------------------------------------------
(* The state of a call in UnaryCalls, read off its control point.            *)
LEMMA CallValue ==
  ASSUME NEW c \in Caller
  PROVE  /\ pc[c] = "idle" => Call[c] = "idle"
         /\ pc[c] \in {"called", "recv"} => Call[c] = "pending"
         /\ pc[c] = "done" /\ result[c] = c => Call[c] = "ok"
         /\ pc[c] = "done" /\ result[c] \in Failure => Call[c] = "failed"
  BY CallerAssumption DEF Call, InCall, Failure

LEMMA CallValueNext ==
  ASSUME NEW c \in Caller
  PROVE  /\ pc'[c] \in {"called", "recv"} => Call'[c] = "pending"
         /\ pc'[c] = "done" /\ result'[c] = c => Call'[c] = "ok"
         /\ pc'[c] = "done" /\ result'[c] \in Failure => Call'[c] = "failed"
  BY CallerAssumption DEF Call, InCall, Failure

(* A step that touches one caller changes the state of one call.             *)
LEMMA CallChange ==
  ASSUME NEW c \in Caller,
         \A d \in Caller : d # c => pc'[d] = pc[d] /\ result'[d] = result[d]
  PROVE  Call' = [Call EXCEPT ![c] = Call'[c]]
  <1>1. \A d \in Caller : d # c => Call'[d] = Call[d]
    BY DEF Call, InCall
  <1>2. /\ Call = [d \in Caller |-> Call[d]]
        /\ Call' = [d \in Caller |-> Call'[d]]
    BY DEF Call
  <1> QED BY <1>1, <1>2

LEMMA CallSame ==
  ASSUME UNCHANGED <<pc, result, answered>> PROVE UNCHANGED Unary!callVars
  BY DEF Unary!callVars, Call, InCall

(* Ending a call with an error is Fail; ending it with its own answer is     *)
(* Succeed; sending to a caller that has returned is a stuttering step.      *)
LEMMA EndOfCall ==
  ASSUME TypeOK, NEW c \in Caller, NEW r, SendTo(c, r), answered' = answered,
         r \in Failure \/ (r = c /\ c \in answered)
  PROVE  [Unary!CallNext]_(Unary!callVars)
  <1>1. CASE pc[c] = "done"
    <2>1. UNCHANGED <<pc, result, answered>>
      BY <1>1 DEF SendTo
    <2> QED BY <2>1, CallSame
  <1>2. CASE pc[c] = "recv"
    <2>1. /\ pc'[c] = "done" /\ result'[c] = r
          /\ \A d \in Caller : d # c => pc'[d] = pc[d] /\ result'[d] = result[d]
      BY <1>2, SendToOne
    <2>2. Call' = [Call EXCEPT ![c] = Call'[c]] /\ Call[c] = "pending"
      BY <2>1, <1>2, CallChange, CallValue
    <2>3. CASE r \in Failure
      <3>1. Call'[c] = "failed"
        BY <2>1, <2>3, CallValueNext
      <3> QED BY <2>2, <3>1 DEF Unary!CallNext, Unary!Fail
    <2>4. CASE r = c /\ c \in answered
      <3>1. Call'[c] = "ok"
        BY <2>1, <2>4, CallValueNext
      <3> QED BY <2>2, <2>4, <3>1 DEF Unary!CallNext, Unary!Succeed
    <2> QED BY <2>3, <2>4
  <1> QED BY <1>1, <1>2, SendToOne

(* Every step of the client is a step of UnaryCalls or leaves the calls as   *)
(* they are. The one deep case is TransSend: the answer in hand carries the  *)
(* id of the request it answers, the entry too, and ids are unique.          *)
LEMMA CallStep ==
  ASSUME IInv, Next PROVE [Unary!CallNext]_(Unary!callVars)
  <1> USE DEF callerVars, sndVars, mapVars, rcvVars, peerVars
  <1>1. CASE UNCHANGED <<pc, result, answered>>
    BY <1>1, CallSame
  <1>2. ASSUME NEW c \in Caller, Request(c) \/ RequestOversized(c) \/ CallerStep(c)
        PROVE  [Unary!CallNext]_(Unary!callVars)
    <2>1. /\ answered' = answered
          /\ \A d \in Caller : d # c => pc'[d] = pc[d] /\ result'[d] = result[d]
      BY <1>2 DEF Request, RequestOversized, CallerStep, Recv, RecvTimeout, IInv, TypeOK
    <2>2. Call' = [Call EXCEPT ![c] = Call'[c]]
      BY <2>1, CallChange
    <2>3. CASE Request(c)
      <3>1. pc[c] = "idle" /\ pc'[c] = "called"
        BY <2>3 DEF Request, IInv, TypeOK
      <3>2. Call[c] = "idle" /\ Call'[c] = "pending"
        BY <3>1, CallValue, CallValueNext
      <3> QED BY <2>1, <2>2, <3>2 DEF Unary!CallNext, Unary!Invoke
    <2>4. CASE RequestOversized(c) \/ RecvTimeout(c)
      <3>1. pc[c] \in {"idle", "recv"} /\ pc'[c] = "done" /\ result'[c] \in Failure
        BY <2>4 DEF RequestOversized, RecvTimeout, IInv, TypeOK, Failure
      <3>2. Call[c] \in {"idle", "pending"} /\ Call'[c] = "failed"
        BY <3>1, CallValue, CallValueNext
      <3> QED BY <2>1, <2>2, <3>2 DEF Unary!CallNext, Unary!Fail
    <2>5. CASE Recv(c)
      <3>1. pc[c] = "called" /\ pc'[c] = "recv"
        BY <2>5 DEF Recv, IInv, TypeOK
      <3>2. Call[c] = "pending" /\ Call'[c] = "pending"
        BY <3>1, CallValue, CallValueNext
      <3>3. Call = [d \in Caller |-> Call[d]]
        BY DEF Call
      <3>4. Call' = Call
        BY <2>2, <3>2, <3>3
      <3> QED BY <2>1, <3>4 DEF Unary!callVars
    <2> QED BY <1>2, <2>3, <2>4, <2>5 DEF CallerStep
  <1>3. CASE SenderReply
    <2>1. cur \in Caller /\ SendTo(cur, "error") /\ answered' = answered
      BY <1>3 DEF SenderReply, IInv, Requests
    <2> QED BY <2>1, EndOfCall DEF IInv, Failure
  <1>4. CASE TransSend
    <2> DEFINE c == recver_map[frame.id]
    <2>1. /\ frame.id \in Id /\ c \in Caller /\ id[c] = frame.id /\ frame.id # 0
          /\ SendTo(c, Outcome) /\ answered' = answered
      BY <1>4 DEF TransSend, IInv, TypeOK, Mutex, Known, Frame, Entries
    <2>2. frame.body \in Caller \cup {None}
      BY DEF IInv, TypeOK, Frame
    <2> HIDE DEF c
    <2>3. Outcome \in Failure \/ (Outcome = c /\ c \in answered)
      <3>1. CASE ~frame.response \/ frame.body = None
        BY <3>1 DEF Outcome, Failure
      <3>2. CASE frame.response /\ frame.body # None
        <4>1. frame.body \in answered /\ id[frame.body] = frame.id
          BY <3>2 DEF IInv, Traffic, Honest
        <4>2. frame.body = c
          BY <4>1, <2>1, <2>2, <3>2 DEF IInv, Ids
        <4> QED BY <4>1, <4>2, <3>2 DEF Outcome
      <3> QED BY <3>1, <3>2
    <2> QED BY <2>1, <2>3, EndOfCall DEF IInv
  <1>5. ASSUME NEW i \in Id, DrainSend(i) PROVE [Unary!CallNext]_(Unary!callVars)
    <2>1. recver_map[i] \in Caller /\ SendTo(recver_map[i], "error") /\ answered' = answered
      BY <1>5 DEF DrainSend, IInv, TypeOK, Mutex
    <2> QED BY <2>1, EndOfCall DEF IInv, Failure
  <1>6. ASSUME NEW i \in Id, PeerAnswers(i) PROVE [Unary!CallNext]_(Unary!callVars)
    <2>1. sent[i] \in Caller /\ id[sent[i]] # 0
      BY <1>6, IdNotZero DEF PeerAnswers, IInv, TypeOK, Traffic
    <2>2. pc[sent[i]] # "idle" /\ pc[sent[i]] \in {"idle", "called", "recv", "done"}
      BY <2>1 DEF IInv, TypeOK, Requests
    <2>3. Call[sent[i]] # "idle"
      BY <2>1, <2>2, CallerAssumption DEF Call, InCall
    <2>4. UNCHANGED <<pc, result>> /\ answered' = answered \cup {sent[i]}
      BY <1>6 DEF PeerAnswers
    <2>5. Call' = Call
      BY <2>4 DEF Call, InCall
    <2> QED BY <2>1, <2>3, <2>4, <2>5 DEF Unary!CallNext, Unary!Produce
  <1>7. \/ UNCHANGED <<pc, result, answered>>
        \/ \E c \in Caller : Request(c) \/ RequestOversized(c) \/ CallerStep(c)
        \/ SenderReply \/ TransSend \/ (\E i \in Id : DrainSend(i) \/ PeerAnswers(i))
    BY DEF Next, Connect, ConnectFails, HookRejects, NewClient, DropClient, SenderStep,
           SenderTake, SenderEnds, SenderInsert, SenderRemove, Write, WriteOk, WriteFails,
           ReceiverStep, Upgrade, UpgradeFails, ReadyNone, ReadySome, ReadyInterrupted,
           ReadyError, Release, ReadBlocks, ReadFrame, ReadTruncated, ReadError, ReadForeign, ForeignReturns,
           TransUnknown, TransLock, DrainLock, DrainEnd, Peer, PeerMisbehaves, PeerFinishes,
           PeerCloses
  <1> QED BY <1>1, <1>2, <1>3, <1>4, <1>5, <1>6, <1>7

(* Client::request of the synchronous client keeps the promise of            *)
(* UnaryCalls: a call ends at most once, and succeeds only with the answer   *)
(* that the peer gave to this very call (client.rs:86-222, 224-297).         *)
THEOREM Refinement == Spec => CallsRefine
  <1>1. Init => Unary!CallInit
    <2> SUFFICES ASSUME Init PROVE Unary!CallInit
      OBVIOUS
    <2>1. \A c \in Caller : Call[c] = "idle"
      BY CallValue DEF Init
    <2>2. Call = [c \in Caller |-> Call[c]]
      BY DEF Call
    <2> QED BY <2>1, <2>2 DEF Init, Unary!CallInit
  <1>2. IInv /\ [Next]_vars => [Unary!CallNext]_(Unary!callVars)
    <2> SUFFICES ASSUME IInv, [Next]_vars PROVE [Unary!CallNext]_(Unary!callVars)
      OBVIOUS
    <2>1. CASE UNCHANGED vars
      BY <2>1, CallSame DEF vars, callerVars, peerVars
    <2> QED BY <2>1, CallStep
  <1> QED BY <1>1, <1>2, Invariance, PTL DEF Spec, CallsRefine, Unary!CallSpec
=============================================================================
