------------------------------ MODULE SyncClient ------------------------------
(***************************************************************************)
(* One connection of the synchronous client: the threads that share a      *)
(* Client by cloning it and call Client::request, the sender thread, the   *)
(* receiver thread, the map of pending requests under its mutex, and the   *)
(* descriptor, whose owner (ClientConnection) is dropped by whoever gives  *)
(* back the last strong reference, the receiver thread included. Both      *)
(* platforms are modelled: on Unix the owner closes the descriptor and the *)
(* threads keep its number, on Windows the threads own the pipe.           *)
(*                                                                         *)
(* Each caller makes one request. A result channel is a rendezvous, so     *)
(* sending to a caller takes effect when the caller is in recv(), and      *)
(* fails when it has returned.                                             *)
(***************************************************************************)
EXTENDS Naturals, Sequences, FiniteSets

CONSTANTS Caller,     \* threads, each with a clone of the Client
          Deadline,   \* callers whose timeout_nano is not zero
          IdSpace,    \* number of stream ids before wrapping (2^32)
          MaxFrames,  \* bound: frames the peer sends
          None

ASSUME CallerAssumption ==
  /\ IsFiniteSet(Caller) /\ Deadline \subseteq Caller
  /\ None \notin Caller /\ Caller \cap {"error", "malformed", "timeout"} = {}
ASSUME BoundAssumption ==
  /\ IdSpace \in Nat /\ IdSpace % 2 = 0 /\ MaxFrames \in Nat
  /\ 2 * Cardinality(Caller) < IdSpace

Id == {i \in 1..IdSpace : i % 2 = 1}

VARIABLES
  os,                  \* "unix" or "windows"
  pc, result,          \* control point and outcome of each caller
  held,                \* callers that still own their clone of the Client
  queue,               \* sender_tx / rx: requests not yet taken
  snd, cur,            \* sender thread: control point, request in hand
  stream_id, id,       \* the sender's next id; the id a request was given
  recver_map,          \* stream id -> caller waiting for it
  locked,              \* is the mutex of recver_map held by the receiver?
  rcv, frame, drain,   \* receiver thread: control point, frame, entries to fail
  strong,              \* does the receiver hold an upgraded Arc?
  fd,                  \* the descriptor: none, open, closed or leaked
  peer, sent, inbox,   \* the peer: open or closed, requests it has, its frames
  answered, frames     \* calls it answered, number of frames it began

callerVars == <<pc, result, held>>
sndVars  == <<snd, cur, stream_id, id>>
mapVars  == <<recver_map, locked>>
rcvVars  == <<rcv, frame, drain, strong>>
peerVars == <<peer, sent, inbox, answered, frames>>
vars == <<os, callerVars, queue, sndVars, mapVars, rcvVars, fd, peerVars>>

Failure == {"error", "malformed", "timeout"}
Frame == [id : Id \cup {0}, response : BOOLEAN, body : Caller \cup {None}, whole : BOOLEAN]
NoFrame == [id |-> 0, response |-> FALSE, body |-> None, whole |-> FALSE]

TypeOK ==
  /\ os \in {"unix", "windows"}
  /\ pc \in [Caller -> {"idle", "called", "recv", "done"}]
  /\ result \in [Caller -> {None} \cup Caller \cup Failure]
  /\ held \subseteq Caller
  /\ queue \in Seq(Caller)
  /\ snd \in {"new", "iter", "insert", "write", "remove", "reply", "ended"}
  /\ cur \in Caller \cup {None}
  /\ stream_id \in Id /\ id \in [Caller -> Id \cup {0}]
  /\ recver_map \in [Id -> Caller \cup {None}] /\ locked \in BOOLEAN
  /\ rcv \in {"new", "upgrade", "ready", "read", "body", "foreign", "lock", "send", "drain", "ended",
             "broken"}
  /\ frame \in Frame /\ drain \subseteq Id /\ strong \in BOOLEAN
  /\ fd \in {"none", "open", "closed", "leaked"}
  /\ peer \in {"open", "closed"} /\ sent \in [Id -> Caller \cup {None}]
  /\ inbox \in Seq(Frame) /\ answered \subseteq Caller /\ frames \in 0..MaxFrames

Init ==
  /\ os \in {"unix", "windows"}
  /\ pc = [c \in Caller |-> "idle"] /\ result = [c \in Caller |-> None]
  /\ held = {} /\ queue = <<>>
  /\ snd = "new" /\ cur = None /\ stream_id = 1 /\ id = [c \in Caller |-> 0]
  /\ recver_map = [i \in Id |-> None] /\ locked = FALSE
  /\ rcv = "new" /\ frame = NoFrame /\ drain = {} /\ strong = FALSE
  /\ fd = "none"
  /\ peer = "open" /\ sent = [i \in Id |-> None] /\ inbox = <<>>
  /\ answered = {} /\ frames = 0

-----------------------------------------------------------------------------
(* Construction.                                                             *)

(* client_connect: make_socket, then connect(2) and the socket pair.         *)
(* Client::new and with_hook are given an open descriptor instead. Where a   *)
(* later call fails the socket is not closed; on Windows nor is the pipe     *)
(* that get_pipe_connection opened, when creating its events fails.          *)
Connect ==
  /\ fd = "none" /\ snd = "new"
  /\ fd' \in {"open", "leaked"}
  /\ UNCHANGED <<os, callerVars, queue, sndVars, mapVars, rcvVars, peerVars>>

(* make_socket, opening the pipe, or one of the later calls fails.           *)
ConnectFails ==
  /\ fd \in {"none", "leaked"} /\ snd = "new"
  /\ snd' = "ended" /\ rcv' = "ended"
  /\ UNCHANGED <<os, callerVars, queue, cur, stream_id, id, mapVars, frame, drain, strong, fd,
                 peerVars>>

(* Client::with_hook: ClientConnection owns the descriptor before the hook   *)
(* runs, so its Drop closes it when the hook rejects.                        *)
HookRejects ==
  /\ os = "unix" /\ fd = "open" /\ snd = "new"
  /\ fd' = "closed" /\ snd' = "ended" /\ rcv' = "ended"
  /\ UNCHANGED <<os, callerVars, queue, cur, stream_id, id, mapVars, frame, drain, strong,
                 peerVars>>

(* new_client: both threads start, the callers share the client.             *)
NewClient ==
  /\ fd = "open" /\ snd = "new"
  /\ snd' = "iter" /\ rcv' = "upgrade" /\ held' = Caller
  /\ UNCHANGED <<os, pc, result, queue, cur, stream_id, id, mapVars, frame, drain, strong, fd,
                 peerVars>>

-----------------------------------------------------------------------------
(* Callers.                                                                  *)

(* Client::request: encode, check_oversize, and send to the sender thread    *)
(* over an unbounded channel ...                                             *)
Request(c) ==
  /\ c \in held /\ pc[c] = "idle"
  /\ pc' = [pc EXCEPT ![c] = "called"]
  /\ queue' = Append(queue, c)
  /\ UNCHANGED <<os, result, held, sndVars, mapVars, rcvVars, fd, peerVars>>

(* ... or fail at once because the encoded request is oversized.             *)
RequestOversized(c) ==
  /\ c \in held /\ pc[c] = "idle"
  /\ pc' = [pc EXCEPT ![c] = "done"]
  /\ result' = [result EXCEPT ![c] = "error"]
  /\ UNCHANGED <<os, held, queue, sndVars, mapVars, rcvVars, fd, peerVars>>

(* rx.recv() or rx.recv_timeout() is entered.                                *)
Recv(c) ==
  /\ pc[c] = "called"
  /\ pc' = [pc EXCEPT ![c] = "recv"]
  /\ UNCHANGED <<os, result, held, queue, sndVars, mapVars, rcvVars, fd, peerVars>>

(* recv_timeout expires; dropping rx makes later sends to it fail.           *)
RecvTimeout(c) ==
  /\ c \in Deadline /\ pc[c] = "recv"
  /\ pc' = [pc EXCEPT ![c] = "done"]
  /\ result' = [result EXCEPT ![c] = "timeout"]
  /\ UNCHANGED <<os, held, queue, sndVars, mapVars, rcvVars, fd, peerVars>>

(* The rendezvous of recver_tx.send with the caller's recv; sending to a     *)
(* caller that has returned fails and is only logged.                        *)
SendTo(c, r) ==
  \/ /\ pc[c] = "recv"
     /\ pc' = [pc EXCEPT ![c] = "done"]
     /\ result' = [result EXCEPT ![c] = r]
  \/ pc[c] = "done" /\ UNCHANGED <<pc, result>>

(* Mutant of DropOwner: the receiver polls without a reference of its own.   *)
DropOwnerUncounted(handles, receiver) ==
  fd' = IF os = "unix" /\ handles = {} THEN "closed" ELSE fd

(* ClientConnection::drop runs when the last strong reference goes. On Unix  *)
(* it closes the descriptor, on Windows it does nothing.                     *)
DropOwner(handles, receiver) ==
  fd' = IF os = "unix" /\ handles = {} /\ ~receiver THEN "closed" ELSE fd

(* A clone of the Client is dropped. request() borrows it, so never before   *)
(* the call has returned.                                                    *)
DropClient(c) ==
  /\ c \in held /\ pc[c] \in {"idle", "done"}
  /\ held' = held \ {c}
  /\ DropOwner(held', strong)
  /\ UNCHANGED <<os, pc, result, queue, sndVars, mapVars, rcvVars, peerVars>>

-----------------------------------------------------------------------------
(* Sender thread.                                                            *)

(* On Windows Drop for PipeConnection closes the pipe once neither thread    *)
(* owns it any more.                                                         *)
CloseWithLast(other) ==
  fd' = IF os = "windows" /\ other \in {"ended", "broken"} THEN "closed" ELSE fd

(* Mutant of SenderTake: the id does not grow.                               *)
SenderTakeSameId ==
  /\ snd = "iter" /\ queue # <<>>
  /\ snd' = "insert" /\ cur' = Head(queue) /\ queue' = Tail(queue)
  /\ id' = [id EXCEPT ![cur'] = stream_id]
  /\ stream_id' = stream_id
  /\ UNCHANGED <<os, callerVars, mapVars, rcvVars, fd, peerVars>>

(* The next request gets the next odd stream id.                             *)
SenderTake ==
  /\ snd = "iter" /\ queue # <<>>
  /\ snd' = "insert" /\ cur' = Head(queue) /\ queue' = Tail(queue)
  /\ id' = [id EXCEPT ![cur'] = stream_id]
  /\ stream_id' = (stream_id + 2) % IdSpace
  /\ UNCHANGED <<os, callerVars, mapVars, rcvVars, fd, peerVars>>

(* rx.iter() ends when every clone of sender_tx is gone and the queue empty. *)
SenderEnds ==
  /\ snd = "iter" /\ queue = <<>> /\ held = {}
  /\ snd' = "ended"
  /\ CloseWithLast(rcv)
  /\ UNCHANGED <<os, callerVars, queue, cur, stream_id, id, mapVars, rcvVars, peerVars>>

(* The request is registered and transformed (outbound_buf), which may fail. *)
SenderInsert ==
  /\ snd = "insert" /\ ~locked
  /\ snd' \in {"write", "remove"}
  /\ recver_map' = [recver_map EXCEPT ![id[cur]] = cur]
  /\ UNCHANGED <<os, callerVars, queue, cur, stream_id, id, locked, rcvVars, fd, peerVars>>

(* write_message succeeds. A peer that has closed need not make it fail: TCP *)
(* takes the bytes until the reset arrives. After close(2) the number may    *)
(* name another file, which takes the bytes too.                             *)
WriteOk ==
  /\ snd = "write"
  /\ snd' = "iter" /\ cur' = None
  /\ sent' = IF fd = "open" /\ peer = "open" THEN [sent EXCEPT ![id[cur]] = cur] ELSE sent
  /\ UNCHANGED <<os, callerVars, queue, stream_id, id, mapVars, rcvVars, fd, peer, inbox,
                 answered, frames>>

WriteFails ==
  /\ snd = "write"
  /\ snd' = "remove"
  /\ UNCHANGED <<os, callerVars, queue, cur, stream_id, id, mapVars, rcvVars, fd, peerVars>>

(* Mutant of SenderRemove: the failed request keeps its entry.               *)
SenderRemoveNot ==
  /\ snd = "remove" /\ ~locked
  /\ snd' = "reply"
  /\ UNCHANGED <<os, callerVars, queue, cur, stream_id, id, mapVars, rcvVars, fd, peerVars>>

SenderRemove ==
  /\ snd = "remove" /\ ~locked
  /\ snd' = "reply"
  /\ recver_map' = [recver_map EXCEPT ![id[cur]] = None]
  /\ UNCHANGED <<os, callerVars, queue, cur, stream_id, id, locked, rcvVars, fd, peerVars>>

SenderReply ==
  /\ snd = "reply"
  /\ SendTo(cur, "error")
  /\ snd' = "iter" /\ cur' = None
  /\ UNCHANGED <<os, held, queue, stream_id, id, mapVars, rcvVars, fd, peerVars>>

-----------------------------------------------------------------------------
(* Receiver thread.                                                          *)

(* The Weak is upgraded while some clone of the Client lives; otherwise the  *)
(* thread ends.                                                              *)
Upgrade ==
  /\ rcv = "upgrade" /\ held # {}
  /\ rcv' = "ready" /\ strong' = TRUE
  /\ UNCHANGED <<os, callerVars, queue, sndVars, mapVars, frame, drain, fd, peerVars>>

(* Mutant of UpgradeFails: the loop goes on.                                 *)
UpgradeFailsContinues ==
  /\ rcv = "upgrade" /\ held = {}
  /\ UNCHANGED vars

UpgradeFails ==
  /\ rcv = "upgrade" /\ held = {}
  /\ rcv' = "ended"
  /\ CloseWithLast(snd)
  /\ UNCHANGED <<os, callerVars, queue, sndVars, mapVars, frame, drain, strong, peerVars>>

(* ready() returns and the upgraded reference is given back, which may run   *)
(* ClientConnection::drop on this thread.                                    *)
Release(next) ==
  /\ rcv = "ready"
  /\ rcv' = next /\ strong' = FALSE
  /\ DropOwner(held, FALSE)
  /\ UNCHANGED <<os, callerVars, queue, sndVars, mapVars, frame, drain, peerVars>>

(* poll(2) times out after 10 ms, or is interrupted by a signal.             *)
Readable == inbox # <<>> \/ peer = "closed"
ReadyNone == os = "unix" /\ ~Readable /\ Release("upgrade")
ReadyInterrupted == os = "unix" /\ Release("upgrade")
(* The descriptor is readable or hung up; on Windows ready() always says so. *)
ReadySome == (os = "windows" \/ Readable) /\ Release("read")
(* poll(2) fails: the thread ends and leaves the map as it is.               *)
ReadyError == os = "unix" /\ Release("broken")

(* read_message. A frame that has not arrived completely blocks recv(2),     *)
(* and closing the descriptor does not wake a thread that is inside it.      *)
ReadBlocks ==
  /\ rcv = "read" /\ fd = "open" /\ inbox # <<>> /\ ~Head(inbox).whole
  /\ rcv' = "body"
  /\ UNCHANGED <<os, callerVars, queue, sndVars, mapVars, frame, drain, strong, fd, peerVars>>

(* It returns a frame ...                                                    *)
ReadFrame ==
  /\ rcv = "body" \/ (rcv = "read" /\ fd = "open")
  /\ inbox # <<>> /\ Head(inbox).whole
  /\ rcv' = "lock" /\ frame' = Head(inbox) /\ inbox' = Tail(inbox)
  /\ UNCHANGED <<os, callerVars, queue, sndVars, mapVars, drain, strong, fd, peer, sent,
                 answered, frames>>

(* ... or the input ended inside one: INVALID_ARGUMENT for a short header or *)
(* body, Error::Socket right after the header or on a reset, while the       *)
(* missing rest of an oversized body goes unnoticed, ...                     *)
ReadTruncated ==
  /\ rcv = "body" /\ peer = "closed" /\ ~Head(inbox).whole
  /\ \/ rcv' \in {"upgrade", "drain"} /\ UNCHANGED frame
     \/ Head(inbox).body = None /\ rcv' = "lock" /\ frame' = Head(inbox)
  /\ inbox' = Tail(inbox)
  /\ UNCHANGED <<os, callerVars, queue, sndVars, mapVars, drain, strong, fd, peer, sent,
                 answered, frames>>

(* Mutant of ReadError: a socket error is treated like any other.            *)
ReadErrorContinues ==
  /\ rcv = "read"
  /\ fd = "closed" \/ (peer = "closed" /\ inbox = <<>>)
  /\ rcv' = "upgrade"
  /\ UNCHANGED <<os, callerVars, queue, sndVars, mapVars, frame, drain, strong, fd, peerVars>>

(* ... or Error::Socket: the end of the input, or a descriptor that has been *)
(* closed since ready() returned.                                            *)
ReadError ==
  /\ rcv = "read"
  /\ fd = "closed" \/ (peer = "closed" /\ inbox = <<>>)
  /\ rcv' = "drain"
  /\ UNCHANGED <<os, callerVars, queue, sndVars, mapVars, frame, drain, strong, fd, peerVars>>

(* The number of the closed descriptor already names another file: recv(2)   *)
(* is entered on that one, and nothing says that it returns.                 *)
ReadForeign ==
  /\ rcv = "read" /\ fd = "closed"
  /\ rcv' = "foreign"
  /\ UNCHANGED <<os, callerVars, queue, sndVars, mapVars, frame, drain, strong, fd, peerVars>>

(* If it does, the bytes are taken for a frame of an unknown stream, or the  *)
(* end of that file for the end of the connection.                           *)
ForeignReturns ==
  /\ rcv = "foreign"
  /\ rcv' \in {"upgrade", "drain"}
  /\ UNCHANGED <<os, callerVars, queue, sndVars, mapVars, frame, drain, strong, fd, peerVars>>

(* trans_resp: take the mutex and look the stream id up.                     *)
Known == frame.id # 0 /\ recver_map[frame.id] # None

TransUnknown ==
  /\ rcv = "lock" /\ ~Known
  /\ rcv' = "upgrade"
  /\ UNCHANGED <<os, callerVars, queue, sndVars, mapVars, frame, drain, strong, fd, peerVars>>

TransLock ==
  /\ rcv = "lock" /\ Known
  /\ rcv' = "send" /\ locked' = TRUE
  /\ UNCHANGED <<os, callerVars, queue, sndVars, recver_map, frame, drain, strong, fd, peerVars>>

(* What the caller is sent: the payload of a response, the error that its    *)
(* payload caused, or the complaint about a packet of another type.          *)
Outcome ==
  IF ~frame.response THEN "malformed" ELSE IF frame.body = None THEN "error" ELSE frame.body

(* A response is sent and its entry removed; a packet of another type is     *)
(* answered with an error and its entry kept. The mutex is held meanwhile.   *)
TransSend ==
  /\ rcv = "send"
  /\ SendTo(recver_map[frame.id], Outcome)
  /\ recver_map' = IF frame.response THEN [recver_map EXCEPT ![frame.id] = None]
                   ELSE recver_map
  /\ rcv' = "upgrade" /\ locked' = FALSE
  /\ UNCHANGED <<os, held, queue, sndVars, frame, drain, strong, fd, peerVars>>

(* Error::Socket: fail every entry, one rendezvous after the other under the *)
(* mutex, then clear the map and end.                                        *)
DrainLock ==
  /\ rcv = "drain" /\ ~locked
  /\ locked' = TRUE /\ drain' = {i \in Id : recver_map[i] # None}
  /\ UNCHANGED <<os, callerVars, queue, sndVars, recver_map, rcv, frame, strong, fd, peerVars>>

DrainSend(i) ==
  /\ rcv = "drain" /\ locked /\ i \in drain
  /\ SendTo(recver_map[i], "error")
  /\ drain' = drain \ {i}
  /\ UNCHANGED <<os, held, queue, sndVars, mapVars, rcv, frame, strong, fd, peerVars>>

DrainEnd ==
  /\ rcv = "drain" /\ locked /\ drain = {}
  /\ recver_map' = [i \in Id |-> None] /\ locked' = FALSE
  /\ rcv' = "ended"
  /\ CloseWithLast(snd)
  /\ UNCHANGED <<os, callerVars, queue, sndVars, frame, drain, strong, peerVars>>

-----------------------------------------------------------------------------
(* The peer (external): it answers requests it has received, may send frames *)
(* nobody asked for, may stop inside a frame, and closes.                    *)
Connected == snd # "new" /\ fd \in {"open", "closed"} /\ peer = "open"

Begin(f) ==
  /\ Connected /\ frames < MaxFrames
  /\ inbox # <<>> => inbox[Len(inbox)].whole
  /\ inbox' = Append(inbox, f) /\ frames' = frames + 1

PeerAnswers(i) ==
  /\ sent[i] # None
  /\ \E w \in BOOLEAN : Begin([id |-> i, response |-> TRUE, body |-> sent[i], whole |-> w])
  /\ answered' = answered \cup {sent[i]}
  /\ UNCHANGED <<os, callerVars, queue, sndVars, mapVars, rcvVars, fd, peer, sent>>

PeerMisbehaves(i) ==
  /\ i # 0 => sent[i] # None
  /\ \E w, r \in BOOLEAN :
       /\ w \/ (r /\ i # 0)
       /\ i = 0 => r
       /\ Begin([id |-> i, response |-> r, body |-> None, whole |-> w])
  /\ UNCHANGED <<os, callerVars, queue, sndVars, mapVars, rcvVars, fd, peer, sent, answered>>

PeerFinishes ==
  /\ Connected /\ inbox # <<>> /\ ~inbox[Len(inbox)].whole
  /\ inbox' = [inbox EXCEPT ![Len(inbox)].whole = TRUE]
  /\ UNCHANGED <<os, callerVars, queue, sndVars, mapVars, rcvVars, fd, peer, sent, answered,
                 frames>>

PeerCloses ==
  /\ Connected
  /\ peer' = "closed"
  /\ UNCHANGED <<os, callerVars, queue, sndVars, mapVars, rcvVars, fd, sent, inbox, answered,
                 frames>>

-----------------------------------------------------------------------------
CallerStep(c) == Recv(c) \/ RecvTimeout(c)

SenderStep ==
  \/ SenderTake \/ SenderEnds \/ SenderInsert
  \/ SenderRemove \/ SenderReply

Write == WriteOk \/ WriteFails

ReceiverStep ==
  \/ Upgrade \/ UpgradeFails \/ ReadyNone \/ ReadySome
  \/ ReadBlocks \/ ReadFrame \/ ReadTruncated \/ ReadError \/ ReadForeign
  \/ TransUnknown \/ TransLock \/ TransSend
  \/ DrainLock \/ (\E i \in Id : DrainSend(i)) \/ DrainEnd

Peer ==
  \/ \E i \in Id : PeerAnswers(i)
  \/ \E i \in Id \cup {0} : PeerMisbehaves(i)
  \/ PeerFinishes \/ PeerCloses

Next ==
  \/ Connect \/ ConnectFails \/ HookRejects \/ NewClient
  \/ \E c \in Caller : Request(c) \/ RequestOversized(c) \/ CallerStep(c) \/ DropClient(c)
  \/ SenderStep \/ Write
  \/ ReceiverStep \/ ReadyInterrupted \/ ReadyError \/ ForeignReturns
  \/ Peer

Spec == Init /\ [][Next]_vars

(* Threads are scheduled, timers fire, and signals do not interrupt every    *)
(* poll. A write returns once the peer has closed; until then it may block.  *)
(* A read or a write of a number that names another file may block for ever. *)
(* The peer, the callers' choice to call or drop, and poll errors are free.  *)
FairSpec ==
  /\ Spec
  /\ \A c \in Caller : WF_vars(CallerStep(c))
  /\ WF_vars(SenderStep) /\ WF_vars(peer = "closed" /\ fd = "open" /\ Write)
  /\ WF_vars(ReceiverStep) /\ SF_vars(ReadySome)

-----------------------------------------------------------------------------
InCall(c) == pc[c] \in {"called", "recv"}
Registered(c) == \E i \in Id : recver_map[i] = c
Gone(thread) == thread \in {"ended", "broken"}

(* An entry of the map belongs to the request that was given its stream id,  *)
(* and outlives the call only where the code lets it: when the caller timed  *)
(* out or was told of a malformed packet. Answered, refused and failed       *)
(* requests leave nothing behind (client.rs:150-189, 330-354).               *)
MapExact ==
  /\ TypeOK
  /\ \A i \in Id : recver_map[i] # None =>
       /\ id[recver_map[i]] = i
       /\ (pc[recver_map[i]] = "done" /\ ~locked) =>
            result[recver_map[i]] \in {"timeout", "malformed"}

(* The descriptor is never closed under a call in progress or under the      *)
(* receiver's poll; on Windows not before both threads are gone. On Unix the *)
(* threads may still hold the number: what they read or write then is on     *)
(* behalf of callers that have all returned.                                 *)
DescriptorOwned ==
  fd = "closed" =>
    /\ \A c \in Caller : ~InCall(c)
    /\ rcv # "ready"
    /\ os = "windows" => Gone(rcv) /\ Gone(snd)

(* What the callers see is what UnaryCalls promises: at most one end, and    *)
(* success only with the peer's answer to this very request.                 *)
Call == [c \in Caller |->
  CASE pc[c] = "idle" -> "idle"
    [] InCall(c) -> "pending"
    [] pc[c] = "done" /\ result[c] = c -> "ok"
    [] pc[c] = "done" /\ result[c] \in Failure -> "failed"
    [] OTHER -> "crossed"]
Unary == INSTANCE UnaryCalls WITH Calls <- Caller, call <- Call, produced <- answered
CallsRefine == Unary!CallSpec

(* A request that is registered while the receiver thread lives ends when    *)
(* the peer closes, with or without a deadline.                              *)
HangupEndsCalls ==
  \A c \in Caller :
    (peer = "closed" /\ ~Gone(rcv) /\ Registered(c)) ~> (pc[c] = "done" \/ rcv = "broken")

(* When the last clone of the Client is dropped the descriptor is released   *)
(* and the threads end, at the latest when the peer closes; except a thread  *)
(* that went on to use the number after the close, on Unix, and is inside a  *)
(* read or a write of the file it names now. The receiver does not wait for  *)
(* the peer on Unix unless it is inside a frame (client.rs:200-242, 309-327, *)
(* unix/net.rs:180-206).                                                     *)
DropReleases ==
  /\ (held = {} /\ snd # "new" /\ peer = "closed") ~>
       /\ fd # "open"
       /\ Gone(snd) \/ (os = "unix" /\ snd = "write")
       /\ Gone(rcv) \/ (os = "unix" /\ rcv = "foreign")
  /\ (os = "unix" /\ held = {} /\ snd # "new") ~> (Gone(rcv) \/ rcv \in {"body", "foreign"})

=============================================================================
