------------------------------- MODULE TypedRpc -------------------------------
(***************************************************************************)
(* One RPC through the bindings the code generators write, from the        *)
(* client's stub over Client and StreamInner, the two directions of a      *)
(* healthy connection, the server's dispatch and per-frame tasks, to the   *)
(* handler macro around the service method, and back. It composes what     *)
(* AsyncClient and AsyncServer model one side at a time; failures of the   *)
(* connection are theirs, here frames arrive in order and no transform     *)
(* refuses one.                                                            *)
(*                                                                         *)
(* The method is any of the four kinds; stub and handler are generated     *)
(* from the same schema, each by either code generator. Messages are       *)
(* numbered in the order in which the application sends them.              *)
(***************************************************************************)
EXTENDS Naturals, Sequences, FiniteSets

CONSTANTS MaxReq,     \* bound: requests the client sends on a stream
          MaxResp,    \* bound: responses the service sends on a stream
          StreamCap   \* capacity of a server stream's channel (100)

ASSUME BoundAssumption ==
  MaxReq \in Nat \ {0} /\ MaxResp \in Nat /\ StreamCap \in Nat \ {0}

VARIABLES
  method,              \* client_streaming and server_streaming of the schema
  gen, packaged,       \* generator of each side; has the schema a package?
  timed,               \* the request carries a timeout_nano
  cpc, outcome,        \* the client application: control point, how it ended
  creq, local_closed,  \* requests it sent; StreamSender.local_closed
  got,                 \* responses it received
  creg, mailbox,       \* Client.streams has the entry; its result channel
  c2s, s2c,            \* frames under way in the two directions
  tasks,               \* DATA frames whose server tasks have not delivered
  rtask,               \* the task of the REQUEST frame
  sreg, schan,         \* ServerReader.streams has the entry; the channel
  hpc, hresult,        \* the service method: control point, how it returned
  hin, hclosed, hout   \* requests it received, end seen, responses it sent

conf    == <<method, gen, packaged, timed>>
clientV == <<cpc, outcome, creq, local_closed, got, creg, mailbox>>
serverV == <<tasks, rtask, sreg, schan>>
handleV == <<hpc, hresult, hin, hclosed, hout>>
vars == <<conf, clientV, c2s, s2c, serverV, handleV>>

Kind == {"Unary", "ClientStreaming", "ServerStreaming", "Duplex"}

(* method_type, from_method: the same in both generators.                    *)
MethodType ==
  CASE ~method.client_streaming /\ ~method.server_streaming -> "Unary"
    [] method.client_streaming /\ ~method.server_streaming  -> "ClientStreaming"
    [] ~method.client_streaming /\ method.server_streaming  -> "ServerStreaming"
    [] method.client_streaming /\ method.server_streaming   -> "Duplex"

(* The service name in requests and in the server's table: service_path of   *)
(* the rust-protobuf generator, service_full_name of prost's. Only the       *)
(* latter leaves the dot out of a name without a package.                    *)
ServicePath == IF packaged THEN "package.Service" ELSE ".Service"
ServiceFullName == IF packaged THEN "package.Service" ELSE "Service"

ServiceName(side) == IF gen[side] = "prost" THEN ServiceFullName ELSE ServicePath

Frame == [type : {"request", "data", "response"}, flags : SUBSET {"closed", "open", "no_data"},
          status : {"ok", "error", "inactive", "unknown", "deadline", "oversize"}, n : Nat]
Data(n) == [type |-> "data", flags |-> {}, status |-> "ok", n |-> n]
Close == [type |-> "data", flags |-> {"closed", "no_data"}, status |-> "ok", n |-> 0]
Response(st) == [type |-> "response", flags |-> {}, status |-> st, n |-> 0]

Init ==
  /\ method \in [client_streaming : BOOLEAN, server_streaming : BOOLEAN]
  /\ gen \in [{"client", "server"} -> {"protobuf", "prost"}] /\ packaged \in BOOLEAN
  /\ timed \in BOOLEAN
  /\ cpc = "idle" /\ outcome = "none" /\ creq = 0 /\ local_closed = FALSE /\ got = <<>>
  /\ creg = FALSE /\ mailbox = <<>> /\ c2s = <<>> /\ s2c = <<>>
  /\ tasks = {} /\ rtask = "none" /\ sreg = FALSE /\ schan = <<>>
  /\ hpc = "none" /\ hresult = "none" /\ hin = <<>> /\ hclosed = FALSE /\ hout = 0

-----------------------------------------------------------------------------
(* The client.                                                               *)

(* new_stream: the flags of the REQUEST frame.                               *)
RequestFlags == IF method.client_streaming THEN {"open", "no_data"} ELSE {"closed"}

(* The stub of a unary method calls request ...                              *)
CallUnary ==
  /\ cpc = "idle" /\ MethodType = "Unary"
  /\ cpc' = "wait" /\ creg' = TRUE /\ creq' = 1
  /\ c2s' = <<[type |-> "request", flags |-> {}, status |-> "ok", n |-> 1]>>
  /\ UNCHANGED <<conf, outcome, local_closed, got, mailbox, s2c, serverV, handleV>>

(* ... the others new_stream: with the request as payload for a method that  *)
(* only streams responses, without one for a method that streams requests.   *)
CallStream ==
  /\ cpc = "idle" /\ MethodType # "Unary"
  /\ creg' = TRUE
  /\ creq' = IF method.client_streaming THEN 0 ELSE 1
  /\ cpc' = IF method.client_streaming THEN "open" ELSE "wait"
  /\ c2s' = <<[type |-> "request", flags |-> RequestFlags, status |-> "ok", n |-> creq']>>
  /\ UNCHANGED <<conf, outcome, local_closed, got, mailbox, s2c, serverV, handleV>>

(* ClientStreamSender::send, CSSender::send. The sending half of a duplex    *)
(* stream does not know that the receiving half has seen the end.            *)
Send ==
  /\ cpc = "open" \/ (cpc = "done" /\ MethodType = "Duplex" /\ outcome # "dropped")
  /\ ~local_closed /\ creq < MaxReq
  /\ creq' = creq + 1 /\ c2s' = Append(c2s, Data(creq'))
  /\ UNCHANGED <<conf, cpc, outcome, local_closed, got, creg, mailbox, s2c, serverV, handleV>>

(* close_send, on its own or as the first half of close_and_recv.            *)
CloseSend ==
  /\ cpc = "open" /\ ~local_closed
  /\ local_closed' = TRUE /\ cpc' = "wait" /\ c2s' = Append(c2s, Close)
  /\ UNCHANGED <<conf, outcome, creq, got, creg, mailbox, s2c, serverV, handleV>>

Terminal(f) == f.type = "response" \/ "closed" \in f.flags

(* Mutant: a terminal frame leaves the stream registered.                    *)
RouteKeeps ==
  /\ s2c # <<>>
  /\ s2c' = Tail(s2c)
  /\ mailbox' = IF creg THEN Append(mailbox, Head(s2c)) ELSE mailbox
  /\ UNCHANGED <<conf, cpc, outcome, creq, local_closed, got, creg, c2s, serverV, handleV>>

(* The client's reader routes a frame; a terminal one takes the entry, and   *)
(* what comes for a stream without an entry is dropped.                      *)
Route ==
  /\ s2c # <<>>
  /\ s2c' = Tail(s2c)
  /\ mailbox' = IF creg THEN Append(mailbox, Head(s2c)) ELSE mailbox
  /\ creg' = (creg /\ ~Terminal(Head(s2c)))
  /\ UNCHANGED <<conf, cpc, outcome, creq, local_closed, got, c2s, serverV, handleV>>

(* StreamReceiver::recv under the typed receivers, and the end of request: a *)
(* response ends the call, DATA is a message unless the stream is not        *)
(* receivable, a close is Eof, which the typed receivers return as None.     *)
Received(f) ==
  CASE f.type = "response" -> f.status
    [] f.type = "data" /\ ~method.server_streaming -> "protocol"
    [] f.type = "data" /\ method.server_streaming /\ "closed" \in f.flags -> "eof"
    [] OTHER -> "none"

Recv ==
  /\ cpc = "wait" \/ (cpc = "open" /\ MethodType = "Duplex")
  /\ mailbox # <<>>
  /\ LET f == Head(mailbox) IN
       /\ outcome' = Received(f)
       /\ cpc' = IF Received(f) = "none" THEN cpc ELSE "done"
       /\ got' = IF Received(f) = "none" THEN Append(got, f.n) ELSE got
  /\ mailbox' = Tail(mailbox)
  /\ UNCHANGED <<conf, creq, local_closed, creg, c2s, s2c, serverV, handleV>>

(* The application drops the stream, or cancels the call, or the client's    *)
(* own deadline runs out: the entry goes, the server is not told.            *)
Drop ==
  /\ cpc \in {"open", "wait"}
  /\ cpc' = "done" /\ outcome' = "dropped" /\ creg' = FALSE /\ mailbox' = <<>>
  /\ UNCHANGED <<conf, creq, local_closed, got, c2s, s2c, serverV, handleV>>

-----------------------------------------------------------------------------
(* The server.                                                               *)

(* The generated create_... function puts the method under its service's     *)
(* name; handle_request finds it or answers.                                 *)
Registered == ServiceName("client") = ServiceName("server")

(* Which table of its Service the method is put into ...                     *)
Bound == IF MethodType = "Unary" THEN "methods" ELSE "streams"

(* ... and where its handler macro begins: a method that streams only        *)
(* responses has its request taken from the stream first.                    *)
HandlerEntry == IF MethodType = "ServerStreaming" THEN "request" ELSE "serve"

Refuse ==
  /\ c2s # <<>> /\ Head(c2s).type = "request" /\ ~Registered
  /\ c2s' = Tail(c2s) /\ s2c' = Append(s2c, Response("unknown"))
  /\ UNCHANGED <<conf, clientV, serverV, handleV>>

(* handle_method: the handler macro decodes the request and calls.           *)
HandleMethod ==
  /\ c2s # <<>> /\ Head(c2s).type = "request" /\ Registered /\ Bound = "methods"
  /\ c2s' = Tail(c2s) /\ hin' = <<Head(c2s).n>>
  /\ rtask' = "await" /\ hpc' = HandlerEntry
  /\ UNCHANGED <<conf, clientV, s2c, tasks, sreg, schan, hresult, hclosed, hout>>

(* handle_stream: register, and spawn the handler. The reader goes on.       *)
HandleStream ==
  /\ c2s # <<>> /\ Head(c2s).type = "request" /\ Registered /\ Bound = "streams"
  /\ c2s' = Tail(c2s) /\ sreg' = TRUE
  /\ rtask' = IF "no_data" \in Head(c2s).flags THEN "await" ELSE "first"
  /\ hpc' = HandlerEntry
  /\ UNCHANGED <<conf, clientV, s2c, tasks, schan, hresult, hin, hclosed, hout>>

(* The payload of the request becomes the first DATA message. If the handler *)
(* dropped its receiver, that is the answer and the handler is not awaited.  *)
FirstData ==
  /\ rtask = "first" /\ Len(schan) < StreamCap
  /\ IF sreg
     THEN rtask' = "await" /\ schan' = Append(schan, Data(creq)) /\ UNCHANGED s2c
     ELSE rtask' = "done" /\ s2c' = Append(s2c, Response("error")) /\ UNCHANGED schan
  /\ UNCHANGED <<conf, clientV, c2s, tasks, sreg, handleV>>

(* A DATA frame gets a task of its own.                                      *)
SpawnData ==
  /\ c2s # <<>> /\ Head(c2s).type = "data"
  /\ c2s' = Tail(c2s) /\ tasks' = tasks \cup {Head(c2s)}
  /\ UNCHANGED <<conf, clientV, s2c, rtask, sreg, schan, handleV>>

(* It delivers the frame, waiting for room, ...                              *)
Deliver(f) ==
  /\ f \in tasks /\ sreg /\ Len(schan) < StreamCap
  /\ tasks' = tasks \ {f} /\ schan' = Append(schan, f)
  /\ UNCHANGED <<conf, clientV, c2s, s2c, rtask, sreg, handleV>>

(* ... and answers with an error if the receiver is gone: not registered, or *)
(* dropped while the task waited.                                            *)
DeliverFails(f) ==
  /\ f \in tasks /\ ~sreg
  /\ tasks' = tasks \ {f} /\ s2c' = Append(s2c, Response("inactive"))
  /\ UNCHANGED <<conf, clientV, c2s, rtask, sreg, schan, handleV>>

(* Mutant: a streaming method that failed is ended like one that did not.    *)
FinalFrameCloses ==
  IF method.server_streaming THEN Close ELSE Response(hresult)

(* What the handler macros return becomes a response, or, for a streaming    *)
(* method that succeeded, a close.                                           *)
FinalFrame ==
  IF method.server_streaming /\ hresult = "ok" THEN Close ELSE Response(hresult)

(* A response that is too large is replaced by a small one that says so.     *)
Answers == {FinalFrame} \cup {f \in {Response("oversize")} : FinalFrame.type = "response"}

(* Mutant: nothing is sent for Ok(None).                                     *)
RespondSilently ==
  /\ rtask = "await" /\ hpc = "returned"
  /\ rtask' = "done"
  /\ \E f \in Answers : s2c' = IF f = Close THEN s2c ELSE Append(s2c, f)
  /\ UNCHANGED <<conf, clientV, c2s, tasks, sreg, schan, handleV>>

(* The REQUEST task has awaited the handler and answers.                     *)
Respond ==
  /\ rtask = "await" /\ hpc = "returned"
  /\ rtask' = "done"
  /\ \E f \in Answers : s2c' = Append(s2c, f)
  /\ UNCHANGED <<conf, clientV, c2s, tasks, sreg, schan, handleV>>

(* handle_method awaits the handler of a unary method under the request's    *)
(* time-out; a stream's handler is only told of it.                          *)
Deadline == timed /\ Bound = "methods"

(* The time-out drops the method's future half way.                          *)
MethodTimesOut ==
  /\ Deadline /\ rtask = "await" /\ hpc = "serve"
  /\ hpc' = "cancelled"
  /\ rtask' = "done" /\ s2c' = Append(s2c, Response("deadline"))
  /\ UNCHANGED <<conf, clientV, c2s, tasks, sreg, schan, hresult, hin, hclosed, hout>>

-----------------------------------------------------------------------------
(* The handler macro and the service method.                                 *)

(* async_server_streamimg_handler takes the request from the stream, and     *)
(* ServerStreamSender::new drops the receiving half.                         *)
RecvRequest ==
  /\ hpc = "request" /\ schan # <<>>
  /\ hin' = <<Head(schan).n>> /\ hpc' = "serve"
  /\ sreg' = FALSE /\ schan' = <<>>
  /\ UNCHANGED <<conf, clientV, c2s, s2c, tasks, rtask, hresult, hclosed, hout>>

(* ServerStreamReceiver::recv, SSReceiver::recv.                             *)
HandlerRecv ==
  /\ hpc = "serve" /\ sreg /\ ~hclosed /\ schan # <<>>
  /\ IF Head(schan) = Close THEN hclosed' = TRUE /\ UNCHANGED hin
     ELSE hin' = Append(hin, Head(schan).n) /\ UNCHANGED hclosed
  /\ schan' = Tail(schan)
  /\ UNCHANGED <<conf, clientV, c2s, s2c, tasks, rtask, sreg, hpc, hresult, hout>>

(* ServerStreamSender::send, SSSender::send.                                 *)
HandlerSend ==
  /\ hpc = "serve" /\ method.server_streaming /\ hout < MaxResp
  /\ hout' = hout + 1 /\ s2c' = Append(s2c, Data(hout'))
  /\ UNCHANGED <<conf, clientV, c2s, serverV, hpc, hresult, hin, hclosed>>

(* The method drops its receiving half before it returns.                    *)
DropReceiver ==
  /\ hpc = "serve" /\ sreg
  /\ sreg' = FALSE /\ schan' = <<>>
  /\ UNCHANGED <<conf, clientV, c2s, s2c, tasks, rtask, handleV>>

(* It returns, at any time, with or without an error.                        *)
HandlerReturns ==
  /\ hpc = "serve"
  /\ hpc' = "returned" /\ hresult' \in {"ok", "error"}
  /\ sreg' = FALSE /\ schan' = <<>>
  /\ UNCHANGED <<conf, clientV, c2s, s2c, tasks, rtask, hin, hclosed, hout>>

-----------------------------------------------------------------------------
ClientStep == CallUnary \/ CallStream \/ Send \/ CloseSend \/ Drop
ServerStep == Refuse \/ HandleMethod \/ HandleStream \/ SpawnData
DataTask(f) == Deliver(f) \/ DeliverFails(f)

DataFrame == {Close} \cup {Data(n) : n \in 1..MaxReq}

Next ==
  \/ ClientStep \/ Route \/ Recv
  \/ ServerStep \/ FirstData \/ Respond \/ MethodTimesOut
  \/ \E f \in DataFrame : DataTask(f)
  \/ RecvRequest \/ HandlerRecv \/ HandlerSend \/ DropReceiver \/ HandlerReturns

Spec == Init /\ [][Next]_vars

(* The tasks and timers of both runtimes run, a client that waits takes what *)
(* comes, and a service method reads what it is sent and returns when its    *)
(* input ends or it has no more, unless a time-out takes care of it. Whether *)
(* the client closes or drops is free.                                       *)
FairSpec ==
  /\ Spec
  /\ WF_vars(Route) /\ WF_vars(cpc = "wait" /\ Recv)
  /\ WF_vars(ServerStep) /\ WF_vars(FirstData \/ Respond \/ MethodTimesOut)
  /\ \A f \in DataFrame : WF_vars(DataTask(f))
  /\ WF_vars(RecvRequest \/ HandlerRecv)
  /\ WF_vars(~Deadline /\ (sreg => hclosed) /\ HandlerReturns)

-----------------------------------------------------------------------------
TypeOK ==
  /\ MethodType \in Kind /\ packaged \in BOOLEAN /\ timed \in BOOLEAN
  /\ cpc \in {"idle", "open", "wait", "done"} /\ creq \in 0..MaxReq
  /\ outcome \in {"none", "ok", "error", "inactive", "unknown", "deadline", "oversize",
                  "protocol", "eof", "dropped"}
  /\ creg \in BOOLEAN /\ local_closed \in BOOLEAN /\ sreg \in BOOLEAN
  /\ mailbox \in Seq(Frame) /\ c2s \in Seq(Frame) /\ s2c \in Seq(Frame)
  /\ schan \in Seq(Frame) /\ Len(schan) <= StreamCap /\ tasks \subseteq DataFrame
  /\ rtask \in {"none", "first", "await", "done"}
  /\ hpc \in {"none", "request", "serve", "returned", "cancelled"}
  /\ hresult \in {"none", "ok", "error"}
  /\ hout \in 0..MaxResp /\ hclosed \in BOOLEAN

(* The two sides of the generated bindings agree about the frames: the       *)
(* service sees requests the client sent, each at most once, and the request *)
(* of a call that does not stream requests exactly once; the client sees the *)
(* responses in order and nothing after the frame that ends the call,        *)
(* although errors for late DATA and the handler's result are sent by        *)
(* different tasks; and no side receives a frame its stream is not for.      *)
ExchangeExact ==
  /\ TypeOK
  /\ \A i \in 1..Len(hin) : hin[i] \in 1..creq
  /\ \A i, j \in 1..Len(hin) : i # j => hin[i] # hin[j]
  /\ (hpc \in {"serve", "returned"} /\ ~method.client_streaming) => hin = <<1>>
  /\ Len(got) <= hout /\ \A i \in 1..Len(got) : got[i] = i
  /\ \A i \in 1..Len(mailbox) : Terminal(mailbox[i]) => i = Len(mailbox) /\ ~creg
  /\ outcome # "protocol" /\ (cpc = "done" => mailbox = <<>> /\ ~creg)

(* What the client is told is what happened: success or an error of the      *)
(* service only if the method returned so, the end of a stream only after    *)
(* all its messages. It is told that the stream is not active although the   *)
(* method has succeeded only if the method left something unread that the    *)
(* client had sent, and that the service does not exist only if the two      *)
(* sides were generated differently for a schema without a package. Of the   *)
(* server's own errors, that the time is up means that it was limited and    *)
(* the method will not complete, that the answer is too large that it has.   *)
OutcomeTruthful ==
  /\ outcome = "ok" => hresult = "ok"
  /\ outcome = "error" => hresult = "error"
  /\ outcome = "eof" => hresult = "ok" /\ Len(got) = hout
  /\ outcome = "inactive" => creq > Len(hin) \/ (local_closed /\ ~hclosed)
  /\ outcome = "deadline" => Deadline /\ hpc = "cancelled"
  /\ outcome = "oversize" => hpc = "returned"
  /\ outcome = "unknown" => ~packaged /\ gen["client"] # gen["server"] /\ hpc = "none"

(* A client that has closed its side, or never had one to close, gets a      *)
(* result, although its close may overtake its data on the server, the       *)
(* stream's channel may be full and the method may stop reading early; a     *)
(* unary call with a time-out also when the method never returns.            *)
RpcEnds == cpc = "wait" ~> cpc = "done"
=============================================================================
