---------------------------- MODULE TypedRpcProofs ----------------------------
(***************************************************************************)
(* Proofs about an RPC through the generated bindings, for any number of   *)
(* requests and responses, any capacity of the stream's channel, the four  *)
(* kinds of method and all pairs of generators: what each side sees of the *)
(* exchange, and that the client is told what happened.                    *)
(***************************************************************************)
EXTENDS TypedRpc, FiniteSetTheorems, TLAPS

-----------------------------------------------------------------------------
(* The inductive invariant.                                                  *)

Request ==
  [type |-> "request", flags |-> IF MethodType = "Unary" THEN {} ELSE RequestFlags,
   status |-> "ok", n |-> IF method.client_streaming THEN 0 ELSE 1]

(* The REQUEST frame has not been dispatched yet.                            *)
Pending == c2s # <<>> /\ c2s[1] = Request

(* What the client has put on its stream so far.                             *)
Sent == {Data(n) : n \in 1..creq} \cup {f \in {Close} : local_closed}

Status == {"ok", "error", "inactive", "unknown", "deadline", "oversize"}
Statuses == {Response(st) : st \in Status}

(* Types, with the two histories that TypeOK leaves open.                    *)
Types ==
  /\ TypeOK /\ hin \in Seq(Nat) /\ got \in Seq(Nat)
  /\ method \in [client_streaming : BOOLEAN, server_streaming : BOOLEAN]

(* Nothing happens before the call and before its REQUEST is dispatched.     *)
Untouched ==
  /\ s2c = <<>> /\ mailbox = <<>> /\ got = <<>>
  /\ tasks = {} /\ rtask = "none" /\ hpc = "none"

(* The client: where it is in its call and what it has sent. A method that   *)
(* does not stream requests sends one REQUEST frame and nothing else.        *)
Calling ==
  /\ cpc = "idle" => Untouched /\ c2s = <<>> /\ ~creg /\ creq = 0 /\ ~local_closed
  /\ Pending => Untouched
  /\ \A k \in 1..Len(c2s) : (k = 1 /\ c2s[k] = Request) \/ c2s[k] \in Sent
  /\ outcome = "none" <=> cpc # "done"
  /\ cpc = "open" => method.client_streaming /\ ~local_closed
  /\ cpc = "done" => ~creg /\ mailbox = <<>>
  /\ ~method.client_streaming =>
       /\ ~local_closed /\ tasks = {} /\ creq = (IF cpc = "idle" THEN 0 ELSE 1)
       /\ \A k \in 1..Len(c2s) : c2s[k] = Request

(* The handler: registered while it holds the receiving half; a request that *)
(* came with the REQUEST frame reaches it alone and first.                   *)
Serving ==
  /\ hpc = "none" => rtask = "none" /\ ~sreg /\ hin = <<>> /\ ~hclosed /\ hout = 0
  /\ hpc # "none" => Registered
  /\ hpc = "request" => /\ MethodType = "ServerStreaming" /\ sreg /\ hin = <<>>
                        /\ rtask = "first" \/ schan = <<Data(1)>>
  /\ rtask = "first" => hpc = "request" /\ schan = <<>>
  /\ hpc \in {"serve", "returned"} /\ ~method.client_streaming => hin = <<1>> /\ ~sreg
  /\ hpc = "returned" <=> hresult # "none"
  /\ hpc = "returned" => ~sreg
  /\ ~sreg => schan = <<>>

(* A frame of the client's stream is in one place: on the wire, in its task, *)
(* in the channel, or taken by the handler.                                  *)
Taken(f) == IF f = Close THEN hclosed ELSE \E i \in 1..Len(hin) : hin[i] = f.n
OneC2s == \A j, k \in 1..Len(c2s) : c2s[j] = c2s[k] => j = k
OneSchan == \A j, k \in 1..Len(schan) : schan[j] = schan[k] => j = k
OneHin == \A i, j \in 1..Len(hin) : hin[i] = hin[j] => i = j
Apart ==
  /\ \A k \in 1..Len(c2s) : c2s[k] \in Sent => c2s[k] \notin tasks /\ ~Taken(c2s[k])
  /\ \A k \in 1..Len(c2s) : \A l \in 1..Len(schan) : c2s[k] # schan[l]
  /\ \A k \in 1..Len(schan) : schan[k] \in Sent /\ schan[k] \notin tasks /\ ~Taken(schan[k])
  /\ \A f \in tasks : f \in Sent /\ ~Taken(f)
  /\ hclosed => local_closed
  /\ \A i \in 1..Len(hin) : hin[i] \in 1..creq
Transit == OneC2s /\ OneSchan /\ OneHin /\ Apart

(* Replies that the client still takes are consecutive up to the first one   *)
(* that ends the call, and a close comes behind all of them.                 *)
Plain(k) == \A j \in 1..k : ~Terminal(s2c[j])
Base == Len(got) + Len(mailbox)
Reply(f) == f \in Statuses \/ (method.server_streaming /\ (f = Close \/ f = Data(f.n)))
Mailbox ==
  /\ \A k \in 1..Len(mailbox) :
       /\ Reply(mailbox[k])
       /\ Terminal(mailbox[k]) => k = Len(mailbox) /\ ~creg
       /\ ~Terminal(mailbox[k]) => mailbox[k] = Data(Len(got) + k) /\ Len(got) + k <= hout
       /\ mailbox[k] = Close => hout = Len(got) + k - 1
  /\ Len(got) <= hout /\ \A i \in 1..Len(got) : got[i] = i
Wire ==
  /\ \A k \in 1..Len(s2c) : Reply(s2c[k])
  /\ creg =>
       /\ \A k \in 1..Len(s2c) : Plain(k) => s2c[k] = Data(Base + k) /\ Base + k <= hout
       /\ \A k \in 1..Len(s2c) : Plain(k - 1) /\ s2c[k] = Close => hout = Base + k - 1
       /\ Plain(Len(s2c)) => hout = Base + Len(s2c)

(* What the frames under way to the client say is so.                        *)
Missed ==
  /\ ~sreg /\ ~Pending /\ cpc # "idle"
  /\ creq > Len(hin) \/ (local_closed /\ ~hclosed)
Claim(f) ==
  /\ f = Response("ok") \/ f = Close => hresult = "ok"
  /\ f = Response("error") => hresult = "error"
  /\ f = Response("inactive") => Missed
  /\ f = Response("unknown") => ~Registered
  /\ f = Response("deadline") => Deadline /\ hpc = "cancelled"
  /\ f = Response("oversize") => hpc = "returned"
Truth ==
  /\ \A k \in 1..Len(s2c) : Claim(s2c[k])
  /\ \A k \in 1..Len(mailbox) : Claim(mailbox[k])
  /\ outcome # "protocol"
  /\ outcome \in {"ok", "eof"} => hresult = "ok"
  /\ outcome = "error" => hresult = "error"
  /\ outcome = "eof" => Len(got) = hout
  /\ outcome = "inactive" => Missed
  /\ outcome = "unknown" => ~Registered
  /\ outcome = "deadline" => Deadline /\ hpc = "cancelled"
  /\ outcome = "oversize" => hpc = "returned"

IInv == Types /\ Calling /\ Serving /\ Transit /\ Mailbox /\ Wire /\ Truth

-----------------------------------------------------------------------------
(* Sequences.                                                                *)
LEMMA AppendFacts ==
  ASSUME NEW S, NEW s \in Seq(S), NEW e \in S
  PROVE  /\ Append(s, e) \in Seq(S) /\ Len(Append(s, e)) = Len(s) + 1 /\ Len(s) \in Nat
         /\ \A k \in 1..Len(s) : Append(s, e)[k] = s[k]
         /\ Append(s, e)[Len(s) + 1] = e
         /\ \A k \in 1..(Len(s) + 1) : k \in 1..Len(s) \/ k = Len(s) + 1
  <1>1. Append(s, e) \in Seq(S) /\ Len(Append(s, e)) = Len(s) + 1 /\ Len(s) \in Nat
    OBVIOUS
  <1>2. \A k \in 1..Len(s) : Append(s, e)[k] = s[k]
    BY <1>1
  <1>3. Append(s, e)[Len(s) + 1] = e
    BY <1>1
  <1>4. \A k \in 1..(Len(s) + 1) : k \in 1..Len(s) \/ k = Len(s) + 1
    BY <1>1
  <1> QED BY <1>1, <1>2, <1>3, <1>4

LEMMA TailFacts ==
  ASSUME NEW S, NEW s \in Seq(S), s # <<>>
  PROVE  /\ Head(s) \in S /\ Head(s) = s[1] /\ Len(s) \in Nat /\ Len(s) >= 1
         /\ Tail(s) \in Seq(S) /\ Len(Tail(s)) = Len(s) - 1
         /\ \A k \in 1..(Len(s) - 1) : Tail(s)[k] = s[k + 1] /\ k + 1 \in 1..Len(s)
  <1>1. Head(s) \in S /\ Head(s) = s[1] /\ Len(s) \in Nat /\ Len(s) >= 1
    OBVIOUS
  <1>2. Tail(s) \in Seq(S) /\ Len(Tail(s)) = Len(s) - 1
    OBVIOUS
  <1>3. \A k \in 1..(Len(s) - 1) : Tail(s)[k] = s[k + 1] /\ k + 1 \in 1..Len(s)
    BY <1>1
  <1> QED BY <1>1, <1>2, <1>3

LEMMA NoElements ==
  ASSUME NEW S, NEW s \in Seq(S), Len(s) = 0 PROVE s = <<>>
  OBVIOUS

LEMMA LastTail ==
  ASSUME NEW S, NEW s \in Seq(S), Len(s) = 1 PROVE Tail(s) = <<>>
  <1>1. Tail(s) \in Seq(S) /\ Len(Tail(s)) = 0
    OBVIOUS
  <1> QED BY <1>1, NoElements

LEMMA ShortSeqs ==
  ASSUME NEW S
  PROVE  /\ <<>> \in Seq(S) /\ Len(<<>>) = 0
         /\ \A x \in S : <<x>> \in Seq(S) /\ Len(<<x>>) = 1 /\ <<x>>[1] = x /\ Head(<<x>>) = x
  OBVIOUS

(* The kinds of frame are told apart. From here on Data, Close and Response  *)
(* are known by these facts only.                                            *)
LEMMA Frames ==
  /\ \A n \in Nat : /\ Data(n) \in Frame /\ Data(n).type = "data" /\ Data(n).n = n
                    /\ ~Terminal(Data(n)) /\ Data(n) # Close /\ Data(n).flags = {}
  /\ \A m, n \in Nat : Data(m) = Data(n) => m = n
  /\ Close \in Frame /\ Close.type = "data" /\ Terminal(Close) /\ "closed" \in Close.flags
  /\ \A st \in Status : /\ Response(st) \in Frame /\ Response(st).type = "response"
                        /\ Terminal(Response(st)) /\ Response(st).status = st
                        /\ Response(st) # Close
  /\ \A n \in Nat : \A st : Data(n) # Response(st)
  <1>1. \A n \in Nat : /\ Data(n) \in Frame /\ Data(n).type = "data" /\ Data(n).n = n
                       /\ ~Terminal(Data(n)) /\ Data(n) # Close /\ Data(n).flags = {}
    <2> TAKE n \in Nat
    <2>1. Data(n) \in Frame /\ Data(n).type = "data" /\ Data(n).n = n /\ Data(n).flags = {}
      BY DEF Data, Frame
    <2>2. Close.flags # {}
      BY DEF Close
    <2> QED BY <2>1, <2>2 DEF Terminal
  <1>2. \A m, n \in Nat : Data(m) = Data(n) => m = n
    BY <1>1
  <1>3. Close \in Frame /\ Close.type = "data" /\ Terminal(Close) /\ "closed" \in Close.flags
    BY DEF Close, Frame, Terminal
  <1>4. \A st \in Status : /\ Response(st) \in Frame /\ Response(st).type = "response"
                           /\ Terminal(Response(st)) /\ Response(st).status = st
                           /\ Response(st) # Close
    <2> TAKE st \in Status
    <2>1. Response(st) \in Frame /\ Response(st).type = "response" /\ Response(st).status = st
      BY DEF Response, Frame, Status
    <2> QED BY <2>1, <1>3 DEF Terminal
  <1>5. \A n \in Nat : \A st : Data(n) # Response(st)
    BY <1>1 DEF Response
  <1> QED BY <1>1, <1>2, <1>3, <1>4, <1>5

LEMMA RequestFrame ==
  ASSUME Types
  PROVE  /\ Request \in Frame /\ Request.type = "request"
         /\ Request.n = IF method.client_streaming THEN 0 ELSE 1
         /\ "no_data" \in Request.flags <=> method.client_streaming
         /\ \A n \in Nat : Request # Data(n)
         /\ Request # Close
  <1>1. MethodType = "Unary" <=> ~method.client_streaming /\ ~method.server_streaming
    BY DEF MethodType, Types
  <1>2. /\ Request \in Frame /\ Request.type = "request"
        /\ Request.n = IF method.client_streaming THEN 0 ELSE 1
    BY DEF Request, Frame, RequestFlags, Types
  <1>3. "no_data" \in Request.flags <=> method.client_streaming
    BY <1>1 DEF Request, RequestFlags, Types
  <1> QED BY <1>2, <1>3, Frames

(* The elements of Sent, and how it grows.                                   *)
LEMMA SentFrames ==
  ASSUME Types, NEW f \in Sent
  PROVE  /\ f \in DataFrame /\ f \in Frame /\ f.type = "data" /\ f # Request
         /\ (f = Close /\ local_closed) \/ (f = Data(f.n) /\ f.n \in 1..creq /\ f # Close)
  <1>0. creq \in 0..MaxReq /\ MaxReq \in Nat
    BY BoundAssumption DEF Types, TypeOK
  <1>1. CASE f = Close /\ local_closed
    BY <1>1, Frames, RequestFrame DEF DataFrame
  <1>2. ASSUME NEW n \in 1..creq, f = Data(n)
        PROVE  /\ f \in DataFrame /\ f \in Frame /\ f.type = "data" /\ f # Request
               /\ f = Data(f.n) /\ f.n \in 1..creq /\ f # Close
    <2>1. n \in Nat /\ n \in 1..MaxReq
      BY <1>0
    <2> QED BY <1>2, <2>1, Frames, RequestFrame DEF DataFrame
  <1> QED BY <1>1, <1>2 DEF Sent

LEMMA DataFrames ==
  ASSUME Types, NEW f \in DataFrame
  PROVE  f \in Frame /\ f.type = "data" /\ f # Request /\ (f # Close => f = Data(f.n) /\ f.n \in Nat)
  <1>1. \A n \in 1..MaxReq : n \in Nat
    BY BoundAssumption
  <1> QED BY <1>1, Frames, RequestFrame DEF DataFrame

LEMMA Kinds ==
  ASSUME Types
  PROVE  /\ method.client_streaming \in BOOLEAN /\ method.server_streaming \in BOOLEAN
         /\ MethodType = "Unary" <=> ~method.client_streaming /\ ~method.server_streaming
         /\ MethodType = "ServerStreaming" <=> ~method.client_streaming /\ method.server_streaming
         /\ MethodType = "Duplex" <=> method.client_streaming /\ method.server_streaming
  BY DEF MethodType, Types

(* The schema and the generators stay as they are.                           *)
LEMMA ConfSame ==
  ASSUME Next
  PROVE  /\ UNCHANGED <<method, gen, packaged, timed>>
         /\ MethodType' = MethodType /\ Registered' = Registered /\ Request' = Request
  <1>1. UNCHANGED <<method, gen, packaged, timed>>
    BY DEF Next, ClientStep, ServerStep, DataTask, CallUnary, CallStream, Send, CloseSend, Drop,
           Route, Recv, Refuse, HandleMethod, HandleStream, SpawnData, FirstData, Respond, MethodTimesOut,
       Deliver, DeliverFails, RecvRequest, HandlerRecv, HandlerSend, DropReceiver, HandlerReturns, conf
  <1>2. MethodType' = MethodType
    BY <1>1 DEF MethodType
  <1>3. RequestFlags' = RequestFlags
    BY <1>1 DEF RequestFlags
  <1>4. Registered' = Registered
    BY <1>1 DEF Registered, ServiceName, ServiceFullName, ServicePath
  <1> QED BY <1>1, <1>2, <1>3, <1>4 DEF Request

-----------------------------------------------------------------------------
(* Types. A frame of a reply has a status or a number.                       *)
LEMMA ReplyFrames ==
  ASSUME Types, NEW f, Reply(f), f \in Frame
  PROVE  /\ Received(f) \in {"none", "eof"} \cup Status
         /\ Received(f) = "none" <=> ~Terminal(f)
         /\ Received(f) = "eof" <=> f = Close
         /\ f \in Statuses => f = Response(Received(f)) /\ Received(f) \in Status
         /\ f.n \in Nat
  <1>0. f.n \in Nat
    BY DEF Frame
  <1>1. CASE f \in Statuses
    <2>1. PICK st \in Status : f = Response(st)
      BY <1>1 DEF Statuses
    <2>2. f.type = "response" /\ f.status = st /\ Terminal(f) /\ f # Close
      BY <2>1, Frames
    <2>3. Received(f) = st
      BY <2>2 DEF Received
    <2> QED BY <1>0, <2>1, <2>2, <2>3 DEF Status
  <1>2. CASE f = Close /\ method.server_streaming
    <2>1. f.type = "data" /\ "closed" \in f.flags /\ Terminal(f) /\ f \notin Statuses
      BY <1>2, Frames DEF Statuses
    <2>2. Received(f) = "eof"
      BY <1>2, <2>1 DEF Received
    <2> QED BY <1>0, <1>2, <2>1, <2>2
  <1>3. CASE f = Data(f.n) /\ method.server_streaming
    <2>1. f.type = "data" /\ f.flags = {} /\ ~Terminal(f) /\ f # Close /\ f \notin Statuses
      BY <1>0, <1>3, Frames DEF Statuses
    <2>2. Received(f) = "none"
      BY <1>3, <2>1 DEF Received
    <2> QED BY <1>0, <2>1, <2>2
  <1> QED BY <1>1, <1>2, <1>3 DEF Reply

(* The receiver that takes the first message of a stream is there for it.    *)
LEMMA FirstSends ==
  ASSUME Serving, FirstData
  PROVE  /\ sreg /\ hpc = "request" /\ UNCHANGED s2c /\ rtask' = "await"
         /\ schan' = Append(schan, Data(creq)) /\ Len(schan) < StreamCap
  BY DEF Serving, FirstData

LEMMA TypesStep ==
  ASSUME IInv, Next PROVE Types'
  <1>0. Types /\ Calling /\ Serving /\ Mailbox /\ Wire /\ MaxReq \in Nat /\ MaxReq >= 1
    BY BoundAssumption DEF IInv
  <1>1. UNCHANGED <<method, gen, packaged, timed>> /\ MethodType' = MethodType
    BY ConfSame
  <1>2. \A n \in Nat : Data(n) \in Frame
    BY Frames
  <1>3. Close \in Frame /\ \A st \in Status : Response(st) \in Frame
    BY Frames
  <1>a. <<>> \in Seq(Frame) /\ Len(<<>>) <= StreamCap
    BY ShortSeqs, BoundAssumption
  <1>b. \A g \in Frame : g.n \in Nat
    BY DEF Frame
  <1>c. \A n \in Nat : <<n>> \in Seq(Nat)
    BY ShortSeqs
  <1> USE <1>0, <1>1 DEF Types, TypeOK, clientV, serverV, handleV
  <1>4. CASE CallUnary \/ CallStream
    <2>1. c2s' \in Seq(Frame) /\ creq' \in 0..MaxReq
      <3>1. CASE CallUnary
        <4>1. [type |-> "request", flags |-> {}, status |-> "ok", n |-> 1] \in Frame
          BY DEF Frame
        <4> QED BY <3>1, <4>1 DEF CallUnary
      <3>2. CASE CallStream
        <4>1. creq' \in {0, 1}
          BY <3>2 DEF CallStream
        <4>2. [type |-> "request", flags |-> RequestFlags, status |-> "ok", n |-> creq'] \in Frame
          BY <4>1 DEF Frame, RequestFlags
        <4> QED BY <3>2, <4>1, <4>2 DEF CallStream
      <3> QED BY <1>4, <3>1, <3>2
    <2>2. creg' \in BOOLEAN /\ cpc' \in {"open", "wait"}
      BY <1>4, Zenon DEF CallUnary, CallStream
    <2> QED BY <1>4, <2>1, <2>2 DEF CallUnary, CallStream
  <1>5. CASE Send
    <2>1. creq' \in 0..MaxReq /\ creq' \in Nat
      BY <1>5 DEF Send
    <2>2. c2s' \in Seq(Frame)
      BY <1>5, <1>2, <2>1, AppendFacts DEF Send
    <2> QED BY <1>5, <2>1, <2>2 DEF Send
  <1>6. CASE CloseSend
    <2>1. c2s' \in Seq(Frame)
      BY <1>6, <1>3, AppendFacts DEF CloseSend
    <2> QED BY <1>6, <2>1 DEF CloseSend
  <1>7. CASE Route
    <2>1. Head(s2c) \in Frame /\ s2c' \in Seq(Frame)
      BY <1>7, TailFacts DEF Route
    <2>2. mailbox' \in Seq(Frame)
      BY <1>7, <2>1, AppendFacts DEF Route
    <2>3. creg' \in BOOLEAN
      BY <1>7 DEF Route
    <2> QED BY <1>7, <2>1, <2>2, <2>3 DEF Route
  <1>8. CASE Recv
    <2>1. Head(mailbox) \in Frame /\ Head(mailbox) = mailbox[1] /\ 1 \in 1..Len(mailbox)
          /\ mailbox' \in Seq(Frame)
      BY <1>8, TailFacts DEF Recv
    <2>2. Reply(Head(mailbox))
      BY <2>1 DEF Mailbox
    <2>3. /\ Received(Head(mailbox)) \in {"none", "eof"} \cup Status
          /\ Head(mailbox).n \in Nat
      BY <2>1, <2>2, ReplyFrames
    <2>4. outcome' = Received(Head(mailbox)) /\ cpc' \in {cpc, "done"}
          /\ got' \in {got, Append(got, Head(mailbox).n)}
      BY <1>8 DEF Recv
    <2>5. got' \in Seq(Nat)
      <3>1. Append(got, Head(mailbox).n) \in Seq(Nat)
        BY <2>3, AppendFacts
      <3> QED BY <2>4, <3>1
    <2> QED BY <1>8, <2>1, <2>3, <2>4, <2>5 DEF Recv, Status
  <1>9. CASE Drop
    <2>1. creg' \in BOOLEAN
      BY <1>9, Zenon DEF Drop
    <2> QED BY <1>9, <1>a, <2>1 DEF Drop
  <1>10. CASE Refuse
    <2>1. c2s' \in Seq(Frame)
      BY <1>10, TailFacts DEF Refuse
    <2>2. s2c' \in Seq(Frame)
      BY <1>10, <1>3, AppendFacts DEF Refuse, Status
    <2> QED BY <1>10, <2>1, <2>2 DEF Refuse
  <1>11. CASE HandleMethod \/ HandleStream
    <2>1. c2s' \in Seq(Frame) /\ Head(c2s).n \in Nat
      <3>1. c2s # <<>> /\ c2s' = Tail(c2s)
        BY <1>11 DEF HandleMethod, HandleStream
      <3> QED BY <1>b, <3>1, TailFacts
    <2>2. hin' \in Seq(Nat)
      BY <1>11, <1>c, <2>1 DEF HandleMethod, HandleStream
    <2>3. sreg' \in BOOLEAN
      BY <1>11, Zenon DEF HandleMethod, HandleStream
    <2>4. hpc' \in {"request", "serve"} /\ rtask' \in {"await", "first"}
      BY <1>11 DEF HandleMethod, HandleStream, HandlerEntry
    <2>5. UNCHANGED <<clientV, s2c, tasks, schan, hresult, hclosed, hout>>
      BY <1>11 DEF HandleMethod, HandleStream
    <2> QED BY <2>1, <2>2, <2>3, <2>4, <2>5
  <1>12. CASE SpawnData
    <2>1. Head(c2s) \in Frame /\ c2s' \in Seq(Frame) /\ Head(c2s) = c2s[1] /\ 1 \in 1..Len(c2s)
      BY <1>12, TailFacts DEF SpawnData
    <2>2. c2s[1] \in Sent
      BY <1>12, <2>1, RequestFrame DEF Calling, SpawnData
    <2>3. c2s[1] \in DataFrame
      BY <2>2, SentFrames
    <2> QED BY <1>12, <2>1, <2>3 DEF SpawnData
  <1>13. CASE FirstData
    <2>1. /\ schan' = Append(schan, Data(creq)) /\ Len(schan) < StreamCap
          /\ UNCHANGED s2c /\ rtask' = "await"
      BY <1>13, FirstSends
    <2>2. schan' \in Seq(Frame) /\ Len(schan') <= StreamCap
      <3>1. Data(creq) \in Frame /\ StreamCap \in Nat
        BY <1>2, BoundAssumption
      <3>2. Append(schan, Data(creq)) \in Seq(Frame) /\ Len(Append(schan, Data(creq))) = Len(schan) + 1
        BY <3>1, AppendFacts
      <3> QED BY <2>1, <3>1, <3>2
    <2> QED BY <1>13, <2>1, <2>2 DEF FirstData
  <1>14. ASSUME NEW f \in DataFrame, Deliver(f) PROVE Types'
    <2>1. f \in Frame
      BY <1>2, <1>3 DEF DataFrame
    <2>2. schan' \in Seq(Frame) /\ Len(schan') <= StreamCap
      BY <1>14, <2>1, AppendFacts, BoundAssumption DEF Deliver
    <2> QED BY <1>14, <2>2 DEF Deliver
  <1>15. ASSUME NEW f \in DataFrame, DeliverFails(f) PROVE Types'
    <2>1. s2c' \in Seq(Frame)
      BY <1>15, <1>3, AppendFacts DEF DeliverFails, Status
    <2> QED BY <1>15, <2>1 DEF DeliverFails
  <1>16. CASE Respond
    <2>1. Answers \subseteq Frame
      BY <1>16, <1>3 DEF Respond, Answers, FinalFrame, Serving, Status
    <2>2. s2c' \in Seq(Frame)
      BY <1>16, <2>1, AppendFacts DEF Respond
    <2> QED BY <1>16, <2>2 DEF Respond
  <1>21. CASE MethodTimesOut
    <2>1. s2c' \in Seq(Frame)
      BY <1>21, <1>3, AppendFacts DEF MethodTimesOut, Status
    <2> QED BY <1>21, <2>1 DEF MethodTimesOut
  <1>17. CASE RecvRequest
    <2>1. Head(schan) \in Frame /\ Head(schan).n \in Nat
      BY <1>17, <1>b, TailFacts DEF RecvRequest
    <2>2. hin' \in Seq(Nat) /\ schan' \in Seq(Frame) /\ Len(schan') <= StreamCap
      BY <1>17, <1>a, <1>c, <2>1 DEF RecvRequest
    <2>3. sreg' \in BOOLEAN
      BY <1>17, Zenon DEF RecvRequest
    <2> QED BY <1>17, <2>2, <2>3 DEF RecvRequest
  <1>18. CASE HandlerRecv
    <2>1. /\ Head(schan) \in Frame /\ Head(schan).n \in Nat
          /\ schan' \in Seq(Frame) /\ Len(schan') <= StreamCap
      BY <1>18, <1>b, TailFacts, BoundAssumption DEF HandlerRecv
    <2>2. hin' \in Seq(Nat) /\ hclosed' \in BOOLEAN
      <3>1. Append(hin, Head(schan).n) \in Seq(Nat)
        BY <2>1, AppendFacts
      <3> QED BY <1>18, <3>1 DEF HandlerRecv
    <2> QED BY <1>18, <2>1, <2>2 DEF HandlerRecv
  <1>19. CASE HandlerSend
    <2>1. hout' \in 0..MaxResp /\ hout' \in Nat
      BY <1>19, BoundAssumption DEF HandlerSend
    <2>2. s2c' \in Seq(Frame)
      BY <1>19, <1>2, <2>1, AppendFacts DEF HandlerSend
    <2> QED BY <1>19, <2>1, <2>2 DEF HandlerSend
  <1>20. CASE DropReceiver \/ HandlerReturns
    <2>1. schan' \in Seq(Frame) /\ Len(schan') <= StreamCap
      BY <1>20, <1>a DEF DropReceiver, HandlerReturns
    <2>2. sreg' \in BOOLEAN
      BY <1>20, Zenon DEF DropReceiver, HandlerReturns
    <2> QED BY <1>20, <2>1, <2>2 DEF DropReceiver, HandlerReturns
  <1> QED BY <1>4, <1>5, <1>6, <1>7, <1>8, <1>9, <1>10, <1>11, <1>12, <1>13, <1>14, <1>15, <1>16,
             <1>17, <1>18, <1>19, <1>20, <1>21 DEF Next, ClientStep, ServerStep, DataTask

-----------------------------------------------------------------------------
(* The client.                                                               *)
LEMMA SentSame ==
  ASSUME UNCHANGED <<creq, local_closed>> PROVE Sent' = Sent
  BY DEF Sent

(* The head of the wire is the REQUEST frame or one of the stream, and what  *)
(* follows it is of the stream.                                              *)
LEMMA WireHead ==
  ASSUME Types, Calling, c2s # <<>>
  PROVE  /\ Head(c2s) = c2s[1] /\ 1 \in 1..Len(c2s) /\ Head(c2s) \in Frame
         /\ Head(c2s).type = "request" <=> Head(c2s) = Request
         /\ Head(c2s).type = "request" <=> Pending
         /\ Head(c2s).type = "data" <=> Head(c2s) \in Sent
         /\ cpc # "idle"
         /\ Tail(c2s) \in Seq(Frame) /\ Len(Tail(c2s)) = Len(c2s) - 1 /\ Len(c2s) \in Nat
         /\ \A k \in 1..(Len(c2s) - 1) : /\ Tail(c2s)[k] = c2s[k + 1] /\ k + 1 \in 1..Len(c2s)
                                         /\ Tail(c2s)[k] \in Sent /\ Tail(c2s)[k] # Request
  <1>1. c2s \in Seq(Frame)
    BY DEF Types, TypeOK
  <1>2. /\ Head(c2s) \in Frame /\ Head(c2s) = c2s[1] /\ Len(c2s) \in Nat /\ Len(c2s) >= 1
        /\ Tail(c2s) \in Seq(Frame) /\ Len(Tail(c2s)) = Len(c2s) - 1
        /\ \A k \in 1..(Len(c2s) - 1) : Tail(c2s)[k] = c2s[k + 1] /\ k + 1 \in 1..Len(c2s)
    BY <1>1, TailFacts
  <1>3. 1 \in 1..Len(c2s)
    BY <1>2
  <1>4. \A f \in Sent : f # Request /\ f.type = "data"
    BY SentFrames
  <1>5. Head(c2s) = Request \/ Head(c2s) \in Sent
    BY <1>2, <1>3 DEF Calling
  <1>6. Request.type = "request"
    BY RequestFrame
  <1>7. ASSUME NEW k \in 1..(Len(c2s) - 1) PROVE Tail(c2s)[k] \in Sent /\ Tail(c2s)[k] # Request
    <2>1. k + 1 \in 1..Len(c2s) /\ k + 1 # 1 /\ Tail(c2s)[k] = c2s[k + 1]
      BY <1>2
    <2>2. c2s[k + 1] \in Sent
      BY <2>1 DEF Calling
    <2> QED BY <1>4, <2>1, <2>2
  <1> QED BY <1>2, <1>3, <1>4, <1>5, <1>6, <1>7 DEF Pending, Calling

(* A step of the server's tasks or of the handler. It comes after the        *)
(* REQUEST was dispatched.                                                   *)
LEMMA CallingKeeps ==
  ASSUME Types, Calling, ~Untouched, Request' = Request, tasks' \subseteq tasks,
         UNCHANGED <<method, cpc, outcome, creq, local_closed, c2s, creg, mailbox>>
  PROVE  Calling'
  <1>1. Sent' = Sent
    BY SentSame
  <1>2. cpc # "idle" /\ ~Pending
    BY DEF Calling
  <1>3. ~Pending'
    BY <1>2 DEF Pending
  <1> QED BY <1>1, <1>2, <1>3 DEF Calling

(* The server's reader takes a frame from the wire.                          *)
LEMMA CallingTakes ==
  ASSUME Types, Calling, Request' = Request, c2s # <<>>, c2s' = Tail(c2s),
         tasks' = tasks \/ (tasks' = tasks \cup {Head(c2s)} /\ Head(c2s).type = "data"),
         UNCHANGED <<method, cpc, outcome, creq, local_closed, creg, mailbox>>
  PROVE  Calling' /\ ~Pending'
  <1>1. Sent' = Sent
    BY SentSame
  <1>2. /\ cpc # "idle" /\ Len(c2s) \in Nat /\ Len(c2s') = Len(c2s) - 1
        /\ \A k \in 1..Len(c2s') : c2s'[k] \in Sent /\ c2s'[k] # Request
        /\ \A k \in 1..Len(c2s') : c2s'[k] = c2s[k + 1] /\ k + 1 \in 1..Len(c2s)
    BY WireHead
  <1>3. ~Pending'
    <2>1. c2s' \in Seq(Frame)
      BY WireHead
    <2>2. c2s' # <<>> => 1 \in 1..Len(c2s')
      BY <2>1
    <2> QED BY <1>2, <2>2 DEF Pending
  <1>4. ~method.client_streaming => tasks' = {} /\ \A k \in 1..Len(c2s') : c2s'[k] = Request
    <2>1. ASSUME ~method.client_streaming PROVE Head(c2s).type # "data"
      <3>1. Head(c2s) = Request /\ Request.type = "request"
        BY <2>1, WireHead, RequestFrame DEF Calling
      <3> QED BY <3>1
    <2> QED BY <1>2, <2>1 DEF Calling
  <1> QED BY <1>1, <1>2, <1>3, <1>4 DEF Calling

LEMMA PendingSends ==
  ASSUME Types, NEW f \in DataFrame, Request' = Request, c2s' = Append(c2s, f), Pending'
  PROVE  Pending
  <1>1. f \in Frame /\ f # Request
    BY DataFrames
  <1>2. /\ Len(c2s) \in Nat /\ \A k \in 1..Len(c2s) : c2s'[k] = c2s[k]
        /\ c2s'[Len(c2s) + 1] = f
    BY <1>1, AppendFacts DEF Types, TypeOK
  <1>3. CASE c2s = <<>>
    <2>1. Len(c2s) = 0
      BY <1>3
    <2> QED BY <1>1, <1>2, <2>1 DEF Pending
  <1>4. CASE c2s # <<>>
    <2>1. 1 \in 1..Len(c2s)
      BY <1>4 DEF Types, TypeOK
    <2> QED BY <1>2, <1>4, <2>1 DEF Pending
  <1> QED BY <1>3, <1>4

(* The client puts one more frame on its stream.                             *)
LEMMA CallingSends ==
  ASSUME Types, Calling, Types', Request' = Request, cpc # "idle", cpc' # "idle",
         method.client_streaming, Sent \subseteq Sent', NEW f \in DataFrame, f \in Sent',
         c2s' = Append(c2s, f),
         outcome' = outcome, cpc' # cpc => cpc = "open" /\ cpc' = "wait",
         cpc' = "open" => ~local_closed',
         UNCHANGED <<method, creg, mailbox, got, s2c, tasks, rtask, hpc>>
  PROVE  Calling'
  <1>1. f \in Frame /\ f # Request
    BY DataFrames
  <1>2. /\ Len(c2s) \in Nat /\ Len(c2s') = Len(c2s) + 1
        /\ \A k \in 1..Len(c2s) : c2s'[k] = c2s[k]
        /\ c2s'[Len(c2s) + 1] = f
        /\ \A k \in 1..(Len(c2s) + 1) : k \in 1..Len(c2s) \/ k = Len(c2s) + 1
    BY <1>1, AppendFacts DEF Types, TypeOK
  <1>3. \A k \in 1..Len(c2s') : (k = 1 /\ c2s'[k] = Request) \/ c2s'[k] \in Sent'
    BY <1>2 DEF Calling
  <1>4. Pending' => Pending
    BY PendingSends
  <1> QED BY <1>3, <1>4 DEF Calling, Untouched

LEMMA CallingStep ==
  ASSUME IInv, Next PROVE Calling'
  <1>0. Types /\ Calling /\ Serving /\ Mailbox /\ Types'
    BY TypesStep DEF IInv
  <1>1. UNCHANGED method /\ MethodType' = MethodType /\ Request' = Request
    BY ConfSame
  <1>2. CASE CallUnary \/ CallStream
    <2>1. Untouched' /\ cpc' \in {"open", "wait"} /\ outcome' = "none" /\ ~local_closed'
      BY <1>0, <1>2 DEF CallUnary, CallStream, Calling, Untouched, clientV, serverV, handleV
    <2>2. c2s' = <<Request>>
      <3>1. CASE CallUnary
        BY <1>0, <3>1, Kinds DEF CallUnary, Request
      <3>2. CASE CallStream
        BY <1>0, <3>2, Kinds DEF CallStream, Request
      <3> QED BY <1>2, <3>1, <3>2
    <2>3. Len(c2s') = 1 /\ c2s'[1] = Request /\ \A k \in 1..1 : k = 1
      BY <2>2, ShortSeqs
    <2>4. cpc' = "open" => method.client_streaming
      BY <1>2 DEF CallUnary, CallStream
    <2>5. ~method.client_streaming => creq' = 1 /\ tasks' = {}
      BY <1>2, <2>1 DEF CallUnary, CallStream, Untouched
    <2> QED BY <1>1, <2>1, <2>3, <2>4, <2>5 DEF Calling
  <1>3. CASE Send
    <2>1. cpc # "idle" /\ method.client_streaming /\ (cpc = "open" => ~local_closed)
      BY <1>0, <1>3, Kinds DEF Send, Calling
    <2>2. creq' = creq + 1 /\ creq' \in 1..MaxReq /\ creq \in Nat
      BY <1>0, <1>3, BoundAssumption DEF Send, Types, TypeOK
    <2>3. /\ \A n \in 1..creq : n \in 1..creq'
          /\ creq' \in 1..creq'
      BY <2>2
    <2>4. /\ Sent \subseteq Sent' /\ Data(creq') \in Sent' /\ Data(creq') \in DataFrame
          /\ c2s' = Append(c2s, Data(creq'))
      BY <1>3, <2>2, <2>3 DEF Send, Sent, DataFrame
    <2>5. UNCHANGED <<method, cpc, outcome, local_closed, creg, mailbox, got, s2c, tasks, rtask, hpc>>
      BY <1>1, <1>3 DEF Send, serverV, handleV
    <2> QED BY <1>0, <1>1, <2>1, <2>4, <2>5, CallingSends
  <1>4. CASE CloseSend
    <2>1. cpc = "open" /\ cpc' = "wait" /\ method.client_streaming /\ outcome' = outcome
      BY <1>0, <1>4 DEF CloseSend, Calling
    <2>2. Sent \subseteq Sent' /\ Close \in Sent' /\ Close \in DataFrame /\ c2s' = Append(c2s, Close)
      BY <1>4 DEF CloseSend, Sent, DataFrame
    <2>3. UNCHANGED <<method, creg, mailbox, got, s2c, tasks, rtask, hpc>>
      BY <1>1, <1>4 DEF CloseSend, serverV, handleV
    <2> QED BY <1>0, <1>1, <2>1, <2>2, <2>3, CallingSends
  <1>5. CASE Route
    <2>1. ~Untouched /\ cpc # "idle" /\ ~Pending
      BY <1>0, <1>5 DEF Route, Untouched, Calling
    <2>2. UNCHANGED <<method, cpc, outcome, creq, local_closed, c2s, tasks>>
      BY <1>1, <1>5 DEF Route, serverV
    <2>3. cpc = "done" => ~creg' /\ mailbox' = <<>>
      BY <1>0, <1>5 DEF Route, Calling
    <2>4. Sent' = Sent /\ ~Pending'
      BY <1>1, <2>1, <2>2, SentSame DEF Pending
    <2> QED BY <1>0, <1>1, <2>1, <2>2, <2>3, <2>4 DEF Calling
  <1>6. CASE Recv
    <2>1. ~Untouched /\ cpc # "idle" /\ ~Pending /\ cpc # "done"
      BY <1>0, <1>6 DEF Recv, Untouched, Calling
    <2>2. UNCHANGED <<method, creq, local_closed, c2s, creg, tasks>>
      BY <1>1, <1>6 DEF Recv, serverV
    <2>3. Sent' = Sent /\ ~Pending'
      BY <1>1, <2>1, <2>2, SentSame DEF Pending
    <2>4. /\ Head(mailbox) = mailbox[1] /\ 1 \in 1..Len(mailbox) /\ Head(mailbox) \in Frame
          /\ mailbox \in Seq(Frame)
      BY <1>0, <1>6, TailFacts DEF Recv, Types, TypeOK
    <2>5. Reply(Head(mailbox)) /\ (Terminal(Head(mailbox)) => Len(mailbox) = 1 /\ ~creg)
      BY <1>0, <2>4 DEF Mailbox
    <2>6. Received(Head(mailbox)) = "none" <=> ~Terminal(Head(mailbox))
      BY <1>0, <2>4, <2>5, ReplyFrames
    <2>7. /\ outcome' = Received(Head(mailbox)) /\ mailbox' = Tail(mailbox)
          /\ cpc' = IF Received(Head(mailbox)) = "none" THEN cpc ELSE "done"
      BY <1>6 DEF Recv
    <2>8. outcome' # "none" => ~creg' /\ mailbox' = <<>>
      <3>1. Len(mailbox) = 1 => Tail(mailbox) = <<>>
        BY <2>4, LastTail
      <3> QED BY <2>2, <2>5, <2>6, <2>7, <3>1
    <2> QED BY <1>0, <1>1, <2>1, <2>2, <2>3, <2>7, <2>8 DEF Calling
  <1>7. CASE Drop
    <2>1. /\ UNCHANGED <<method, creq, local_closed, c2s, s2c, got, tasks, rtask, hpc>>
          /\ cpc' = "done" /\ outcome' = "dropped" /\ ~creg' /\ mailbox' = <<>> /\ cpc # "idle"
      BY <1>1, <1>7 DEF Drop, serverV, handleV
    <2>2. Sent' = Sent /\ Pending' = Pending
      BY <1>1, <2>1, SentSame DEF Pending
    <2> QED BY <1>0, <1>1, <2>1, <2>2 DEF Calling, Untouched
  <1>8. CASE ServerStep
    <2>1. /\ c2s # <<>> /\ c2s' = Tail(c2s)
          /\ tasks' = tasks \/ (tasks' = tasks \cup {Head(c2s)} /\ Head(c2s).type = "data")
          /\ UNCHANGED <<method, cpc, outcome, creq, local_closed, creg, mailbox>>
      BY <1>1, <1>8 DEF ServerStep, Refuse, HandleMethod, HandleStream, SpawnData, clientV, serverV
    <2> QED BY <1>0, <1>1, <2>1, CallingTakes
  <1>9. CASE \/ FirstData \/ Respond \/ MethodTimesOut \/ RecvRequest \/ HandlerRecv \/ HandlerSend \/ DropReceiver
             \/ HandlerReturns \/ \E f \in DataFrame : DataTask(f)
    <2>1. ~Untouched
      BY <1>0, <1>9 DEF FirstData, Respond, MethodTimesOut, RecvRequest, HandlerRecv, HandlerSend, DropReceiver,
             HandlerReturns, DataTask, Deliver, DeliverFails, Untouched
    <2>2. /\ tasks' \subseteq tasks
          /\ UNCHANGED <<cpc, outcome, creq, local_closed, c2s, creg, mailbox>>
      BY <1>9 DEF FirstData, Respond, MethodTimesOut, RecvRequest, HandlerRecv, HandlerSend, DropReceiver,
             HandlerReturns, DataTask, Deliver, DeliverFails, clientV, serverV
    <2> QED BY <1>0, <1>1, <2>1, <2>2, CallingKeeps
  <1> QED BY <1>2, <1>3, <1>4, <1>5, <1>6, <1>7, <1>8, <1>9 DEF Next, ClientStep

-----------------------------------------------------------------------------
(* The handler.                                                              *)
LEMMA ServingSame ==
  ASSUME Serving, MethodType' = MethodType, Registered' = Registered,
         UNCHANGED <<method, rtask, sreg, schan, hpc, hresult, hin, hclosed, hout>>
  PROVE  Serving'
  BY DEF Serving

LEMMA ServingStep ==
  ASSUME IInv, Next PROVE Serving'
  <1>0. Types /\ Calling /\ Serving
    BY DEF IInv
  <1>1. /\ UNCHANGED method /\ MethodType' = MethodType /\ Registered' = Registered
        /\ method.client_streaming \in BOOLEAN
    BY <1>0, ConfSame, Kinds
  <1>2. CASE ClientStep \/ Route \/ Recv \/ Refuse \/ SpawnData \/ \E f \in DataFrame : DeliverFails(f)
    <2>1. UNCHANGED <<rtask, sreg, schan, hpc, hresult, hin, hclosed, hout>>
      BY <1>2 DEF ClientStep, CallUnary, CallStream, Send, CloseSend, Drop, Route, Recv, Refuse,
             SpawnData, DeliverFails, serverV, handleV
    <2> QED BY <1>0, <1>1, <2>1, ServingSame
  <1>3. CASE HandleMethod \/ HandleStream
    <2>1. c2s # <<>> /\ Head(c2s).type = "request" /\ Registered
      BY <1>3 DEF HandleMethod, HandleStream
    <2>2. Pending /\ Head(c2s) = Request
      BY <1>0, <2>1, WireHead
    <2>3. hpc = "none" /\ rtask = "none"
      BY <1>0, <2>2 DEF Calling, Untouched
    <2>4. /\ ~sreg /\ hin = <<>> /\ ~hclosed /\ hout = 0 /\ schan = <<>> /\ hresult = "none"
      BY <1>0, <2>3 DEF Serving
    <2>5. CASE HandleMethod
      <3>1. MethodType = "Unary"
        BY <2>5 DEF HandleMethod, Bound
      <3>2. ~method.client_streaming /\ hpc' = "serve" /\ rtask' = "await"
        BY <1>0, <2>5, <3>1, Kinds DEF HandleMethod, HandlerEntry
      <3>3. hin' = <<1>>
        <4>1. Request.n = 1
          BY <1>0, <3>2, RequestFrame
        <4> QED BY <2>2, <2>5, <4>1 DEF HandleMethod
      <3>4. ~sreg' /\ hresult' = "none" /\ schan' = <<>>
        BY <2>4, <2>5 DEF HandleMethod
      <3> QED BY <1>1, <2>1, <3>2, <3>3, <3>4 DEF Serving
    <2>6. CASE HandleStream
      <3>1. MethodType # "Unary"
        BY <2>6 DEF HandleStream, Bound
      <3>2. sreg' /\ hin' = <<>> /\ hresult' = "none" /\ schan' = <<>>
        BY <2>4, <2>6 DEF HandleStream
      <3>3. method.client_streaming => hpc' = "serve" /\ rtask' = "await"
        BY <1>0, <2>2, <2>6, Kinds, RequestFrame DEF HandleStream, HandlerEntry
      <3>4. ~method.client_streaming =>
              MethodType = "ServerStreaming" /\ hpc' = "request" /\ rtask' = "first"
        BY <1>0, <2>2, <2>6, <3>1, Kinds, RequestFrame DEF HandleStream, HandlerEntry
      <3> QED BY <1>1, <2>1, <3>2, <3>3, <3>4 DEF Serving
    <2> QED BY <1>3, <2>5, <2>6
  <1>4. CASE FirstData
    <2>1. hpc = "request" /\ schan = <<>> /\ sreg /\ MethodType = "ServerStreaming"
      BY <1>0, <1>4 DEF FirstData, Serving
    <2>2. ~method.client_streaming /\ cpc # "idle"
      BY <1>0, <2>1, Kinds DEF Calling, Untouched
    <2>3. creq = 1
      BY <1>0, <2>2 DEF Calling
    <2>4. schan' = <<Data(1)>> /\ rtask' = "await"
      BY <1>0, <1>4, <2>1, <2>3, FirstSends
    <2>5. UNCHANGED <<sreg, hpc, hresult, hin, hclosed, hout>>
      BY <1>4 DEF FirstData, handleV
    <2> QED BY <1>0, <1>1, <2>1, <2>4, <2>5 DEF Serving
  <1>5. ASSUME NEW f \in DataFrame, Deliver(f) PROVE Serving'
    <2>1. method.client_streaming /\ sreg
      BY <1>0, <1>5 DEF Deliver, Calling
    <2>2. MethodType # "ServerStreaming"
      BY <1>0, <2>1, Kinds
    <2>3. UNCHANGED <<rtask, sreg, hpc, hresult, hin, hclosed, hout>>
      BY <1>5 DEF Deliver, handleV
    <2> QED BY <1>0, <1>1, <2>1, <2>2, <2>3 DEF Serving
  <1>6. CASE Respond
    <2>1. /\ hpc = "returned" /\ rtask' = "done"
          /\ UNCHANGED <<sreg, schan, hpc, hresult, hin, hclosed, hout>>
      BY <1>6 DEF Respond, handleV
    <2> QED BY <1>0, <1>1, <2>1 DEF Serving
  <1>11. CASE MethodTimesOut
    <2>1. /\ hpc = "serve" /\ hpc' = "cancelled" /\ rtask' = "done" /\ MethodType = "Unary"
          /\ UNCHANGED <<sreg, schan, hresult, hin, hclosed, hout>>
      BY <1>11 DEF MethodTimesOut, Deadline, Bound
    <2> QED BY <1>0, <1>1, <2>1 DEF Serving
  <1>7. CASE RecvRequest
    <2>1. hpc = "request" /\ schan = <<Data(1)>> /\ rtask # "first"
      BY <1>0, <1>7 DEF RecvRequest, Serving
    <2>2. hin' = <<1>>
      <3>1. Data(1) \in Frame /\ Data(1).n = 1
        BY Frames
      <3>2. Head(schan) = Data(1)
        BY <2>1, <3>1, ShortSeqs
      <3> QED BY <1>7, <3>1, <3>2 DEF RecvRequest
    <2>3. /\ hpc' = "serve" /\ ~sreg' /\ schan' = <<>>
          /\ UNCHANGED <<rtask, hresult, hclosed, hout>>
      BY <1>7 DEF RecvRequest
    <2> QED BY <1>0, <1>1, <2>1, <2>2, <2>3 DEF Serving
  <1>8. CASE HandlerRecv
    <2>1. hpc = "serve" /\ sreg /\ method.client_streaming /\ rtask # "first"
      BY <1>0, <1>8 DEF HandlerRecv, Serving
    <2>2. UNCHANGED <<sreg, hpc, hresult, rtask, hout>>
      BY <1>8 DEF HandlerRecv
    <2> QED BY <1>0, <1>1, <2>1, <2>2 DEF Serving
  <1>9. CASE HandlerSend
    <2>1. hpc = "serve" /\ UNCHANGED <<sreg, schan, hpc, hresult, rtask, hin, hclosed>>
      BY <1>9 DEF HandlerSend, serverV
    <2> QED BY <1>0, <1>1, <2>1 DEF Serving
  <1>10. CASE DropReceiver \/ HandlerReturns
    <2>1. /\ hpc = "serve" /\ ~sreg' /\ schan' = <<>> /\ UNCHANGED <<rtask, hin, hclosed, hout>>
          /\ (hpc' = hpc /\ hresult' = hresult) \/ (hpc' = "returned" /\ hresult' # "none")
      BY <1>10 DEF DropReceiver, HandlerReturns, handleV
    <2> QED BY <1>0, <1>1, <2>1 DEF Serving
  <1> QED BY <1>2, <1>3, <1>4, <1>5, <1>6, <1>7, <1>8, <1>9, <1>10, <1>11
          DEF Next, ServerStep, DataTask

-----------------------------------------------------------------------------
(* The frames of the client's stream.                                        *)

(* Nothing moves, except that tasks end and the receiving half is dropped.   *)
LEMMA TransitSame ==
  ASSUME Transit, tasks' \subseteq tasks, schan' = schan \/ schan' = <<>>,
         UNCHANGED <<c2s, hin, hclosed, creq, local_closed>>
  PROVE  Transit'
  <1>1. Sent' = Sent /\ \A f : Taken(f)' <=> Taken(f)
    BY SentSame DEF Taken
  <1>2. schan' = schan \/ \A k \in 1..Len(schan') : FALSE
    <2>1. schan' = <<>> => Len(schan') = 0
      BY ShortSeqs
    <2> QED BY <2>1
  <1>3. OneC2s' /\ OneHin'
    BY DEF Transit, OneC2s, OneHin
  <1>4. OneSchan'
    BY <1>2 DEF Transit, OneSchan
  <1>5. Apart'
    BY <1>1, <1>2 DEF Transit, Apart
  <1> QED BY <1>3, <1>4, <1>5 DEF Transit

(* The client puts a frame on its stream that it has not sent before.        *)
LEMMA TransitSends ==
  ASSUME Types, Calling, Transit, NEW f \in DataFrame, f \notin Sent, ~Taken(f),
         Sent' = Sent \cup {f}, c2s' = Append(c2s, f), creq' \in Nat, creq' >= creq,
         local_closed => local_closed', UNCHANGED <<schan, tasks, hin, hclosed>>
  PROVE  Transit'
  <1>1. f \in Frame /\ f # Request
    BY DataFrames
  <1>2. /\ Len(c2s) \in Nat /\ Len(c2s') = Len(c2s) + 1
        /\ \A k \in 1..Len(c2s) : c2s'[k] = c2s[k]
        /\ c2s'[Len(c2s) + 1] = f
        /\ \A k \in 1..(Len(c2s) + 1) : k \in 1..Len(c2s) \/ k = Len(c2s) + 1
    BY <1>1, AppendFacts DEF Types, TypeOK
  <1>3. \A k \in 1..Len(c2s) : c2s[k] # f
    BY <1>1 DEF Calling
  <1>4. \A k \in 1..Len(schan) : schan[k] # f
    BY DEF Transit, Apart
  <1>5. f \notin tasks
    BY DEF Transit, Apart
  <1>6. \A g : Taken(g)' <=> Taken(g)
    BY DEF Taken
  <1>7. OneC2s'
    BY <1>2, <1>3 DEF Transit, OneC2s
  <1>8. OneSchan' /\ OneHin'
    BY DEF Transit, OneSchan, OneHin
  <1>9. Apart'
    <2>1. \A k \in 1..Len(c2s') : c2s'[k] \in Sent' => c2s'[k] \notin tasks' /\ ~Taken(c2s[k])'
      BY <1>2, <1>3, <1>5, <1>6 DEF Transit, Apart
    <2>2. \A k \in 1..Len(c2s') : \A l \in 1..Len(schan') : c2s'[k] # schan'[l]
      BY <1>2, <1>4 DEF Transit, Apart
    <2>3. \A k \in 1..Len(schan') :
            schan'[k] \in Sent' /\ schan'[k] \notin tasks' /\ ~Taken(schan[k])'
      BY <1>6 DEF Transit, Apart
    <2>4. \A g \in tasks' : g \in Sent' /\ ~Taken(g)'
      BY <1>6 DEF Transit, Apart
    <2>5. \A i \in 1..Len(hin') : hin'[i] \in 1..creq'
      <3>1. creq \in Nat
        BY BoundAssumption DEF Types, TypeOK
      <3>2. \A n \in 1..creq : n \in 1..creq'
        BY <3>1
      <3> QED BY <3>2 DEF Transit, Apart
    <2> QED BY <2>1, <2>2, <2>3, <2>4, <2>5 DEF Transit, Apart
  <1> QED BY <1>7, <1>8, <1>9 DEF Transit

(* The server's reader takes a frame; a task gets it if it is of the stream. *)
LEMMA TransitTakes ==
  ASSUME Types, Calling, Transit, c2s # <<>>, c2s' = Tail(c2s),
         tasks' = tasks \/ (tasks' = tasks \cup {Head(c2s)} /\ Head(c2s).type = "data"),
         UNCHANGED <<schan, hin, hclosed, creq, local_closed>>
  PROVE  Transit'
  <1>1. Sent' = Sent /\ \A f : Taken(f)' <=> Taken(f)
    BY SentSame DEF Taken
  <1>2. /\ Head(c2s) = c2s[1] /\ 1 \in 1..Len(c2s) /\ Len(c2s) \in Nat
        /\ Len(c2s') = Len(c2s) - 1
        /\ \A k \in 1..Len(c2s') : c2s'[k] = c2s[k + 1] /\ k + 1 \in 1..Len(c2s)
        /\ Head(c2s).type = "data" => Head(c2s) \in Sent
    BY WireHead
  <1>3. OneC2s'
    <2> SUFFICES ASSUME NEW j \in 1..Len(c2s'), NEW k \in 1..Len(c2s'), c2s'[j] = c2s'[k]
                 PROVE  j = k
      BY DEF OneC2s
    <2>1. c2s[j + 1] = c2s[k + 1] /\ j + 1 \in 1..Len(c2s) /\ k + 1 \in 1..Len(c2s)
      BY <1>2
    <2>2. j + 1 = k + 1
      BY <2>1 DEF Transit, OneC2s
    <2> QED BY <1>2, <2>2
  <1>4. \A k \in 1..Len(c2s') : c2s'[k] # Head(c2s)
    <2> TAKE k \in 1..Len(c2s')
    <2>1. c2s'[k] = c2s[k + 1] /\ k + 1 \in 1..Len(c2s) /\ k + 1 # 1
      BY <1>2
    <2> QED BY <1>2, <2>1 DEF Transit, OneC2s
  <1>5. OneSchan' /\ OneHin'
    BY DEF Transit, OneSchan, OneHin
  <1>6. Apart'
    <2>1. \A k \in 1..Len(c2s') : c2s'[k] \in Sent' => c2s'[k] \notin tasks' /\ ~Taken(c2s[k])'
      BY <1>1, <1>2, <1>4 DEF Transit, Apart
    <2>2. \A k \in 1..Len(c2s') : \A l \in 1..Len(schan') : c2s'[k] # schan'[l]
      BY <1>2 DEF Transit, Apart
    <2>3. \A k \in 1..Len(schan') :
            schan'[k] \in Sent' /\ schan'[k] \notin tasks' /\ ~Taken(schan[k])'
      BY <1>1, <1>2 DEF Transit, Apart
    <2>4. \A g \in tasks' : g \in Sent' /\ ~Taken(g)'
      BY <1>1, <1>2 DEF Transit, Apart
    <2> QED BY <2>1, <2>2, <2>3, <2>4 DEF Transit, Apart
  <1> QED BY <1>3, <1>5, <1>6 DEF Transit

(* A task delivers its frame into the channel.                               *)
LEMMA TransitDelivers ==
  ASSUME Types, Calling, Transit, NEW f \in tasks, tasks' = tasks \ {f}, schan' = Append(schan, f),
         UNCHANGED <<c2s, hin, hclosed, creq, local_closed>>
  PROVE  Transit'
  <1>1. Sent' = Sent /\ \A g : Taken(g)' <=> Taken(g)
    BY SentSame DEF Taken
  <1>2. f \in Sent /\ ~Taken(f)
    BY DEF Transit, Apart
  <1>3. f \in Frame /\ f # Request
    BY <1>2, SentFrames
  <1>4. /\ Len(schan) \in Nat /\ Len(schan') = Len(schan) + 1
        /\ \A k \in 1..Len(schan) : schan'[k] = schan[k]
        /\ schan'[Len(schan) + 1] = f
        /\ \A k \in 1..(Len(schan) + 1) : k \in 1..Len(schan) \/ k = Len(schan) + 1
    BY <1>3, AppendFacts DEF Types, TypeOK
  <1>5. \A k \in 1..Len(c2s) : c2s[k] # f
    BY <1>2, <1>3 DEF Transit, Apart
  <1>6. \A k \in 1..Len(schan) : schan[k] # f
    BY DEF Transit, Apart
  <1>7. OneSchan'
    BY <1>4, <1>6 DEF Transit, OneSchan
  <1>8. OneC2s' /\ OneHin'
    BY DEF Transit, OneC2s, OneHin
  <1>9. Apart'
    <2>1. \A k \in 1..Len(c2s') : c2s'[k] \in Sent' => c2s'[k] \notin tasks' /\ ~Taken(c2s[k])'
      BY <1>1 DEF Transit, Apart
    <2>2. \A k \in 1..Len(c2s') : \A l \in 1..Len(schan') : c2s'[k] # schan'[l]
      BY <1>4, <1>5 DEF Transit, Apart
    <2>3. \A k \in 1..Len(schan') :
            schan'[k] \in Sent' /\ schan'[k] \notin tasks' /\ ~Taken(schan[k])'
      BY <1>1, <1>2, <1>4 DEF Transit, Apart
    <2>4. \A g \in tasks' : g \in Sent' /\ ~Taken(g)'
      BY <1>1 DEF Transit, Apart
    <2> QED BY <2>1, <2>2, <2>3, <2>4 DEF Transit, Apart
  <1> QED BY <1>7, <1>8, <1>9 DEF Transit

(* The handler takes the first frame of the channel.                         *)
LEMMA TransitReceives ==
  ASSUME Types, Calling, Transit, HandlerRecv PROVE Transit'
  <1>0. UNCHANGED <<c2s, tasks, creq, local_closed>>
    BY DEF HandlerRecv, clientV
  <1>1. Sent' = Sent
    BY <1>0, SentSame
  <1>2. /\ Head(schan) = schan[1] /\ 1 \in 1..Len(schan) /\ Len(schan) \in Nat
        /\ Len(schan') = Len(schan) - 1
        /\ \A k \in 1..Len(schan') : schan'[k] = schan[k + 1] /\ k + 1 \in 1..Len(schan)
    BY TailFacts DEF HandlerRecv, Types, TypeOK
  <1>3. Head(schan) \in Sent /\ Head(schan) \notin tasks /\ ~Taken(Head(schan))
    BY <1>2 DEF Transit, Apart
  <1>4. /\ Head(schan) = Close => local_closed
        /\ Head(schan) # Close =>
             Head(schan) = Data(Head(schan).n) /\ Head(schan).n \in 1..creq
    BY <1>3, SentFrames
  <1>5. \A k \in 1..Len(schan') : schan'[k] # Head(schan)
    <2> TAKE k \in 1..Len(schan')
    <2>1. schan'[k] = schan[k + 1] /\ k + 1 \in 1..Len(schan) /\ k + 1 # 1
      BY <1>2
    <2> QED BY <1>2, <2>1 DEF Transit, OneSchan
  <1>6. OneSchan'
    <2> SUFFICES ASSUME NEW j \in 1..Len(schan'), NEW k \in 1..Len(schan'), schan'[j] = schan'[k]
                 PROVE  j = k
      BY DEF OneSchan
    <2>1. schan[j + 1] = schan[k + 1] /\ j + 1 \in 1..Len(schan) /\ k + 1 \in 1..Len(schan)
      BY <1>2
    <2>2. j + 1 = k + 1
      BY <2>1 DEF Transit, OneSchan
    <2> QED BY <1>2, <2>2
  <1>7. ASSUME Head(schan) # Close
        PROVE  /\ OneHin' /\ \A i \in 1..Len(hin') : hin'[i] \in 1..creq
               /\ \A g \in Sent : Taken(g)' => Taken(g) \/ g = Head(schan)
               /\ hclosed' => local_closed
    <2>0. Head(schan).n \in Nat
      BY <1>4, <1>7, BoundAssumption DEF Types, TypeOK
    <2>1. hin' = Append(hin, Head(schan).n) /\ hclosed' = hclosed
      BY <1>7 DEF HandlerRecv
    <2>2. /\ Len(hin) \in Nat /\ Len(hin') = Len(hin) + 1
          /\ \A k \in 1..Len(hin) : hin'[k] = hin[k]
          /\ hin'[Len(hin) + 1] = Head(schan).n
          /\ \A k \in 1..(Len(hin) + 1) : k \in 1..Len(hin) \/ k = Len(hin) + 1
      BY <2>0, <2>1, AppendFacts DEF Types
    <2>3. \A i \in 1..Len(hin) : hin[i] # Head(schan).n
      BY <1>3, <1>7 DEF Taken
    <2>4. OneHin' /\ \A i \in 1..Len(hin') : hin'[i] \in 1..creq
      BY <1>4, <1>7, <2>2, <2>3 DEF Transit, OneHin, Apart
    <2>5. ASSUME NEW g \in Sent, Taken(g)' PROVE Taken(g) \/ g = Head(schan)
      <3>1. CASE g = Close
        BY <2>1, <2>5, <3>1 DEF Taken
      <3>2. CASE g # Close
        <4>1. g = Data(g.n)
          BY <3>2, SentFrames
        <4>2. PICK i \in 1..Len(hin') : hin'[i] = g.n
          BY <2>5, <3>2 DEF Taken
        <4>3. CASE i \in 1..Len(hin)
          BY <2>2, <3>2, <4>2, <4>3 DEF Taken
        <4>4. CASE i = Len(hin) + 1
          BY <1>4, <1>7, <2>2, <4>1, <4>2, <4>4
        <4> QED BY <2>2, <4>3, <4>4
      <3> QED BY <3>1, <3>2
    <2>6. hclosed' => local_closed
      BY <2>1 DEF Transit, Apart
    <2> QED BY <2>4, <2>5, <2>6
  <1>8. ASSUME Head(schan) = Close
        PROVE  /\ OneHin' /\ \A i \in 1..Len(hin') : hin'[i] \in 1..creq
               /\ \A g \in Sent : Taken(g)' => Taken(g) \/ g = Head(schan)
               /\ hclosed' => local_closed
    <2>1. hin' = hin /\ hclosed' = TRUE /\ local_closed
      BY <1>4, <1>8 DEF HandlerRecv
    <2>2. \A g \in Sent : Taken(g)' => Taken(g) \/ g = Head(schan)
      BY <1>8, <2>1 DEF Taken
    <2> QED BY <2>1, <2>2 DEF Transit, OneHin, Apart
  <1>9. /\ OneHin' /\ \A i \in 1..Len(hin') : hin'[i] \in 1..creq
        /\ \A g \in Sent : Taken(g)' => Taken(g) \/ g = Head(schan)
        /\ hclosed' => local_closed
    BY <1>7, <1>8
  <1>10. Apart'
    <2>1. \A k \in 1..Len(c2s') : c2s'[k] \in Sent' => c2s'[k] \notin tasks' /\ ~Taken(c2s[k])'
      BY <1>0, <1>1, <1>2, <1>9 DEF Transit, Apart
    <2>2. \A k \in 1..Len(c2s') : \A l \in 1..Len(schan') : c2s'[k] # schan'[l]
      BY <1>0, <1>2 DEF Transit, Apart
    <2>3. \A k \in 1..Len(schan') :
            schan'[k] \in Sent' /\ schan'[k] \notin tasks' /\ ~Taken(schan[k])'
      BY <1>0, <1>1, <1>2, <1>5, <1>9 DEF Transit, Apart
    <2>4. \A g \in tasks' : g \in Sent' /\ ~Taken(g)'
      BY <1>0, <1>1, <1>3, <1>9 DEF Transit, Apart
    <2> QED BY <1>0, <1>9, <2>1, <2>2, <2>3, <2>4 DEF Apart
  <1> QED BY <1>0, <1>6, <1>9, <1>10 DEF Transit, OneC2s

(* The one request of a method that does not stream requests.                *)
LEMMA TransitOnly ==
  ASSUME Types, Calling, Calling', ~method.client_streaming, ~method'.client_streaming,
         Request' = Request, cpc' # "idle", Types', ~hclosed',
         \/ hin' = <<>> /\ (schan' = <<>> \/ schan' = <<Data(1)>>)
         \/ hin' = << 1 >> /\ schan' = <<>>
  PROVE  Transit'
  <1>1. creq' = 1 /\ tasks' = {} /\ \A k \in 1..Len(c2s') : c2s'[k] = Request
    BY DEF Calling
  <1>2. Len(c2s') \in Nat /\ \A k \in 1..Len(c2s') : k = 1
    <2>1. c2s' \in Seq(Frame)
      BY DEF Types, TypeOK
    <2>2. Len(c2s') \in Nat
      BY <2>1
    <2>3. ASSUME NEW k \in 1..Len(c2s'), k # 1 PROVE FALSE
      <3>1. c2s'[k] \in Sent'
        BY <2>3 DEF Calling
      <3>2. \A n \in 1..creq' : n \in Nat
        BY <1>1
      <3> QED BY <1>1, <3>1, <3>2, RequestFrame DEF Sent
    <2> QED BY <2>2, <2>3
  <1>3. /\ Len(hin') = 0 \/ (Len(hin') = 1 /\ hin'[1] = 1)
        /\ Len(schan') = 0 \/ (Len(schan') = 1 /\ schan'[1] = Data(1))
        /\ Len(hin') = 0 \/ Len(schan') = 0
    BY ShortSeqs
  <1>4. \A k : k \in 1..0 => FALSE
    OBVIOUS
  <1>5. \A k \in 1..1 : k = 1
    OBVIOUS
  <1>6. /\ \A k \in 1..Len(hin') : k = 1 /\ hin'[k] = 1 /\ Len(schan') = 0
        /\ \A k \in 1..Len(schan') : k = 1 /\ schan'[k] = Data(1) /\ Len(hin') = 0
    BY <1>3, <1>4, <1>5
  <1>7. Data(1) \in Sent' /\ Request \notin Sent' /\ Data(1) # Request /\ Data(1) # Close
    <2>1. 1 \in 1..creq' /\ \A n \in 1..creq' : n \in Nat
      BY <1>1
    <2> QED BY <2>1, RequestFrame, Frames DEF Sent
  <1>8. OneC2s' /\ OneHin' /\ OneSchan'
    BY <1>2, <1>6 DEF OneC2s, OneHin, OneSchan
  <1>9. \A k \in 1..Len(schan') : ~Taken(schan[k])'
    BY <1>4, <1>6, <1>7 DEF Taken
  <1>10. \A i \in 1..Len(hin') : hin'[i] \in 1..creq'
    BY <1>1, <1>5, <1>6
  <1>11. Apart'
    BY <1>1, <1>6, <1>7, <1>9, <1>10 DEF Apart
  <1> QED BY <1>8, <1>11 DEF Transit

LEMMA TransitStep ==
  ASSUME IInv, Next PROVE Transit'
  <1>0. Types /\ Calling /\ Serving /\ Transit /\ Types' /\ Calling' /\ Serving'
    BY TypesStep, CallingStep, ServingStep DEF IInv
  <1>1. UNCHANGED method /\ MethodType' = MethodType /\ Request' = Request
    BY ConfSame
  <1>2. CASE CallUnary \/ CallStream
    <2>1. /\ cpc = "idle" /\ cpc' # "idle" /\ ~local_closed
          /\ UNCHANGED <<tasks, schan, hin, hclosed, local_closed>>
      BY <1>0, <1>2 DEF CallUnary, CallStream, Calling, serverV, handleV
    <2>2. hpc = "none" /\ tasks = {}
      BY <1>0, <2>1 DEF Calling, Untouched
    <2>3. hin = <<>> /\ schan = <<>> /\ ~hclosed
      BY <1>0, <2>2 DEF Serving
    <2>4. Len(hin') = 0 /\ Len(schan') = 0 /\ tasks' = {} /\ ~hclosed'
      BY <2>1, <2>2, <2>3
    <2>5. c2s' = <<Request>>
      <3>1. CASE CallUnary
        BY <1>0, <3>1, Kinds DEF CallUnary, Request
      <3>2. CASE CallStream
        BY <1>0, <3>2, Kinds DEF CallStream, Request
      <3> QED BY <1>2, <3>1, <3>2
    <2>6. Len(c2s') = 1 /\ c2s'[1] = Request /\ (\A k \in 1..1 : k = 1) /\ (\A k \in 1..0 : FALSE)
      BY <2>5, ShortSeqs
    <2>7. Request \notin Sent'
      <3>1. \A n \in 1..creq' : n \in Nat
        BY <1>0, BoundAssumption DEF Types, TypeOK
      <3> QED BY <1>0, <3>1, RequestFrame DEF Sent
    <2> QED BY <2>4, <2>6, <2>7 DEF Transit, OneC2s, OneSchan, OneHin, Apart
  <1>3. CASE Send
    <2>1. /\ creq' = creq + 1 /\ creq' \in 1..MaxReq /\ creq \in Nat /\ creq' \in Nat
          /\ c2s' = Append(c2s, Data(creq'))
      BY <1>0, <1>3, BoundAssumption DEF Send, Types, TypeOK
    <2>a. creq' \notin 1..creq /\ 1..creq' = 1..creq \cup {creq'}
      BY <2>1
    <2>2. UNCHANGED <<local_closed, schan, tasks, hin, hclosed>>
      BY <1>3 DEF Send, serverV, handleV
    <2>3. Data(creq') \in DataFrame /\ Sent' = Sent \cup {Data(creq')}
      <3>1. {Data(n) : n \in 1..creq'} = {Data(n) : n \in 1..creq} \cup {Data(creq')}
        BY <2>a
      <3> QED BY <2>1, <2>2, <3>1 DEF DataFrame, Sent
    <2>4. Data(creq') # Close /\ Data(creq').n = creq'
      BY <2>1, Frames
    <2>5. Data(creq') \notin Sent
      <3>1. \A n \in 1..creq : n \in Nat /\ n # creq'
        BY <2>1, <2>a
      <3>2. \A n \in 1..creq : Data(n) # Data(creq')
        BY <2>1, <3>1, Frames
      <3> QED BY <2>4, <3>2 DEF Sent
    <2>6. ~Taken(Data(creq'))
      BY <1>0, <2>a, <2>4 DEF Taken, Transit, Apart
    <2> QED BY <1>0, <2>1, <2>2, <2>3, <2>5, <2>6, TransitSends
  <1>4. CASE CloseSend
    <2>1. /\ ~local_closed /\ local_closed' /\ c2s' = Append(c2s, Close)
          /\ UNCHANGED <<creq, schan, tasks, hin, hclosed>>
      BY <1>4 DEF CloseSend, serverV, handleV
    <2>2. Sent' = Sent \cup {Close} /\ Close \in DataFrame
      BY <2>1 DEF Sent, DataFrame
    <2>3. Close \notin Sent
      <3>1. \A n \in 1..creq : n \in Nat
        BY <1>0, BoundAssumption DEF Types, TypeOK
      <3> QED BY <2>1, <3>1, Frames DEF Sent
    <2>4. ~Taken(Close)
      BY <1>0, <2>1 DEF Taken, Transit, Apart
    <2>5. creq' \in Nat /\ creq' >= creq
      BY <1>0, <2>1, BoundAssumption DEF Types, TypeOK
    <2> QED BY <1>0, <2>1, <2>2, <2>3, <2>4, <2>5, TransitSends
  <1>5. CASE \/ Drop \/ Route \/ Recv \/ Respond \/ MethodTimesOut \/ HandlerSend \/ DropReceiver \/ HandlerReturns
             \/ \E f \in DataFrame : DeliverFails(f)
    <2>1. /\ tasks' \subseteq tasks /\ (schan' = schan \/ schan' = <<>>)
          /\ UNCHANGED <<c2s, hin, hclosed, creq, local_closed>>
      BY <1>5 DEF Drop, Route, Recv, Respond, MethodTimesOut, HandlerSend, DropReceiver, HandlerReturns,
             DeliverFails, clientV, serverV, handleV
    <2> QED BY <1>0, <2>1, TransitSame
  <1>6. CASE Refuse \/ HandleStream \/ SpawnData
    <2>1. /\ c2s # <<>> /\ c2s' = Tail(c2s)
          /\ tasks' = tasks \/ (tasks' = tasks \cup {Head(c2s)} /\ Head(c2s).type = "data")
          /\ UNCHANGED <<schan, hin, hclosed, creq, local_closed>>
      BY <1>6 DEF Refuse, HandleStream, SpawnData, clientV, serverV, handleV
    <2> QED BY <1>0, <2>1, TransitTakes
  <1>7. CASE HandleMethod
    <2>1. c2s # <<>> /\ Head(c2s).type = "request" /\ MethodType = "Unary" /\ cpc' = cpc
      BY <1>7 DEF HandleMethod, Bound, clientV
    <2>2. Pending /\ cpc # "idle"
      BY <1>0, <2>1, WireHead
    <2>3. hpc = "none"
      BY <1>0, <2>2 DEF Calling, Untouched
    <2>4. ~method.client_streaming /\ ~hclosed' /\ schan' = <<>>
      BY <1>0, <1>7, <2>1, <2>3, Kinds DEF HandleMethod, Serving
    <2>5. hpc' = "serve"
      BY <1>7, <2>1 DEF HandleMethod, HandlerEntry
    <2>6. hin' = <<1>>
      BY <1>0, <1>1, <2>4, <2>5 DEF Serving
    <2> QED BY <1>0, <1>1, <2>1, <2>2, <2>4, <2>6, TransitOnly
  <1>8. CASE FirstData \/ RecvRequest
    <2>1. hpc = "request"
      BY <1>0, <1>8 DEF FirstData, RecvRequest, Serving
    <2>2. MethodType = "ServerStreaming" /\ cpc # "idle" /\ hin = <<>>
      BY <1>0, <2>1 DEF Serving, Calling, Untouched
    <2>3. ~method.client_streaming /\ cpc' = cpc
      BY <1>0, <1>8, <2>2, Kinds DEF FirstData, RecvRequest, clientV
    <2>4. ~hclosed'
      <3>1. hclosed' = hclosed
        BY <1>8 DEF FirstData, RecvRequest, handleV
      <3> QED BY <1>0, <2>3, <3>1 DEF Transit, Apart, Calling
    <2>5. \/ hin' = <<>> /\ schan' = <<Data(1)>>
          \/ hin' = <<1>> /\ schan' = <<>>
      <3>1. CASE FirstData
        <4>1. hpc' = "request" /\ rtask' = "await"
          BY <1>0, <2>1, <3>1, FirstSends DEF FirstData, handleV
        <4> QED BY <1>0, <4>1 DEF Serving
      <3>2. CASE RecvRequest
        <4>1. hpc' = "serve" /\ schan' = <<>>
          BY <3>2 DEF RecvRequest
        <4> QED BY <1>0, <1>1, <2>3, <4>1 DEF Serving
      <3> QED BY <1>8, <3>1, <3>2
    <2> QED BY <1>0, <1>1, <2>2, <2>3, <2>4, <2>5, TransitOnly
  <1>9. ASSUME NEW f \in DataFrame, Deliver(f) PROVE Transit'
    <2>1. /\ f \in tasks /\ tasks' = tasks \ {f} /\ schan' = Append(schan, f)
          /\ UNCHANGED <<c2s, hin, hclosed, creq, local_closed>>
      BY <1>9 DEF Deliver, clientV, handleV
    <2> QED BY <1>0, <2>1, TransitDelivers
  <1>10. CASE HandlerRecv
    BY <1>0, <1>10, TransitReceives
  <1> QED BY <1>2, <1>3, <1>4, <1>5, <1>6, <1>7, <1>8, <1>9, <1>10
          DEF Next, ClientStep, ServerStep, DataTask

-----------------------------------------------------------------------------
(* The replies.                                                              *)
LEMMA ReplySame ==
  ASSUME UNCHANGED method PROVE \A f : Reply(f)' <=> Reply(f)
  BY DEF Reply

LEMMA ReplyTypes ==
  ASSUME Types
  PROVE  /\ Len(got) \in Nat /\ Len(mailbox) \in Nat /\ Len(s2c) \in Nat
         /\ Base \in Nat /\ hout \in Nat /\ MaxResp \in Nat
  BY BoundAssumption DEF Types, TypeOK, Base

(* A frame is appended: the last one, or the next message of a handler that  *)
(* has not returned.                                                         *)
LEMMA WireAppends ==
  ASSUME Types, Wire, NEW f \in Frame, Reply(f), s2c' = Append(s2c, f),
         UNCHANGED <<method, creg, got, mailbox>>,
         \/ Terminal(f) /\ hout' = hout
         \/ /\ f = Data(hout + 1) /\ hout' = hout + 1
            /\ \A k \in 1..Len(s2c) : s2c[k] # Close
  PROVE  Wire'
  <1>1. /\ Len(s2c) \in Nat /\ Len(s2c') = Len(s2c) + 1
        /\ \A k \in 1..Len(s2c) : s2c'[k] = s2c[k]
        /\ s2c'[Len(s2c) + 1] = f
        /\ \A k \in 1..(Len(s2c) + 1) : k \in 1..Len(s2c) \/ k = Len(s2c) + 1
    BY AppendFacts DEF Types, TypeOK
  <1>m. PICK m \in Nat : m = Len(s2c)
    BY <1>1
  <1>2. Base' = Base /\ Base \in Nat /\ hout \in Nat
    BY ReplyTypes DEF Base
  <1>3. \A k \in 0..Len(s2c) : Plain(k)' <=> Plain(k)
    <2> TAKE k \in 0..Len(s2c)
    <2>1. \A j \in 1..k : j \in 1..Len(s2c)
      BY <1>1
    <2> QED BY <1>1, <2>1 DEF Plain
  <1>4. Plain(m + 1)' <=> Plain(m) /\ ~Terminal(f)
    <2>1. \A j \in 1..m : j \in 1..(m + 1) /\ s2c'[j] = s2c[j]
      BY <1>1, <1>m
    <2>2. m + 1 \in 1..(m + 1) /\ s2c'[m + 1] = f
      BY <1>1, <1>m
    <2>3. \A j \in 1..(m + 1) : j \in 1..m \/ j = m + 1
      BY <1>1, <1>m
    <2> QED BY <2>1, <2>2, <2>3 DEF Plain
  <1>5. \A k \in 1..Len(s2c') : Reply(s2c'[k])
    BY <1>1 DEF Wire
  <1>6. ASSUME creg, NEW k \in 1..Len(s2c'), Plain(k)'
        PROVE  s2c'[k] = Data(Base + k) /\ Base + k <= hout'
    <2>1. CASE k \in 1..Len(s2c)
      <3>1. Plain(k) /\ k \in 0..Len(s2c)
        BY <1>1, <1>3, <1>6, <2>1
      <3>2. s2c[k] = Data(Base + k) /\ Base + k <= hout
        BY <1>6, <2>1, <3>1 DEF Wire
      <3> QED BY <1>1, <1>2, <2>1, <3>2
    <2>2. CASE k = Len(s2c) + 1
      <3>1. Plain(m) /\ ~Terminal(f)
        BY <1>4, <1>6, <1>m, <2>2
      <3>2. hout = Base + Len(s2c)
        BY <1>6, <1>m, <3>1 DEF Wire
      <3>3. hout + 1 = Base + k /\ hout' = hout + 1 /\ s2c'[k] = Data(hout + 1)
        BY <1>1, <1>2, <2>2, <3>1, <3>2
      <3> QED BY <1>2, <3>3
    <2> QED BY <1>1, <2>1, <2>2
  <1>7. ASSUME creg, NEW k \in 1..Len(s2c'), Plain(k - 1)', s2c'[k] = Close
        PROVE  hout' = Base + k - 1
    <2>1. CASE k \in 1..Len(s2c)
      <3>1. k - 1 \in 0..Len(s2c) /\ s2c[k] = Close
        BY <1>1, <1>7, <2>1
      <3>2. Plain(k - 1) /\ hout' = hout
        BY <1>3, <1>7, <2>1, <3>1
      <3> QED BY <1>7, <2>1, <3>1, <3>2 DEF Wire
    <2>2. CASE k = Len(s2c) + 1
      <3>1. f = Close /\ k - 1 = m /\ m \in 0..Len(s2c)
        BY <1>1, <1>7, <1>m, <2>2
      <3>2. hout' = hout
        <4>1. hout + 1 \in Nat
          BY <1>2
        <4>2. Data(hout + 1) # Close
          BY <4>1, Frames
        <4> QED BY <3>1, <4>2
      <3>3. Plain(m)
        BY <1>3, <1>7, <3>1
      <3>4. hout = Base + Len(s2c)
        BY <1>7, <1>m, <3>3 DEF Wire
      <3> QED BY <1>1, <1>2, <2>2, <3>2, <3>4
    <2> QED BY <1>1, <2>1, <2>2
  <1>8. ASSUME creg, Plain(Len(s2c))' PROVE hout' = Base + Len(s2c')
    <2>1. Plain(m + 1)'
      BY <1>1, <1>m, <1>8 DEF Plain
    <2>2. Plain(m) /\ ~Terminal(f)
      BY <1>4, <2>1
    <2>3. hout = Base + Len(s2c) /\ hout' = hout + 1
      BY <1>8, <1>m, <2>2 DEF Wire
    <2> QED BY <1>1, <1>2, <2>3
  <1> QED BY <1>2, <1>5, <1>6, <1>7, <1>8, ReplySame DEF Wire

(* The client's reader moves the first reply into the mailbox.               *)
LEMMA RouteStep ==
  ASSUME Types, Mailbox, Wire, Route PROVE Mailbox' /\ Wire'
  <1>0. UNCHANGED <<method, got, hout>>
    BY DEF Route, conf, handleV
  <1>1. /\ Head(s2c) \in Frame /\ Head(s2c) = s2c[1] /\ 1 \in 1..Len(s2c) /\ Len(s2c) \in Nat
        /\ Len(s2c') = Len(s2c) - 1
        /\ \A k \in 1..Len(s2c') : s2c'[k] = s2c[k + 1] /\ k + 1 \in 1..Len(s2c)
    BY TailFacts DEF Route, Types, TypeOK
  <1>2. \A f : Reply(f)' <=> Reply(f)
    BY <1>0, ReplySame
  <1>3. \A k \in 1..Len(s2c') : Reply(s2c[k])'
    BY <1>1, <1>2 DEF Wire
  <1>4. CASE ~creg
    <2>1. ~creg' /\ mailbox' = mailbox
      BY <1>4 DEF Route
    <2> QED BY <1>0, <1>2, <1>3, <1>4, <2>1 DEF Mailbox, Wire
  <1>5. CASE creg
    <2>1. mailbox' = Append(mailbox, Head(s2c)) /\ (creg' <=> ~Terminal(Head(s2c)))
      BY <1>5 DEF Route
    <2>2. /\ Len(mailbox) \in Nat /\ Len(mailbox') = Len(mailbox) + 1
          /\ \A k \in 1..Len(mailbox) : mailbox'[k] = mailbox[k]
          /\ mailbox'[Len(mailbox) + 1] = Head(s2c)
          /\ \A k \in 1..(Len(mailbox) + 1) : k \in 1..Len(mailbox) \/ k = Len(mailbox) + 1
      BY <1>1, <2>1, AppendFacts DEF Types, TypeOK
    <2>3. Base' = Base + 1 /\ Base = Len(got) + Len(mailbox) /\ Base \in Nat /\ hout \in Nat
          /\ Len(got) \in Nat
      BY <1>0, <2>2, ReplyTypes DEF Base
    <2>4. \A k \in 1..Len(mailbox) : ~Terminal(mailbox[k])
      BY <1>5 DEF Mailbox
    <2>5. ~Terminal(Head(s2c)) => Head(s2c) = Data(Base + 1) /\ Base + 1 <= hout
      <3>1. ~Terminal(Head(s2c)) => Plain(1)
        BY <1>1 DEF Plain
      <3> QED BY <1>1, <1>5, <3>1 DEF Wire
    <2>6. Head(s2c) = Close => hout = Base
      <3>1. Plain(1 - 1)
        BY DEF Plain
      <3>2. Head(s2c) = Close => hout = Base + 1 - 1
        BY <1>1, <1>5, <3>1 DEF Wire
      <3> QED BY <2>3, <3>2
    <2>7. Mailbox'
      <3>1. ASSUME NEW k \in 1..Len(mailbox')
            PROVE  /\ Reply(mailbox[k])'
                   /\ Terminal(mailbox'[k]) => k = Len(mailbox') /\ ~creg'
                   /\ ~Terminal(mailbox'[k]) => /\ mailbox'[k] = Data(Len(got) + k)
                                                /\ Len(got) + k <= hout
                   /\ mailbox'[k] = Close => hout = Len(got) + k - 1
        <4>1. CASE k \in 1..Len(mailbox)
          <5>1. mailbox'[k] = mailbox[k] /\ ~Terminal(mailbox[k])
            BY <2>2, <2>4, <4>1
          <5> QED BY <1>2, <4>1, <5>1 DEF Mailbox
        <4>2. CASE k = Len(mailbox) + 1
          <5>1. mailbox'[k] = Head(s2c) /\ k = Len(mailbox') /\ Len(got) + k = Base + 1
            BY <2>2, <2>3, <4>2
          <5>2. Reply(mailbox[k])'
            BY <1>1, <1>2, <5>1 DEF Wire
          <5>3. Len(got) + k - 1 = Base
            BY <2>3, <5>1
          <5> QED BY <2>1, <2>5, <2>6, <5>1, <5>2, <5>3
        <4> QED BY <2>2, <4>1, <4>2
      <3> QED BY <1>0, <3>1 DEF Mailbox
    <2>8. Wire'
      <3>1. CASE Terminal(Head(s2c))
        BY <1>3, <2>1, <3>1 DEF Wire
      <3>2. CASE ~Terminal(Head(s2c))
        <4>1. ASSUME NEW k \in Nat, k < Len(s2c), Plain(k)' PROVE Plain(k + 1)
          <5> SUFFICES ASSUME NEW j \in 1..(k + 1) PROVE ~Terminal(s2c[j])
            BY DEF Plain
          <5>1. CASE j = 1
            BY <1>1, <3>2, <5>1
          <5>2. CASE j # 1
            <6>1. j - 1 \in 1..k /\ j - 1 \in 1..Len(s2c') /\ (j - 1) + 1 = j
              BY <1>1, <4>1, <5>2
            <6>2. ~Terminal(s2c'[j - 1])
              BY <4>1, <6>1 DEF Plain
            <6> QED BY <1>1, <6>1, <6>2
          <5> QED BY <5>1, <5>2
        <4>2. ASSUME NEW k \in 1..Len(s2c'), Plain(k)'
              PROVE  s2c'[k] = Data(Base' + k) /\ Base' + k <= hout
          <5>1. Plain(k + 1) /\ k + 1 \in 1..Len(s2c) /\ s2c'[k] = s2c[k + 1]
            BY <1>1, <4>1, <4>2
          <5>2. s2c[k + 1] = Data(Base + (k + 1)) /\ Base + (k + 1) <= hout
            BY <1>5, <5>1 DEF Wire
          <5>3. Base + (k + 1) = Base' + k
            BY <2>3
          <5> QED BY <5>1, <5>2, <5>3
        <4>3. ASSUME NEW k \in 1..Len(s2c'), Plain(k - 1)', s2c'[k] = Close
              PROVE  hout = Base' + k - 1
          <5>1. k - 1 \in Nat /\ k - 1 < Len(s2c) /\ (k - 1) + 1 = (k + 1) - 1
            BY <1>1
          <5>2. Plain((k + 1) - 1) /\ k + 1 \in 1..Len(s2c) /\ s2c[k + 1] = Close
            BY <1>1, <4>1, <4>3, <5>1
          <5>3. hout = Base + (k + 1) - 1
            BY <1>5, <5>2 DEF Wire
          <5> QED BY <2>3, <5>3
        <4>4. ASSUME Plain(Len(s2c))' PROVE hout = Base' + Len(s2c')
          <5>1. PICK m \in Nat : m = Len(s2c') /\ m < Len(s2c) /\ m + 1 = Len(s2c)
            BY <1>1
          <5>2. Plain(m)'
            BY <4>4, <5>1 DEF Plain
          <5>3. Plain(m + 1)
            BY <4>1, <5>1, <5>2
          <5>4. hout = Base + Len(s2c)
            BY <1>5, <5>1, <5>3 DEF Wire
          <5> QED BY <1>1, <2>3, <5>4
        <4> QED BY <1>0, <1>3, <4>2, <4>3, <4>4 DEF Wire
      <3> QED BY <3>1, <3>2
    <2> QED BY <2>7, <2>8
  <1>6. creg \in BOOLEAN
    BY DEF Types, TypeOK
  <1> QED BY <1>4, <1>5, <1>6

(* The application takes the first reply from the mailbox.                   *)
LEMMA RecvStep ==
  ASSUME Types, Mailbox, Wire, Recv PROVE Mailbox' /\ Wire'
  <1>0. UNCHANGED <<method, creg, s2c, hout>>
    BY DEF Recv, conf, handleV
  <1>1. /\ Head(mailbox) \in Frame /\ Head(mailbox) = mailbox[1] /\ 1 \in 1..Len(mailbox)
        /\ Len(mailbox) \in Nat /\ Len(mailbox') = Len(mailbox) - 1
        /\ \A k \in 1..Len(mailbox') : mailbox'[k] = mailbox[k + 1] /\ k + 1 \in 1..Len(mailbox)
    BY TailFacts DEF Recv, Types, TypeOK
  <1>2. \A f : Reply(f)' <=> Reply(f)
    BY <1>0, ReplySame
  <1>3. Reply(Head(mailbox))
    BY <1>1 DEF Mailbox
  <1>4. Received(Head(mailbox)) = "none" <=> ~Terminal(Head(mailbox))
    BY <1>1, <1>3, ReplyFrames
  <1>5. CASE Terminal(Head(mailbox))
    <2>1. Len(mailbox) = 1 /\ ~creg /\ got' = got
      BY <1>1, <1>4, <1>5 DEF Mailbox, Recv
    <2>2. \A k \in 1..Len(mailbox') : FALSE
      BY <1>1, <2>1
    <2> QED BY <1>0, <1>2, <2>1, <2>2 DEF Mailbox, Wire
  <1>6. CASE ~Terminal(Head(mailbox))
    <2>1. Head(mailbox) = Data(Len(got) + 1) /\ Len(got) + 1 <= hout /\ Len(got) \in Nat
      BY <1>1, <1>6, ReplyTypes DEF Mailbox
    <2>2. Head(mailbox).n = Len(got) + 1
      BY <2>1, Frames
    <2>3. got' = Append(got, Len(got) + 1)
      BY <1>4, <1>6, <2>2 DEF Recv
    <2>4. /\ Len(got') = Len(got) + 1
          /\ \A i \in 1..Len(got) : got'[i] = got[i]
          /\ got'[Len(got) + 1] = Len(got) + 1
          /\ \A i \in 1..(Len(got) + 1) : i \in 1..Len(got) \/ i = Len(got) + 1
      BY <2>1, <2>3, AppendFacts DEF Types
    <2>5. Base' = Base
      BY <1>1, <2>1, <2>4 DEF Base
    <2>6. Len(got') <= hout /\ \A i \in 1..Len(got') : got'[i] = i
      BY <2>1, <2>4 DEF Mailbox
    <2>7. ASSUME NEW k \in 1..Len(mailbox')
          PROVE  /\ Reply(mailbox[k])'
                 /\ Terminal(mailbox'[k]) => k = Len(mailbox') /\ ~creg'
                 /\ ~Terminal(mailbox'[k]) => /\ mailbox'[k] = Data(Len(got') + k)
                                              /\ Len(got') + k <= hout
                 /\ mailbox'[k] = Close => hout = Len(got') + k - 1
      <3>0. /\ mailbox'[k] = mailbox[k + 1] /\ k + 1 \in 1..Len(mailbox) /\ k \in Nat
            /\ k + 1 = Len(mailbox) => k = Len(mailbox')
        BY <1>1
      <3>1. Len(got') + k = Len(got) + (k + 1)
        BY <2>1, <2>4, <3>0
      <3>2. /\ Reply(mailbox[k + 1])
            /\ Terminal(mailbox[k + 1]) => k + 1 = Len(mailbox) /\ ~creg
            /\ ~Terminal(mailbox[k + 1]) => /\ mailbox[k + 1] = Data(Len(got) + (k + 1))
                                            /\ Len(got) + (k + 1) <= hout
            /\ mailbox[k + 1] = Close => hout = Len(got) + (k + 1) - 1
        BY <3>0 DEF Mailbox
      <3>3. Len(got) + (k + 1) - 1 = Len(got') + k - 1
        BY <3>1
      <3>4. Reply(mailbox[k])'
        BY <1>2, <3>0, <3>2
      <3> QED BY <1>0, <3>0, <3>1, <3>2, <3>3, <3>4
    <2>8. Mailbox'
      BY <1>0, <2>6, <2>7 DEF Mailbox
    <2>9. Wire'
      <3>1. \A k : Plain(k)' <=> Plain(k)
        BY <1>0 DEF Plain
      <3>2. Plain(Len(s2c))' <=> Plain(Len(s2c))
        BY <1>0 DEF Plain
      <3> QED BY <1>0, <1>2, <2>5, <3>1, <3>2 DEF Wire
    <2> QED BY <2>8, <2>9
  <1> QED BY <1>5, <1>6

LEMMA ReplyStep ==
  ASSUME IInv, Next PROVE Mailbox' /\ Wire'
  <1>0. Types /\ Calling /\ Serving /\ Mailbox /\ Wire /\ Truth
    BY DEF IInv
  <1>1. UNCHANGED method /\ \A f : Reply(f)' <=> Reply(f)
    BY ConfSame, ReplySame
  <1>2. CASE CallUnary \/ CallStream
    <2>1. Untouched /\ hpc = "none" /\ creg' /\ UNCHANGED <<got, mailbox, s2c, hout>>
      BY <1>0, <1>2 DEF CallUnary, CallStream, Calling, Untouched, handleV
    <2>2. Len(got') = 0 /\ Len(mailbox') = 0 /\ Len(s2c') = 0 /\ hout' = 0
      BY <1>0, <2>1 DEF Untouched, Serving
    <2>3. \A k \in 1..0 : FALSE
      OBVIOUS
    <2>4. Mailbox'
      BY <2>2, <2>3 DEF Mailbox
    <2>5. Wire'
      <3>1. hout' = Base' + Len(s2c')
        BY <2>2 DEF Base
      <3> QED BY <2>2, <2>3, <3>1 DEF Wire
    <2> QED BY <2>4, <2>5
  <1>3. CASE Route
    BY <1>0, <1>3, RouteStep
  <1>4. CASE Recv
    BY <1>0, <1>4, RecvStep
  <1>5. CASE Drop
    <2>1. ~creg' /\ mailbox' = <<>> /\ UNCHANGED <<got, s2c, hout>>
      BY <1>5 DEF Drop, handleV
    <2>2. Len(mailbox') = 0 /\ \A k \in 1..0 : FALSE
      BY <2>1
    <2> QED BY <1>0, <1>1, <2>1, <2>2 DEF Mailbox, Wire
  <1>6. CASE \/ Send \/ CloseSend \/ HandleMethod \/ HandleStream \/ SpawnData \/ FirstData
             \/ RecvRequest \/ HandlerRecv \/ DropReceiver \/ HandlerReturns
             \/ \E f \in DataFrame : Deliver(f)
    <2>1. UNCHANGED <<creg, got, mailbox, s2c, hout>>
      BY <1>0, <1>6, FirstSends DEF Send, CloseSend, HandleMethod, HandleStream, SpawnData, FirstData, RecvRequest,
             HandlerRecv, DropReceiver, HandlerReturns, Deliver, clientV, handleV
    <2>2. Base' = Base /\ \A k : Plain(k)' <=> Plain(k)
      BY <2>1 DEF Base, Plain
    <2>3. Plain(Len(s2c))' <=> Plain(Len(s2c))
      BY <2>1 DEF Plain
    <2> QED BY <1>0, <1>1, <2>1, <2>2, <2>3 DEF Mailbox, Wire
  <1>7. CASE Refuse \/ Respond \/ MethodTimesOut \/ \E f \in DataFrame : DeliverFails(f)
    <2>1. UNCHANGED <<creg, got, mailbox, hout>>
      BY <1>7 DEF Refuse, Respond, MethodTimesOut, DeliverFails, clientV, handleV
    <2>2. Mailbox'
      BY <1>0, <1>1, <2>1 DEF Mailbox
    <2>3. \A st \in Status : Response(st) \in Frame /\ Terminal(Response(st)) /\ Reply(Response(st))
      BY Frames DEF Reply, Statuses
    <2>4. PICK f \in Frame : s2c' = Append(s2c, f) /\ Terminal(f) /\ Reply(f)
      <3>1. CASE Refuse \/ MethodTimesOut \/ \E f \in DataFrame : DeliverFails(f)
        BY <2>3, <3>1 DEF Refuse, MethodTimesOut, DeliverFails, Status
      <3>2. CASE Respond
        <4>1. hresult \in {"ok", "error"} /\ \E f \in Answers : s2c' = Append(s2c, f)
          BY <1>0, <3>2 DEF Respond, Serving, Types, TypeOK
        <4>2. FinalFrame \in Frame /\ Terminal(FinalFrame) /\ Reply(FinalFrame)
          <5>1. CASE method.server_streaming /\ hresult = "ok"
            BY <5>1, Frames DEF FinalFrame, Reply
          <5>2. CASE ~(method.server_streaming /\ hresult = "ok")
            BY <2>3, <4>1, <5>2 DEF FinalFrame, Status
          <5> QED BY <5>1, <5>2
        <4>3. \A f \in Answers : f = FinalFrame \/ f = Response("oversize")
          BY DEF Answers
        <4>4. "oversize" \in Status
          BY DEF Status
        <4> QED BY <2>3, <4>1, <4>2, <4>3, <4>4
      <3> QED BY <1>7, <3>1, <3>2
    <2>5. Wire'
      BY <1>0, <1>1, <2>1, <2>4, WireAppends
    <2> QED BY <2>2, <2>5
  <1>8. CASE HandlerSend
    <2>1. /\ hpc = "serve" /\ method.server_streaming /\ hout' = hout + 1 /\ hout \in Nat
          /\ s2c' = Append(s2c, Data(hout + 1)) /\ UNCHANGED <<creg, got, mailbox>>
      BY <1>0, <1>8, ReplyTypes DEF HandlerSend, clientV
    <2>2. hresult = "none"
      BY <1>0, <2>1 DEF Serving
    <2>3. /\ \A k \in 1..Len(s2c) : s2c[k] # Close
          /\ \A k \in 1..Len(mailbox) : mailbox[k] # Close
      BY <1>0, <2>2 DEF Truth, Claim
    <2>4. Mailbox'
      <3>1. Len(got) \in Nat /\ \A k \in 1..Len(mailbox) : k \in Nat
        BY <1>0, ReplyTypes
      <3>2. \A x \in Nat : x <= hout => x <= hout'
        BY <2>1
      <3>3. \A k \in 1..Len(mailbox) : Len(got) + k \in Nat
        BY <3>1
      <3> QED BY <1>0, <1>1, <2>1, <2>3, <3>1, <3>2, <3>3 DEF Mailbox
    <2>5. Wire'
      <3>1. Data(hout + 1) \in Frame /\ Data(hout + 1).n = hout + 1
        BY <2>1, Frames
      <3>2. Reply(Data(hout + 1))
        BY <2>1, <3>1 DEF Reply
      <3> QED BY <1>0, <1>1, <2>1, <2>3, <3>1, <3>2, WireAppends
    <2> QED BY <2>4, <2>5
  <1> QED BY <1>2, <1>3, <1>4, <1>5, <1>6, <1>7, <1>8 DEF Next, ClientStep, ServerStep, DataTask

-----------------------------------------------------------------------------
(* What the client is told.                                                  *)

(* A request that the handler has not taken leaves it fewer than were sent:  *)
(* those it took are different numbers of 1..creq without that one.          *)
LEMMA Pigeons ==
  ASSUME Types, Transit, NEW n \in 1..creq, \A i \in 1..Len(hin) : hin[i] # n
  PROVE  creq > Len(hin)
  <1>1. Len(hin) \in Nat /\ creq \in Nat /\ creq >= 1
    BY BoundAssumption DEF Types, TypeOK
  <1>2. IsFiniteSet(1..creq) /\ Cardinality(1..creq) = creq
    BY <1>1, FS_Interval
  <1>3. /\ IsFiniteSet((1..creq) \ {n})
        /\ Cardinality((1..creq) \ {n}) = creq - 1
    BY <1>2, FS_RemoveElement
  <1>4. IsFiniteSet(1..Len(hin)) /\ Cardinality(1..Len(hin)) = Len(hin)
    BY <1>1, FS_Interval
  <1>5. PICK h \in [1..Len(hin) -> (1..creq) \ {n}] : \A i \in 1..Len(hin) : h[i] = hin[i]
    <2>1. \A i \in 1..Len(hin) : hin[i] \in 1..creq
      BY Zenon DEF Transit, Apart
    <2>2. [i \in 1..Len(hin) |-> hin[i]] \in [1..Len(hin) -> (1..creq) \ {n}]
      BY <2>1
    <2> QED BY <2>2
  <1>6. SUFFICES ASSUME creq <= Len(hin) PROVE FALSE
    BY <1>1
  <1>7. Cardinality((1..creq) \ {n}) < Cardinality(1..Len(hin))
    BY <1>1, <1>3, <1>4, <1>6
  <1>8. \E i, j \in 1..Len(hin) : i # j /\ h[i] = h[j]
    <2>1. PICK S : S = 1..Len(hin)
      OBVIOUS
    <2>2. PICK T : T = (1..creq) \ {n}
      OBVIOUS
    <2>3. IsFiniteSet(S) /\ IsFiniteSet(T) /\ Cardinality(T) < Cardinality(S) /\ h \in [S -> T]
      BY <1>3, <1>4, <1>5, <1>7, <2>1, <2>2
    <2>4. \E i, j \in S : i # j /\ h[i] = h[j]
      BY <2>3, FS_PigeonHole
    <2> QED BY <2>1, <2>4
  <1> QED BY <1>5, <1>8 DEF Transit, OneHin

(* What the handler missed it will not get any more.                         *)
LEMMA MissedStep ==
  ASSUME IInv, Next, Missed PROVE Missed'
  <1>0. Types /\ Calling /\ Serving /\ ~sreg /\ ~Pending /\ cpc # "idle" /\ Types'
    BY TypesStep DEF IInv, Missed
  <1>1. Request' = Request /\ creq \in Nat /\ creq' \in Nat /\ Len(hin) \in Nat
    BY <1>0, ConfSame, BoundAssumption DEF Types, TypeOK
  <1>2. hpc # "request" /\ ~(c2s # <<>> /\ Head(c2s).type = "request")
    BY <1>0, WireHead DEF Serving
  <1>3. UNCHANGED <<hin, hclosed>> /\ ~sreg' /\ cpc' # "idle" /\ ~CallUnary /\ ~CallStream
        /\ ~Refuse /\ ~HandleMethod /\ ~HandleStream
    <2>1. ~CallUnary /\ ~CallStream /\ ~Refuse /\ ~HandleMethod /\ ~HandleStream
      BY <1>0, <1>2 DEF CallUnary, CallStream, Refuse, HandleMethod, HandleStream
    <2>2. CASE Send \/ CloseSend \/ Drop \/ Route \/ Recv
      BY <1>0, <2>1, <2>2 DEF Send, CloseSend, Drop, Route, Recv, serverV, handleV
    <2>3. CASE \/ SpawnData \/ FirstData \/ Respond \/ MethodTimesOut \/ RecvRequest \/ HandlerRecv \/ HandlerSend
               \/ DropReceiver \/ HandlerReturns \/ \E f \in DataFrame : DataTask(f)
      BY <1>0, <1>2, <2>1, <2>3 DEF SpawnData, FirstData, Respond, MethodTimesOut, RecvRequest, HandlerRecv,
         HandlerSend, DropReceiver, HandlerReturns, DataTask, Deliver, DeliverFails, clientV,
         serverV, handleV
    <2> QED BY <2>1, <2>2, <2>3 DEF Next, ClientStep, ServerStep
  <1>4. creq' >= creq /\ (local_closed => local_closed') /\ ~Pending'
    <2>1. CASE Send
      <3>1. creq' = creq + 1 /\ creq' \in 1..MaxReq /\ c2s' = Append(c2s, Data(creq'))
            /\ local_closed' = local_closed
        BY <1>0, <1>1, <2>1, BoundAssumption DEF Send, Types, TypeOK
      <3>2. Data(creq') \in DataFrame
        BY <3>1 DEF DataFrame
      <3> QED BY <1>0, <1>1, <3>1, <3>2, PendingSends
    <2>2. CASE CloseSend
      <3>1. creq' = creq /\ local_closed' /\ c2s' = Append(c2s, Close) /\ Close \in DataFrame
        BY <2>2 DEF CloseSend, DataFrame
      <3> QED BY <1>0, <1>1, <3>1, PendingSends
    <2>3. CASE SpawnData
      <3>1. /\ c2s # <<>> /\ c2s' = Tail(c2s) /\ Head(c2s).type = "data"
            /\ tasks' = tasks \cup {Head(c2s)}
            /\ UNCHANGED <<method, cpc, outcome, creq, local_closed, creg, mailbox>>
        BY <2>3 DEF SpawnData, conf, clientV
      <3> QED BY <1>0, <1>1, <3>1, CallingTakes
    <2>4. CASE \/ Drop \/ Route \/ Recv \/ FirstData \/ Respond \/ MethodTimesOut \/ RecvRequest \/ HandlerRecv
               \/ HandlerSend \/ DropReceiver \/ HandlerReturns \/ \E f \in DataFrame : DataTask(f)
      <3>1. UNCHANGED <<creq, local_closed, c2s>>
        BY <2>4 DEF Drop, Route, Recv, FirstData, Respond, MethodTimesOut, RecvRequest, HandlerRecv, HandlerSend,
           DropReceiver, HandlerReturns, DataTask, Deliver, DeliverFails, clientV
      <3> QED BY <1>0, <1>1, <3>1 DEF Pending
    <2> QED BY <1>3, <2>1, <2>2, <2>3, <2>4 DEF Next, ClientStep, ServerStep
  <1> QED BY <1>1, <1>3, <1>4 DEF Missed

(* A handler that has returned neither returns again nor sends.              *)
LEMMA ReturnedStep ==
  ASSUME IInv, Next, hresult # "none" PROVE hresult' = hresult /\ hout' = hout
  <1>1. hpc = "returned"
    BY DEF IInv, Serving
  <1> QED BY <1>1 DEF Next, ClientStep, ServerStep, DataTask, CallUnary, CallStream, Send, CloseSend,
       Drop, Route, Recv, Refuse, HandleMethod, HandleStream, SpawnData, FirstData, Respond, MethodTimesOut,
       Deliver, DeliverFails, RecvRequest, HandlerRecv, HandlerSend, DropReceiver, HandlerReturns, handleV

(* A handler that has ended, by itself or by its time-out, has ended.        *)
LEMMA EndedStep ==
  ASSUME IInv, Next, hpc \in {"returned", "cancelled"} PROVE hpc' = hpc
  <1>1. Types /\ Calling
    BY DEF IInv
  <1>2. ~Pending
    BY <1>1 DEF Calling, Untouched
  <1>3. ~(c2s # <<>> /\ Head(c2s).type = "request")
    BY <1>1, <1>2, WireHead
  <1> QED BY <1>3 DEF Next, ClientStep, ServerStep, DataTask, CallUnary, CallStream, Send, CloseSend,
       Drop, Route, Recv, Refuse, HandleMethod, HandleStream, SpawnData, FirstData, Respond,
       MethodTimesOut, Deliver, DeliverFails, RecvRequest, HandlerRecv, HandlerSend, DropReceiver,
       HandlerReturns, handleV

LEMMA ClaimStep ==
  ASSUME IInv, Next, NEW f, Claim(f) PROVE Claim(f)'
  <1>1. Registered' = Registered /\ Deadline' = Deadline
    BY ConfSame DEF Deadline, Bound
  <1> QED BY <1>1, MissedStep, ReturnedStep, EndedStep DEF Claim

(* Claims of the frames that the server's tasks append.                      *)
LEMMA Claims ==
  /\ \A n \in Nat : Claim(Data(n))
  /\ Missed => Claim(Response("inactive"))
  /\ ~Registered => Claim(Response("unknown"))
  /\ hresult = "ok" => Claim(Response("ok")) /\ Claim(Close)
  /\ hresult = "error" => Claim(Response("error"))
  /\ Deadline /\ hpc = "cancelled" => Claim(Response("deadline"))
  /\ hpc = "returned" => Claim(Response("oversize"))
  <1>1. \A n \in Nat : Data(n) # Close /\ \A st : Data(n) # Response(st)
    BY Frames
  <1>2. \A st \in Status : Response(st) # Close
    BY Frames
  <1>3. \A a, b \in Status : Response(a) = Response(b) => a = b
    BY Frames
  <1>4. /\ "ok" \in Status /\ "error" \in Status /\ "inactive" \in Status /\ "unknown" \in Status
        /\ "deadline" \in Status /\ "oversize" \in Status
    BY DEF Status
  <1>5. \A n \in Nat : Claim(Data(n))
    BY <1>1 DEF Claim
  <1>6. Missed => Claim(Response("inactive"))
    BY <1>2, <1>3, <1>4 DEF Claim
  <1>7. ~Registered => Claim(Response("unknown"))
    BY <1>2, <1>3, <1>4 DEF Claim
  <1>8. hresult = "ok" => Claim(Response("ok")) /\ Claim(Close)
    BY <1>2, <1>3, <1>4 DEF Claim
  <1>9. hresult = "error" => Claim(Response("error"))
    BY <1>2, <1>3, <1>4 DEF Claim
  <1>10. Deadline /\ hpc = "cancelled" => Claim(Response("deadline"))
    BY <1>2, <1>3, <1>4 DEF Claim
  <1>11. hpc = "returned" => Claim(Response("oversize"))
    BY <1>2, <1>3, <1>4 DEF Claim
  <1> QED BY <1>5, <1>6, <1>7, <1>8, <1>9, <1>10, <1>11

(* A task that finds no receiver proves that the handler missed its frame.   *)
LEMMA UndeliveredMissed ==
  ASSUME IInv, NEW f \in tasks, ~sreg PROVE Missed
  <1>0. Types /\ Calling /\ Transit
    BY DEF IInv
  <1>1. ~Pending /\ cpc # "idle"
    BY <1>0 DEF Calling, Untouched
  <1>2. f \in Sent /\ ~Taken(f)
    BY <1>0 DEF Transit, Apart
  <1>3. (f = Close /\ local_closed) \/ (f = Data(f.n) /\ f.n \in 1..creq /\ f # Close)
    BY <1>0, <1>2, SentFrames
  <1>4. CASE f = Close /\ local_closed
    BY <1>1, <1>2, <1>4 DEF Missed, Taken
  <1>5. CASE f.n \in 1..creq /\ f # Close
    <2>1. \A i \in 1..Len(hin) : hin[i] # f.n
      BY <1>2, <1>5 DEF Taken
    <2>2. creq > Len(hin)
      BY <1>0, <1>5, <2>1, Pigeons
    <2> QED BY <1>1, <2>2 DEF Missed
  <1> QED BY <1>3, <1>4, <1>5

LEMMA TruthStep ==
  ASSUME IInv, Next PROVE Truth'
  <1>0. /\ Types /\ Calling /\ Serving /\ Mailbox /\ Wire /\ Truth
        /\ s2c \in Seq(Frame) /\ mailbox \in Seq(Frame)
    BY DEF IInv, Types, TypeOK
  <1>1. Registered' = Registered /\ Deadline' = Deadline
    BY ConfSame DEF Deadline, Bound
  <1>2. \A f : Claim(f) => Claim(f)'
    BY ClaimStep
  <1>7. ASSUME NEW f \in Frame, Claim(f)', s2c' = Append(s2c, f)
        PROVE  \A k \in 1..Len(s2c') : Claim(s2c[k])'
    <2>1. /\ Len(s2c') = Len(s2c) + 1
          /\ \A k \in 1..Len(s2c) : s2c'[k] = s2c[k]
          /\ s2c'[Len(s2c) + 1] = f
          /\ \A k \in 1..(Len(s2c) + 1) : k \in 1..Len(s2c) \/ k = Len(s2c) + 1
      BY <1>0, <1>7, AppendFacts
    <2>2. \A k \in 1..Len(s2c) : Claim(s2c'[k])
      BY <1>0, <2>1 DEF Truth
    <2> QED BY <1>2, <1>7, <2>1, <2>2
  <1>3. ASSUME NEW f \in Frame, Claim(f), s2c' = Append(s2c, f)
        PROVE  \A k \in 1..Len(s2c') : Claim(s2c[k])'
    BY <1>2, <1>3, <1>7
  <1>4. \A k \in 1..Len(s2c') : Claim(s2c[k])'
    <2>1. CASE Refuse
      <3>1. Response("unknown") \in Frame /\ Claim(Response("unknown"))
        BY <2>1, Frames, Claims DEF Refuse, Status
      <3> QED BY <1>3, <2>1, <3>1 DEF Refuse
    <2>2. ASSUME NEW g \in DataFrame, DeliverFails(g) PROVE \A k \in 1..Len(s2c') : Claim(s2c[k])'
      <3>1. Missed
        BY <2>2, UndeliveredMissed DEF DeliverFails
      <3>2. Response("inactive") \in Frame /\ Claim(Response("inactive"))
        BY <3>1, Frames, Claims DEF Status
      <3> QED BY <1>3, <2>2, <3>2 DEF DeliverFails
    <2>3. CASE Respond
      <3>1. hresult \in {"ok", "error"}
        BY <1>0, <2>3 DEF Respond, Serving, Types, TypeOK
      <3>2. Response(hresult) \in Frame /\ Close \in Frame
        BY <3>1, Frames DEF Status
      <3>3. FinalFrame \in Frame /\ Claim(FinalFrame)
        BY <3>1, <3>2, Claims DEF FinalFrame
      <3>4. Response("oversize") \in Frame /\ Claim(Response("oversize"))
        BY <2>3, Frames, Claims DEF Respond, Status
      <3>5. PICK f \in Answers : s2c' = Append(s2c, f)
        BY <2>3 DEF Respond
      <3>6. f = FinalFrame \/ f = Response("oversize")
        BY <3>5 DEF Answers
      <3> QED BY <1>3, <3>3, <3>4, <3>5, <3>6
    <2>8. CASE MethodTimesOut
      <3>1. Response("deadline") \in Frame /\ s2c' = Append(s2c, Response("deadline"))
        BY <2>8, Frames DEF MethodTimesOut, Status
      <3>2. (Deadline /\ hpc = "cancelled")'
        BY <1>1, <2>8 DEF MethodTimesOut
      <3>3. Claim(Response("deadline"))'
        BY <3>2, Claims, PTL
      <3> QED BY <1>7, <3>1, <3>3
    <2>4. CASE HandlerSend
      <3>1. hout + 1 \in Nat
        BY <1>0, ReplyTypes
      <3>2. Data(hout + 1) \in Frame /\ Claim(Data(hout + 1))
        BY <3>1, Frames, Claims
      <3> QED BY <1>3, <2>4, <3>2 DEF HandlerSend
    <2>5. CASE Route
      <3>1. \A k \in 1..Len(s2c') : s2c'[k] = s2c[k + 1] /\ k + 1 \in 1..Len(s2c)
        BY <1>0, <2>5, TailFacts DEF Route
      <3> QED BY <1>0, <1>2, <3>1 DEF Truth
    <2>6. CASE s2c' = s2c
      BY <1>0, <1>2, <2>6 DEF Truth
    <2>7. \/ Refuse \/ Respond \/ MethodTimesOut \/ HandlerSend \/ Route \/ s2c' = s2c
          \/ \E g \in DataFrame : DeliverFails(g)
      BY <1>0, FirstSends
      DEF Next, ClientStep, ServerStep, DataTask, CallUnary, CallStream, Send, CloseSend, Drop,
         Recv, HandleMethod, HandleStream, SpawnData, FirstData, Deliver, RecvRequest, HandlerRecv,
         DropReceiver, HandlerReturns
    <2> QED BY <2>1, <2>2, <2>3, <2>4, <2>5, <2>6, <2>7, <2>8
  <1>5. \A k \in 1..Len(mailbox') : Claim(mailbox[k])'
    <2>1. CASE Route /\ creg
      <3>1. Head(s2c) \in Frame /\ Head(s2c) = s2c[1] /\ 1 \in 1..Len(s2c)
        BY <1>0, <2>1, TailFacts DEF Route
      <3>2. mailbox' = Append(mailbox, Head(s2c)) /\ Claim(Head(s2c))
        BY <1>0, <2>1, <3>1 DEF Route, Truth
      <3>3. /\ Len(mailbox') = Len(mailbox) + 1
            /\ \A k \in 1..Len(mailbox) : mailbox'[k] = mailbox[k]
            /\ mailbox'[Len(mailbox) + 1] = Head(s2c)
            /\ \A k \in 1..(Len(mailbox) + 1) : k \in 1..Len(mailbox) \/ k = Len(mailbox) + 1
        BY <1>0, <3>1, <3>2, AppendFacts
      <3>4. \A k \in 1..Len(mailbox') : Claim(mailbox'[k])
        BY <1>0, <3>2, <3>3 DEF Truth
      <3> QED BY <1>2, <3>4
    <2>2. CASE Recv
      <3>1. \A k \in 1..Len(mailbox') : mailbox'[k] = mailbox[k + 1] /\ k + 1 \in 1..Len(mailbox)
        BY <1>0, <2>2, TailFacts DEF Recv
      <3> QED BY <1>0, <1>2, <3>1 DEF Truth
    <2>3. CASE mailbox' = <<>>
      <3>1. Len(mailbox') = 0 /\ \A k \in 1..0 : FALSE
        BY <2>3
      <3> QED BY <3>1
    <2>4. CASE mailbox' = mailbox
      BY <1>0, <1>2, <2>4 DEF Truth
    <2>5. (Route /\ creg) \/ Recv \/ mailbox' = <<>> \/ mailbox' = mailbox
      BY DEF Next, ClientStep, ServerStep, DataTask, CallUnary, CallStream, Send, CloseSend, Drop,
         Route, Refuse, HandleMethod, HandleStream, SpawnData, FirstData, Respond, MethodTimesOut,
         Deliver, DeliverFails, RecvRequest, HandlerRecv, HandlerSend, DropReceiver, HandlerReturns, clientV
    <2> QED BY <2>1, <2>2, <2>3, <2>4, <2>5
  <1>6. /\ outcome' # "protocol"
        /\ outcome' \in {"ok", "eof"} => hresult' = "ok"
        /\ outcome' = "error" => hresult' = "error"
        /\ outcome' = "eof" => Len(got') = hout'
        /\ outcome' = "inactive" => Missed'
        /\ outcome' = "unknown" => ~Registered'
        /\ outcome' = "deadline" => Deadline' /\ hpc' = "cancelled"
        /\ outcome' = "oversize" => hpc' = "returned"
    <2>1. CASE Recv
      <3>1. /\ Head(mailbox) \in Frame /\ Head(mailbox) = mailbox[1] /\ 1 \in 1..Len(mailbox)
            /\ Len(got) \in Nat /\ hout \in Nat
        BY <1>0, <2>1, TailFacts, ReplyTypes DEF Recv
      <3>2. /\ Reply(Head(mailbox)) /\ Claim(Head(mailbox))
            /\ Head(mailbox) = Close => hout = Len(got)
        <4>1. Head(mailbox) = Close => hout = Len(got) + 1 - 1
          BY <1>0, <3>1 DEF Mailbox
        <4> QED BY <1>0, <3>1, <4>1 DEF Mailbox, Truth
      <3>3. /\ outcome' = Received(Head(mailbox)) /\ UNCHANGED <<hresult, hout, hpc>>
            /\ outcome' # "none" => got' = got
        BY <2>1 DEF Recv, handleV
      <3>4. /\ outcome' \in {"none", "eof"} \cup Status
            /\ outcome' = "none" <=> ~Terminal(Head(mailbox))
            /\ outcome' = "eof" <=> Head(mailbox) = Close
            /\ Head(mailbox) \in Statuses => Head(mailbox) = Response(outcome')
            /\ Head(mailbox).n \in Nat
        BY <1>0, <3>1, <3>2, <3>3, ReplyFrames
      <3>5. outcome' \notin {"none", "eof"} => Head(mailbox) = Response(outcome')
        BY <3>2, <3>4, Frames DEF Reply
      <3>6. outcome' = "inactive" => Missed'
        BY <3>2, <3>5, MissedStep DEF Claim
      <3>7. outcome' # "protocol"
        BY <3>4 DEF Status
      <3> QED BY <1>1, <3>2, <3>3, <3>4, <3>5, <3>6, <3>7 DEF Claim
    <2>2. CASE Drop
      BY <2>2 DEF Drop
    <2>3. CASE outcome' = outcome /\ got' = got
      BY <1>0, <1>1, <2>3, MissedStep, ReturnedStep, EndedStep DEF Truth
    <2>4. Recv \/ Drop \/ (outcome' = outcome /\ got' = got)
      BY DEF Next, ClientStep, ServerStep, DataTask, CallUnary, CallStream, Send, CloseSend,
         Route, Refuse, HandleMethod, HandleStream, SpawnData, FirstData, Respond, MethodTimesOut,
         Deliver, DeliverFails, RecvRequest, HandlerRecv, HandlerSend, DropReceiver, HandlerReturns, clientV
    <2> QED BY <2>1, <2>2, <2>3, <2>4
  <1> QED BY <1>4, <1>5, <1>6 DEF Truth

-----------------------------------------------------------------------------
(* The invariant holds.                                                      *)
LEMMA InitInv ==
  ASSUME Init PROVE IInv
  <1>0. MaxReq \in Nat /\ MaxResp \in Nat /\ StreamCap \in Nat
    BY BoundAssumption
  <1>1. /\ Len(<<>>) = 0 /\ <<>> \in Seq(Frame) /\ <<>> \in Seq(Nat)
        /\ \A k \in 1..0 : FALSE
    BY ShortSeqs
  <1>2. Types
    <2>1. MethodType \in Kind
      BY DEF Init, MethodType, Kind
    <2>2. creg \in BOOLEAN /\ local_closed \in BOOLEAN /\ sreg \in BOOLEAN /\ hclosed \in BOOLEAN
      BY Zenon DEF Init
    <2>3. creq \in 0..MaxReq /\ hout \in 0..MaxResp /\ Len(schan) <= StreamCap
      BY <1>0, <1>1 DEF Init
    <2>4. /\ mailbox \in Seq(Frame) /\ c2s \in Seq(Frame) /\ s2c \in Seq(Frame)
          /\ schan \in Seq(Frame) /\ hin \in Seq(Nat) /\ got \in Seq(Nat)
      BY <1>1 DEF Init
    <2> QED BY <2>1, <2>2, <2>3, <2>4 DEF Init, Types, TypeOK
  <1>3. Calling
    BY <1>1 DEF Init, Calling, Untouched, Pending
  <1>4. Serving
    BY DEF Init, Serving
  <1>5. Transit
    BY <1>1 DEF Init, Transit, OneC2s, OneSchan, OneHin, Apart
  <1>6. Mailbox
    BY <1>1 DEF Init, Mailbox
  <1>7. Wire
    BY <1>1 DEF Init, Wire
  <1>8. Truth
    BY <1>1 DEF Init, Truth
  <1> QED BY <1>2, <1>3, <1>4, <1>5, <1>6, <1>7, <1>8 DEF IInv

LEMMA Stutter ==
  ASSUME IInv, UNCHANGED vars PROVE IInv'
  <1> USE DEF vars, conf, clientV, serverV, handleV
  <1>1. MethodType' = MethodType /\ Registered' = Registered
    BY DEF MethodType, Registered, ServiceName, ServiceFullName, ServicePath
  <1>2. Request' = Request
    BY <1>1 DEF Request, RequestFlags
  <1>3. Sent' = Sent /\ (Pending' <=> Pending) /\ (Untouched' <=> Untouched) /\ Base' = Base
    BY <1>2, SentSame DEF Pending, Untouched, Base
  <1>4. Types'
    BY <1>1 DEF IInv, Types, TypeOK
  <1>5. Calling'
    BY <1>2, <1>3 DEF IInv, Calling
  <1>6. Serving'
    BY <1>1, ServingSame DEF IInv
  <1>7. Transit'
    BY TransitSame DEF IInv
  <1>8. Mailbox'
    BY ReplySame DEF IInv, Mailbox
  <1>9. Wire'
    <2>1. \A k : Plain(k)' <=> Plain(k)
      BY DEF Plain
    <2>2. Plain(Len(s2c))' <=> Plain(Len(s2c))
      BY DEF Plain
    <2> QED BY <1>3, <2>1, <2>2, ReplySame DEF IInv, Wire
  <1>10. Truth'
    <2>1. Missed' <=> Missed
      BY <1>3 DEF Missed
    <2>3. Deadline' <=> Deadline
      BY <1>1 DEF Deadline, Bound
    <2>2. \A f : Claim(f)' <=> Claim(f)
      BY <1>1, <2>1, <2>3 DEF Claim
    <2> QED BY <1>1, <2>1, <2>2, <2>3 DEF IInv, Truth
  <1> QED BY <1>4, <1>5, <1>6, <1>7, <1>8, <1>9, <1>10 DEF IInv

(* The inductive invariant holds of every RPC.                               *)
THEOREM Invariance == Spec => []IInv
  <1>1. Init => IInv
    BY InitInv
  <1>2. IInv /\ [Next]_vars => IInv'
    <2> SUFFICES ASSUME IInv, [Next]_vars PROVE IInv'
      OBVIOUS
    <2>1. CASE Next
      BY <2>1, TypesStep, CallingStep, ServingStep, TransitStep, ReplyStep, TruthStep DEF IInv
    <2>2. CASE UNCHANGED vars
      BY <2>2, Stutter
    <2> QED BY <2>1, <2>2
  <1> QED BY <1>1, <1>2, PTL DEF Spec

(* The two sides of the generated bindings agree about the frames, whatever  *)
(* the kind of the method and the generators: every request the service sees *)
(* was sent, and is seen once, although a task of its own delivers each; the *)
(* client sees the responses in order up to the frame that ends the call,    *)
(* although different tasks send errors for late DATA and the result; and no *)
(* side receives a frame its stream is not for.                              *)
THEOREM ExchangeIsExact == Spec => []ExchangeExact
  <1>1. IInv => ExchangeExact
    <2> SUFFICES ASSUME IInv PROVE ExchangeExact
      OBVIOUS
    <2>1. TypeOK
      BY DEF IInv, Types
    <2>2. /\ \A i \in 1..Len(hin) : hin[i] \in 1..creq
          /\ \A i, j \in 1..Len(hin) : i # j => hin[i] # hin[j]
      BY DEF IInv, Transit, OneHin, Apart
    <2>3. (hpc \in {"serve", "returned"} /\ ~method.client_streaming) => hin = <<1>>
      BY DEF IInv, Serving
    <2>4. /\ Len(got) <= hout /\ \A i \in 1..Len(got) : got[i] = i
          /\ \A i \in 1..Len(mailbox) : Terminal(mailbox[i]) => i = Len(mailbox) /\ ~creg
      BY DEF IInv, Mailbox
    <2>5. outcome # "protocol" /\ (cpc = "done" => mailbox = <<>> /\ ~creg)
      BY DEF IInv, Truth, Calling
    <2> QED BY <2>1, <2>2, <2>3, <2>4, <2>5 DEF ExchangeExact
  <1> QED BY <1>1, Invariance, PTL

(* What the client is told is what happened: the result of the service       *)
(* method, the end of a stream behind all its messages, "not active" only    *)
(* if the method left something unread that the client had sent, an unknown  *)
(* service only if the generators name it differently, a deadline only for   *)
(* a method that was stopped by it, and an oversized answer only for one     *)
(* that returned.                                                            *)
THEOREM OutcomeIsTruthful == Spec => []OutcomeTruthful
  <1>1. IInv => OutcomeTruthful
    <2> SUFFICES ASSUME IInv PROVE OutcomeTruthful
      OBVIOUS
    <2>1. /\ outcome \in {"ok", "eof"} => hresult = "ok"
          /\ outcome = "error" => hresult = "error"
          /\ outcome = "eof" => Len(got) = hout
          /\ outcome = "inactive" => Missed
          /\ outcome = "unknown" => ~Registered
          /\ outcome = "deadline" => Deadline /\ hpc = "cancelled"
          /\ outcome = "oversize" => hpc = "returned"
      BY DEF IInv, Truth
    <2>2. ~Registered => ~packaged /\ gen["client"] # gen["server"]
      BY DEF Registered, ServiceName, ServiceFullName, ServicePath
    <2>3. ~Registered => hpc = "none"
      BY DEF IInv, Serving
    <2> QED BY <2>1, <2>2, <2>3 DEF OutcomeTruthful, Missed
  <1> QED BY <1>1, Invariance, PTL
=============================================================================
