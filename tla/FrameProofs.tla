------------------------------ MODULE FrameProofs ------------------------------
(***************************************************************************)
(* Proofs about the wire format, for any header and page size, any limit   *)
(* and overhead, any payload sizes and any buffer of the transport. The    *)
(* bytes in flight are described by how far one lies behind another, so    *)
(* that a read of any length is placed by one fact about its first byte.   *)
(***************************************************************************)
EXTENDS Frame, TLAPS

Byte == [f : Nat, i : Nat]

Types ==
  /\ who \in Writer /\ side \in {"async", "sync"} /\ xform \in BOOLEAN
  /\ snonce \in 0..MaxFrames /\ rnonce \in Nat /\ (~xform => rnonce = 0)
  /\ chan \in [len : Nat, nonce : Nat, some : BOOLEAN]
  /\ sent \in Seq(Nat) /\ nonces \in Seq(Nat) /\ Len(nonces) = Len(sent)
  /\ wst \in {"idle", "writing", "ended"} /\ woff \in Nat
  /\ broken \in BOOLEAN /\ eof \in BOOLEAN
  /\ wire \in Seq(Byte) /\ Len(wire) <= Buffer /\ rbuf \in Seq(Byte)
  /\ rst \in {"header", "body", "discard", "ended"}
  /\ rhead \in 0..Len(sent) /\ disc \in Nat
  /\ got \in Seq([f : Nat, kind : {"msg", "bad", "oversize"}])

-----------------------------------------------------------------------------
(* The pipeline: what has been numbered is sent or in the channel, with      *)
(* consecutive nonces, and within the limit.                                 *)
Pipeline ==
  /\ Len(sent) <= MaxFrames
  /\ chan.some => Len(sent) < MaxFrames /\ chan.len \in Lengths
  /\ xform => who # "foreign"
  /\ who # "foreign" => /\ \A k \in 1..Len(sent) : sent[k] <= MaxLen
                        /\ chan.some => chan.len <= MaxLen
  /\ xform => /\ snonce = Len(sent) + (IF chan.some THEN 1 ELSE 0)
              /\ chan.some => chan.nonce = Len(sent)
              /\ \A k \in 1..Len(sent) : nonces[k] = k - 1
              /\ rnonce = Len(got)

(* The writer: within its frame while it writes.                             *)
End(f) == HeaderLen + sent[f]
Writing ==
  /\ sent # <<>> => woff <= End(Len(sent))
  /\ wst = "writing" => sent # <<>> /\ woff < End(Len(sent))

(* The byte that comes n bytes behind byte b, up to the next frame.          *)
Behind(b, n, c) ==
  /\ b.i + n <= End(b.f) => c = [f |-> b.f, i |-> b.i + n]
  /\ b.i + n = End(b.f) + 1 => c = [f |-> b.f + 1, i |-> 1]

(* The byte after the first p bytes of frame f.                              *)
Place(f, p) ==
  IF f <= Len(sent) /\ p = End(f) THEN [f |-> f + 1, i |-> 1] ELSE [f |-> f, i |-> p + 1]

(* Can the writer still write, and which byte would be next?                 *)
Live == ~broken /\ ~eof /\ wst # "ended"
NextOut ==
  IF wst = "writing" THEN [f |-> Len(sent), i |-> woff + 1]
                     ELSE [f |-> Len(sent) + 1, i |-> 1]

(* The frame the reader is at, and how much of it the reader has consumed.   *)
Cur == Len(got) + 1
Base == CASE rst = "header"  -> 0
          [] rst = "body"    -> HeaderLen
          [] rst = "discard" -> HeaderLen + sent[rhead] - disc
          [] OTHER           -> 0
Consumed == Base + Len(rbuf)

(* The bytes in flight are consecutive, and the writer goes on behind them.  *)
Flight ==
  /\ \A k \in 1..Len(wire) : wire[k].f \in 1..Len(sent) /\ wire[k].i \in 1..End(wire[k].f)
  /\ \A j, k \in 1..Len(wire) : j < k => Behind(wire[j], k - j, wire[k])
  /\ Live => \A j \in 1..Len(wire) : Behind(wire[j], Len(wire) + 1 - j, NextOut)

(* The reader works on frame Cur; what it has read so far are the bytes of   *)
(* that frame; and the next byte is the one it needs.                        *)
Framed ==
  /\ Len(got) <= Len(sent)
  /\ rst \in {"body", "discard"} =>
       /\ rhead = Cur /\ rhead <= Len(sent)
       /\ rst = "body" <=> sent[rhead] <= MaxLen
  /\ rst = "discard" => disc \in 1..sent[rhead]
Buffered ==
  rst # "ended" =>
    /\ Len(rbuf) <= Want
    /\ \A k \in 1..Len(rbuf) : rbuf[k] = [f |-> Cur, i |-> Base + k]
    /\ rbuf # <<>> => Cur <= Len(sent)
Aligned ==
  rst # "ended" =>
    /\ wire # <<>> => wire[1] = Place(Cur, Consumed)
    /\ wire = <<>> /\ Live => NextOut = Place(Cur, Consumed)
Reading == Framed /\ Buffered /\ Aligned

IInv == Types /\ Pipeline /\ Writing /\ Flight /\ Reading

-----------------------------------------------------------------------------
(* The sequences the steps build.                                            *)
LEMMA AppendElems ==
  ASSUME NEW S, NEW s \in Seq(S), NEW e \in S
  PROVE  /\ Append(s, e) \in Seq(S) /\ Len(Append(s, e)) = Len(s) + 1
         /\ \A k \in 1..Len(s) : Append(s, e)[k] = s[k]
         /\ Append(s, e)[Len(s) + 1] = e
         /\ \A k \in 1..(Len(s) + 1) : k \in 1..Len(s) \/ k = Len(s) + 1
  <1>1. Append(s, e) \in Seq(S) /\ Len(Append(s, e)) = Len(s) + 1 /\ Len(s) \in Nat
    OBVIOUS
  <1>2. \A k \in 1..Len(s) : Append(s, e)[k] = s[k]
    BY <1>1
  <1>3. Append(s, e)[Len(s) + 1] = e
    BY <1>1
  <1> QED BY <1>1, <1>2, <1>3

LEMMA ConcatElems ==
  ASSUME NEW S, NEW s \in Seq(S), NEW t \in Seq(S)
  PROVE  /\ s \o t \in Seq(S) /\ Len(s \o t) = Len(s) + Len(t)
         /\ Len(s) \in Nat /\ Len(t) \in Nat
         /\ \A k \in 1..Len(s) : (s \o t)[k] = s[k]
         /\ \A k \in 1..Len(t) : (s \o t)[Len(s) + k] = t[k]
         /\ \A k \in 1..(Len(s) + Len(t)) :
              k \in 1..Len(s) \/ (k - Len(s) \in 1..Len(t) /\ (s \o t)[k] = t[k - Len(s)])
  <1>1. s \o t \in Seq(S) /\ Len(s \o t) = Len(s) + Len(t) /\ Len(s) \in Nat /\ Len(t) \in Nat
    OBVIOUS
  <1>2. \A k \in 1..Len(s) : (s \o t)[k] = s[k]
    BY <1>1
  <1>3. \A k \in 1..Len(t) : (s \o t)[Len(s) + k] = t[k]
    BY <1>1
  <1>4. \A k \in 1..(Len(s) + Len(t)) :
          k \in 1..Len(s) \/ (k - Len(s) \in 1..Len(t) /\ (s \o t)[k] = t[k - Len(s)])
    BY <1>1
  <1> QED BY <1>1, <1>2, <1>3, <1>4

LEMMA SplitElems ==
  ASSUME NEW S, NEW s \in Seq(S), NEW n \in 1..Len(s)
  PROVE  /\ SubSeq(s, 1, n) \in Seq(S) /\ Len(SubSeq(s, 1, n)) = n
         /\ \A k \in 1..n : SubSeq(s, 1, n)[k] = s[k]
         /\ SubSeq(s, n + 1, Len(s)) \in Seq(S) /\ Len(SubSeq(s, n + 1, Len(s))) = Len(s) - n
         /\ \A k \in 1..(Len(s) - n) : SubSeq(s, n + 1, Len(s))[k] = s[n + k]
  <1>1. SubSeq(s, 1, n) \in Seq(S) /\ Len(SubSeq(s, 1, n)) = n
    OBVIOUS
  <1>2. \A k \in 1..n : SubSeq(s, 1, n)[k] = s[k]
    OBVIOUS
  <1>3. SubSeq(s, n + 1, Len(s)) \in Seq(S) /\ Len(SubSeq(s, n + 1, Len(s))) = Len(s) - n
    OBVIOUS
  <1>4. \A k \in 1..(Len(s) - n) : SubSeq(s, n + 1, Len(s))[k] = s[n + k]
    OBVIOUS
  <1> QED BY <1>1, <1>2, <1>3, <1>4

-----------------------------------------------------------------------------
(* The pipeline's steps.                                                     *)
LEMMA SubmitStep ==
  ASSUME IInv, NEW n \in Sizes, Submit(n) PROVE IInv'
  <1> USE FrameAssumption DEF conf, writer, reader
  <1>0. Types /\ Pipeline /\ n \in Nat
    BY DEF IInv
  <1>1. PICK len \in n..(IF xform THEN n + Overhead ELSE n) :
          chan' = IF Oversize(len) THEN chan ELSE Handed(len)
    BY DEF Submit
  <1>2. len \in Nat /\ len \in Lengths
    <2>1. len \in Nat /\ len - n \in 0..Overhead /\ len = n + (len - n)
      BY <1>0
    <2> QED BY <2>1 DEF Lengths
  <1>3. xform => len <= MaxLen
    BY <1>0, <1>2 DEF Submit, PreCheck, MaxRaw
  <1>4. /\ ~chan.some /\ Len(sent) < MaxFrames /\ snonce < MaxFrames /\ who # "foreign"
        /\ snonce' = IF xform THEN snonce + 1 ELSE snonce
        /\ UNCHANGED <<who, side, xform, sent, nonces, got, rnonce>>
    BY <1>0 DEF Submit, Full, Types, Pipeline
  <1>5. Types'
    BY <1>0, <1>1, <1>2, <1>4 DEF Types, Submit, Handed
  <1>6. Pipeline'
    <2>1. CASE Oversize(len)
      BY <1>0, <1>1, <1>2, <1>3, <1>4, <2>1 DEF Pipeline, Types, Oversize, Lengths
    <2>2. CASE ~Oversize(len)
      <3>1. /\ chan'.some /\ chan'.len = len /\ chan'.nonce = snonce /\ len <= MaxLen
        BY <1>1, <1>2, <2>2 DEF Handed, Oversize
      <3>2. Lengths' = Lengths
        BY DEF Lengths
      <3>3. chan'.some => Len(sent') < MaxFrames /\ chan'.len \in Lengths'
        BY <1>2, <1>4, <3>1, <3>2
      <3>4. who' # "foreign" => /\ \A k \in 1..Len(sent') : sent'[k] <= MaxLen
                                /\ chan'.some => chan'.len <= MaxLen
        BY <1>0, <1>4, <3>1 DEF Pipeline
      <3>5. xform' => /\ snonce' = Len(sent') + (IF chan'.some THEN 1 ELSE 0)
                      /\ chan'.some => chan'.nonce = Len(sent')
                      /\ \A k \in 1..Len(sent') : nonces'[k] = k - 1
                      /\ rnonce' = Len(got')
        <4>1. xform => snonce = Len(sent) /\ (\A k \in 1..Len(sent) : nonces[k] = k - 1)
                       /\ rnonce = Len(got)
          BY <1>0, <1>4 DEF Pipeline, Types
        <4> QED BY <1>4, <3>1, <4>1
      <3> QED BY <1>0, <1>4, <3>3, <3>4, <3>5 DEF Pipeline
    <2> QED BY <2>1, <2>2
  <1>7. Writing' /\ Flight'
    BY DEF IInv, Submit, Writing, Flight, End, Behind, Live, NextOut
  <1>8. Reading'
    BY DEF IInv, Submit, Reading, Framed, Buffered, Aligned, Cur, Base, Consumed, Place, End, Want,
           MinOf, Live, NextOut, Last
  <1> QED BY <1>5, <1>6, <1>7, <1>8 DEF IInv

LEMMA ForeignStep ==
  ASSUME IInv, NEW n \in Sizes, SubmitForeign(n) PROVE IInv'
  <1> USE FrameAssumption DEF conf, writer, reader
  <1>0. Types /\ Pipeline /\ n \in Nat
    BY DEF IInv
  <1>1. n \in Lengths
    <2>1. 0 \in 0..Overhead /\ n = n + 0
      BY <1>0
    <2> QED BY <2>1 DEF Lengths
  <1>2. Lengths' = Lengths
    BY DEF Lengths
  <1>3. Types'
    BY <1>0 DEF Types, SubmitForeign, Handed
  <1>4. Pipeline'
    <2>1. /\ chan'.some /\ chan'.len = n /\ who = "foreign" /\ Len(sent) < MaxFrames
          /\ UNCHANGED <<who, xform, sent, nonces, got, rnonce, snonce>>
      BY <1>0 DEF SubmitForeign, Handed, Full, Pipeline, Types
    <2> QED BY <1>0, <1>1, <1>2, <2>1 DEF Pipeline
  <1>5. Writing' /\ Flight'
    BY DEF IInv, SubmitForeign, Writing, Flight, End, Behind, Live, NextOut
  <1>6. Reading'
    BY DEF IInv, SubmitForeign, Reading, Framed, Buffered, Aligned, Cur, Base, Consumed, Place, End,
           Want, MinOf, Live, NextOut, Last
  <1> QED BY <1>3, <1>4, <1>5, <1>6 DEF IInv

LEMMA DiscardStep ==
  ASSUME IInv, Discard PROVE IInv'
  <1> USE FrameAssumption DEF conf, writer, reader
  <1>1. Types'
    BY DEF IInv, Types, Discard, NoFrame
  <1>2. Pipeline'
    <2>1. ~xform /\ ~chan'.some /\ UNCHANGED <<who, xform, sent, nonces, got, rnonce, snonce>>
      BY DEF Discard, NoFrame, Controlled
    <2> QED BY <2>1 DEF IInv, Pipeline
  <1>3. Writing' /\ Flight'
    BY DEF IInv, Discard, Writing, Flight, End, Behind, Live, NextOut
  <1>4. Reading'
    BY DEF IInv, Discard, Reading, Framed, Buffered, Aligned, Cur, Base, Consumed, Place, End, Want,
           MinOf, Live, NextOut, Last
  <1> QED BY <1>1, <1>2, <1>3, <1>4 DEF IInv

-----------------------------------------------------------------------------
(* The writer's steps.                                                       *)
LEMMA StartStep ==
  ASSUME IInv, StartFrame PROVE IInv'
  <1> USE FrameAssumption DEF conf, writer, reader
  <1>0. Types /\ Pipeline /\ Writing /\ Flight /\ Reading
    BY DEF IInv
  <1>1. /\ sent \in Seq(Nat) /\ nonces \in Seq(Nat) /\ Len(nonces) = Len(sent)
        /\ chan.len \in Nat /\ chan.nonce \in Nat /\ chan.some
        /\ sent' = Append(sent, chan.len) /\ nonces' = Append(nonces, chan.nonce)
        /\ ~chan'.some /\ chan' \in [len : Nat, nonce : Nat, some : BOOLEAN]
        /\ wst = "idle" /\ wst' = "writing" /\ woff' = 0
        /\ UNCHANGED <<who, side, xform, snonce, broken, wire, eof, rst, rbuf, rhead, disc, got,
                       rnonce>>
    BY <1>0 DEF Types, StartFrame, NoFrame
  <1>2. /\ Len(sent') = Len(sent) + 1 /\ Len(nonces') = Len(sent) + 1 /\ Len(sent) \in Nat
        /\ sent' \in Seq(Nat) /\ nonces' \in Seq(Nat)
    BY <1>1, AppendElems
  <1>3. /\ sent'[Len(sent) + 1] = chan.len /\ nonces'[Len(sent) + 1] = chan.nonce
        /\ \A k \in 1..Len(sent) : sent'[k] = sent[k] /\ nonces'[k] = nonces[k]
        /\ \A k \in 1..(Len(sent) + 1) : k \in 1..Len(sent) \/ k = Len(sent) + 1
    BY <1>1, AppendElems
  <1>4. Types'
    BY <1>0, <1>1, <1>2 DEF Types
  <1>5. Pipeline'
    <2>1. Len(sent') <= MaxFrames
      BY <1>0, <1>1, <1>2 DEF Pipeline
    <2>2. who' # "foreign" => \A k \in 1..Len(sent') : sent'[k] <= MaxLen
      BY <1>0, <1>1, <1>2, <1>3 DEF Pipeline
    <2>3. xform' => \A k \in 1..Len(sent') : nonces'[k] = k - 1
      <3>1. ASSUME xform, NEW k \in 1..(Len(sent) + 1) PROVE nonces'[k] = k - 1
        <4>1. CASE k \in 1..Len(sent)
          BY <1>0, <1>3, <3>1, <4>1 DEF Pipeline
        <4>2. CASE k = Len(sent) + 1
          BY <1>0, <1>1, <1>2, <1>3, <3>1, <4>2 DEF Pipeline
        <4> QED BY <1>3, <4>1, <4>2
      <3> QED BY <1>1, <1>2, <3>1
    <2>4. xform' => snonce' = Len(sent') /\ rnonce' = Len(got')
      BY <1>0, <1>1, <1>2 DEF Pipeline
    <2>5. ~chan'.some /\ (xform' => who' # "foreign")
      BY <1>0, <1>1 DEF Pipeline
    <2> QED BY <2>1, <2>2, <2>3, <2>4, <2>5 DEF Pipeline
  <1>6. Writing'
    BY <1>1, <1>2, <1>3, SMTT(30) DEF Writing, End
  <1>7. Live' = Live /\ NextOut' = NextOut
    BY <1>1, <1>2 DEF Live, NextOut
  <1>8. Flight'
    <2>1. \A k \in 1..Len(wire) :
            wire[k].f \in 1..Len(sent) /\ wire[k].i \in 1..(HeaderLen + sent[wire[k].f])
      BY <1>0 DEF Flight, End
    <2>2. \A k \in 1..Len(wire) : sent'[wire[k].f] = sent[wire[k].f]
      BY <1>3, <2>1
    <2>3. \A k \in 1..Len(wire) :
            wire[k].f \in 1..Len(sent') /\ wire[k].i \in 1..(HeaderLen + sent'[wire[k].f])
      <3> SUFFICES ASSUME NEW k \in 1..Len(wire)
                   PROVE  /\ wire[k].f \in 1..Len(sent')
                          /\ wire[k].i \in 1..(HeaderLen + sent'[wire[k].f])
        OBVIOUS
      <3>1. \A x \in 1..Len(sent) : x \in 1..Len(sent')
        BY <1>2
      <3>2. wire[k].f \in 1..Len(sent')
        BY <2>1, <3>1
      <3> QED BY <2>1, <2>2, <3>2
    <2>4. \A j \in 1..Len(wire) : \A n, c : Behind(wire[j], n, c) =>
            /\ wire[j].i + n <= HeaderLen + sent'[wire[j].f] =>
                 c = [f |-> wire[j].f, i |-> wire[j].i + n]
            /\ wire[j].i + n = HeaderLen + sent'[wire[j].f] + 1 =>
                 c = [f |-> wire[j].f + 1, i |-> 1]
      BY <2>2 DEF Behind, End
    <2>5. \A j, k \in 1..Len(wire') : j < k => Behind(wire[j], k - j, wire[k])'
      <3> SUFFICES ASSUME NEW j \in 1..Len(wire), NEW k \in 1..Len(wire), j < k
                   PROVE  Behind(wire[j], k - j, wire[k])'
        BY <1>1
      <3>1. Behind(wire[j], k - j, wire[k])
        BY <1>0 DEF Flight
      <3>2. /\ wire[j].i + (k - j) <= HeaderLen + sent'[wire[j].f] =>
                 wire[k] = [f |-> wire[j].f, i |-> wire[j].i + (k - j)]
            /\ wire[j].i + (k - j) = HeaderLen + sent'[wire[j].f] + 1 =>
                 wire[k] = [f |-> wire[j].f + 1, i |-> 1]
        BY <2>2, <3>1 DEF Behind, End
      <3> QED BY <1>1, <3>2 DEF Behind, End
    <2>6. Live' => \A j \in 1..Len(wire') : Behind(wire[j], Len(wire) + 1 - j, NextOut)'
      BY <1>0, <1>1, <1>7, <2>4 DEF Flight, Behind, End
    <2> QED BY <1>1, <2>3, <2>5, <2>6 DEF Flight, End
  <1>9. Reading'
    <2>1. Cur' = Cur /\ Cur \in 1..(Len(sent) + 1)
      BY <1>0, <1>1, <1>2 DEF Cur, Reading, Framed, Types
    <2>2. Framed'
      BY <1>0, <1>1, <1>2, <1>3, <2>1, SMTT(30) DEF Reading, Framed
    <2>3. rst \in {"body", "discard"} => rhead \in 1..Len(sent) /\ sent'[rhead] = sent[rhead]
      BY <1>0, <1>3, <2>1 DEF Reading, Framed
    <2>4. Want' = Want /\ Base' = Base /\ Consumed' = Consumed
      BY <1>1, <2>3 DEF Want, Base, Consumed
    <2>5. Buffered'
      BY <1>0, <1>1, <1>2, <2>1, <2>4 DEF Reading, Buffered
    <2>6. rst # "ended" => Place(Cur, Consumed)' = Place(Cur, Consumed)
      <3>1. CASE Cur <= Len(sent)
        BY <1>2, <1>3, <2>1, <2>4, <3>1, SMTT(30) DEF Place, End
      <3>2. CASE Cur = Len(sent) + 1
        <4>1. rst # "ended" => rst = "header" /\ rbuf = <<>>
          BY <1>0, <3>2 DEF Reading, Framed, Buffered, Types
        <4>2. rst # "ended" => Consumed = 0
          BY <4>1 DEF Consumed, Base
        <4> QED BY <1>1, <1>2, <1>3, <2>1, <2>4, <3>2, <4>2 DEF Place, End
      <3> QED BY <2>1, <3>1, <3>2
    <2>7. Aligned'
      BY <1>0, <1>1, <1>7, <2>6 DEF Reading, Aligned
    <2> QED BY <2>2, <2>5, <2>7 DEF Reading
  <1> QED BY <1>4, <1>5, <1>6, <1>8, <1>9 DEF IInv

(* Distances along the wire add up.                                          *)
LEMMA BehindAdds ==
  ASSUME Types, NEW b \in Byte, NEW c \in Byte, NEW x, NEW d \in Nat, NEW e \in Nat,
         b.f \in 1..Len(sent), c.f \in 1..Len(sent), c.i \in 1..End(c.f),
         Behind(b, d, c), Behind(c, e, x)
  PROVE  Behind(b, d + e, x)
  <1> USE FrameAssumption
  <1>1. /\ End(b.f) \in Nat /\ End(c.f) \in Nat /\ b.f \in Nat /\ b.i \in Nat
        /\ c.f \in Nat /\ c.i \in Nat
    <2>1. b.f \in Nat /\ b.i \in Nat /\ c.f \in Nat /\ c.i \in Nat
      BY DEF Byte
    <2>2. sent \in Seq(Nat) /\ Len(sent) \in Nat
      BY DEF Types
    <2>3. sent[b.f] \in Nat /\ sent[c.f] \in Nat
      BY <2>1, <2>2, SMTT(30)
    <2>4. HeaderLen + sent[b.f] \in Nat /\ HeaderLen + sent[c.f] \in Nat
      BY <2>3, SMTT(30)
    <2> QED BY <2>1, <2>4 DEF End
  <1>2. CASE b.i + d <= End(b.f)
    <2>1. c.f = b.f /\ c.i = b.i + d
      BY <1>2 DEF Behind
    <2>2. c.i + e = b.i + (d + e) /\ End(c.f) = End(b.f)
      BY <1>1, <2>1
    <2> QED BY <2>1, <2>2 DEF Behind
  <1>3. CASE b.i + d = End(b.f) + 1
    <2>1. c.f = b.f + 1 /\ c.i = 1
      BY <1>3 DEF Behind
    <2>2. e = 0 => x = [f |-> b.f + 1, i |-> 1]
      <3>1. e = 0 => c.i + e <= End(c.f) /\ c.i + e = 1
        BY <1>1, <2>1
      <3> QED BY <2>1, <3>1 DEF Behind
    <2>3. b.i + (d + e) = End(b.f) + 1 => e = 0
      BY <1>1, <1>3
    <2>4. ~(b.i + (d + e) <= End(b.f))
      BY <1>1, <1>3
    <2> QED BY <2>2, <2>3, <2>4 DEF Behind
  <1>4. CASE b.i + d > End(b.f) + 1
    <2>1. ~(b.i + (d + e) <= End(b.f)) /\ b.i + (d + e) # End(b.f) + 1
      BY <1>1, <1>4
    <2> QED BY <2>1 DEF Behind
  <1> QED BY <1>1, <1>2, <1>3, <1>4

LEMMA WriteStep ==
  ASSUME IInv, Write PROVE IInv'
  <1> USE FrameAssumption DEF conf, pipe, reader
  <1>0. Types /\ Pipeline /\ Writing /\ Flight /\ Reading
    BY DEF IInv
  <1> DEFINE n == Len(sent)
             L == Len(wire)
  <1>1. /\ n \in Nat \ {0} /\ L \in Nat /\ sent[n] \in Nat /\ End(n) \in Nat
        /\ woff \in Nat /\ woff < End(n) /\ WLen = sent[n] /\ End(n) = HeaderLen + WLen
        /\ sent \in Seq(Nat) /\ wire \in Seq(Byte) /\ wst = "writing" /\ ~broken /\ ~eof
    <2>1. /\ sent \in Seq(Nat) /\ wire \in Seq(Byte) /\ wst = "writing" /\ ~broken /\ ~eof
          /\ woff \in Nat
      BY <1>0 DEF Types, Write
    <2>2. n \in Nat /\ L \in Nat
      BY <2>1
    <2>3. sent # <<>> /\ woff < End(n)
      BY <1>0, <2>1 DEF Writing
    <2>4. n # 0 /\ sent[n] \in Nat
      BY <2>1, <2>2, <2>3
    <2> QED BY <2>1, <2>2, <2>3, <2>4 DEF End, WLen
  <1>2. SegmentEnd \in Nat /\ SegmentEnd <= End(n)
    BY <1>1 DEF SegmentEnd, PrefixEnd, MinOf
  <1>3. PICK j \in (woff + 1)..SegmentEnd :
          /\ Len(wire) + (j - woff) <= Buffer
          /\ wire' = wire \o Bytes(woff, j)
          /\ woff' = j
          /\ wst' = IF j = HeaderLen + WLen THEN "idle" ELSE wst
    BY DEF Write
  <1> DEFINE m == j - woff
  <1>4. m \in Nat \ {0} /\ j \in Nat /\ j = woff + m /\ j <= End(n)
    BY <1>1, <1>2, <1>3
  <1>5. /\ Bytes(woff, j) \in Seq(Byte) /\ Len(Bytes(woff, j)) = m
        /\ \A t \in 1..m : Bytes(woff, j)[t] = [f |-> n, i |-> woff + t]
    <2>1. Bytes(woff, j) = [t \in 1..m |-> [f |-> n, i |-> woff + t]]
      BY DEF Bytes
    <2>2. \A t \in 1..m : [f |-> n, i |-> woff + t] \in Byte
      BY <1>1, <1>4 DEF Byte
    <2> HIDE DEF m, n
    <2> QED BY <1>4, <2>1, <2>2
  <1>6. /\ wire' \in Seq(Byte) /\ Len(wire') = L + m
        /\ \A k \in 1..L : wire'[k] = wire[k]
        /\ \A t \in 1..m : wire'[L + t] = [f |-> n, i |-> woff + t]
        /\ \A k \in 1..(L + m) : k \in 1..L \/ k - L \in 1..m
    <2>1. /\ wire' \in Seq(Byte) /\ Len(wire') = L + m
          /\ \A k \in 1..L : wire'[k] = wire[k]
          /\ \A t \in 1..m : wire'[L + t] = Bytes(woff, j)[t]
          /\ \A k \in 1..(L + m) : k \in 1..L \/ k - L \in 1..m
      <3>1. /\ wire \o Bytes(woff, j) \in Seq(Byte)
            /\ Len(wire \o Bytes(woff, j)) = L + Len(Bytes(woff, j))
            /\ \A k \in 1..L : (wire \o Bytes(woff, j))[k] = wire[k]
            /\ \A t \in 1..Len(Bytes(woff, j)) :
                 (wire \o Bytes(woff, j))[L + t] = Bytes(woff, j)[t]
        <4>1. wire \in Seq(Byte) /\ Bytes(woff, j) \in Seq(Byte)
          BY <1>1, <1>5
        <4> QED BY <4>1, ConcatElems
      <3>2. \A k \in 1..(L + m) : k \in 1..L \/ k - L \in 1..m
        BY <1>1, <1>4
      <3> HIDE DEF m, L
      <3> QED BY <1>3, <1>5, <3>1, <3>2
    <2> QED BY <1>5, <2>1
  <1>7. UNCHANGED <<who, side, xform, snonce, rnonce, chan, sent, nonces, broken, eof, rst, rbuf,
                    rhead, disc, got>>
    BY DEF Write
  <1>8. Types'
    BY <1>0, <1>1, <1>3, <1>4, <1>6, <1>7 DEF Types
  <1>9. Pipeline'
    BY <1>0, <1>7 DEF Pipeline, Lengths
  <1>10. Writing'
    BY <1>1, <1>3, <1>4, <1>7 DEF Writing, End
  <1> DEFINE C(t) == IF woff + t <= End(n) THEN [f |-> n, i |-> woff + t]
                                           ELSE [f |-> n + 1, i |-> 1]
  <1>11. Live /\ NextOut = [f |-> n, i |-> woff + 1] /\ NextOut' = C(m + 1)
    BY <1>1, <1>3, <1>4, <1>7, SMTT(30) DEF Live, NextOut, End
  <1>12. \A t \in 1..m : wire'[L + t] = C(t) /\ C(t) = [f |-> n, i |-> woff + t]
    <2> TAKE t \in 1..m
    <2>1. woff + t <= End(n)
      BY <1>1, <1>4
    <2> QED BY <1>6, <2>1
  <1>13. \A s \in 1..m : \A t \in 1..(m + 1) : s < t => Behind(wire'[L + s], t - s, C(t))
    <2> TAKE s \in 1..m
    <2> TAKE t \in 1..(m + 1)
    <2> HAVE s < t
    <2>1. wire'[L + s].f = n /\ wire'[L + s].i = woff + s
      <3>1. wire'[L + s] = [f |-> n, i |-> woff + s]
        BY <1>6
      <3> HIDE DEF n, L
      <3> QED BY <3>1
    <2>2. woff + s + (t - s) = woff + t
      BY <1>1, <1>4
    <2>3. woff + t <= End(n) => C(t) = [f |-> n, i |-> woff + t]
      OBVIOUS
    <2>4. woff + t = End(n) + 1 => C(t) = [f |-> n + 1, i |-> 1]
      BY <1>1, <1>4
    <2> HIDE DEF C
    <2> QED BY <2>1, <2>2, <2>3, <2>4 DEF Behind
  <1>14. \A k \in 1..L : \A t \in 1..(m + 1) : Behind(wire[k], L + t - k, C(t))
    <2> TAKE k \in 1..L
    <2> TAKE t \in 1..(m + 1)
    <2> DEFINE c == [f |-> n, i |-> woff + 1]
    <2>1. Behind(wire[k], L + 1 - k, c)
      BY <1>0, <1>11 DEF Flight
    <2>2. Behind(c, t - 1, C(t))
      <3>1. c.f = n /\ c.i = woff + 1 /\ woff + 1 + (t - 1) = woff + t
        BY <1>1, <1>4
      <3>2. woff + t <= End(n) => C(t) = [f |-> n, i |-> woff + t]
        OBVIOUS
      <3>3. woff + t = End(n) + 1 => C(t) = [f |-> n + 1, i |-> 1]
        BY <1>1, <1>4, SMTT(30)
      <3> HIDE DEF C, c
      <3> QED BY <3>1, <3>2, <3>3 DEF Behind
    <2>3. /\ wire[k] \in Byte /\ c \in Byte /\ c.f \in 1..Len(sent) /\ c.i \in 1..End(c.f)
          /\ wire[k].f \in 1..Len(sent)
      <3>1. wire[k] \in Byte
        BY <1>1
      <3>2. c.f = n /\ c.i = woff + 1 /\ c \in Byte
        BY <1>1 DEF Byte
      <3>3. n \in 1..Len(sent) /\ woff + 1 \in 1..End(n)
        BY <1>1
      <3>4. wire[k].f \in 1..Len(sent)
        BY <1>0 DEF Flight
      <3> HIDE DEF c
      <3> QED BY <3>1, <3>2, <3>3, <3>4
    <2>4. L + 1 - k \in Nat /\ t - 1 \in Nat /\ (L + 1 - k) + (t - 1) = L + t - k
      BY <1>1, <1>4
    <2> HIDE DEF C, c
    <2>5. Behind(wire[k], (L + 1 - k) + (t - 1), C(t))
      BY <1>0, <2>1, <2>2, <2>3, <2>4, BehindAdds
    <2> QED BY <2>4, <2>5
  <1>15. \A b, d, c : Behind(b, d, c) <=>
           /\ b.i + d <= End(b.f)' => c = [f |-> b.f, i |-> b.i + d]
           /\ b.i + d = End(b.f)' + 1 => c = [f |-> b.f + 1, i |-> 1]
    BY <1>7 DEF Behind, End
  <1> HIDE DEF C
  <1>16. Flight'
    <2>1. \A k \in 1..Len(wire') :
            wire'[k].f \in 1..Len(sent') /\ wire'[k].i \in 1..(HeaderLen + sent'[wire'[k].f])
      <3>1. ASSUME NEW k \in 1..(L + m)
            PROVE  wire'[k].f \in 1..Len(sent) /\ wire'[k].i \in 1..(HeaderLen + sent[wire'[k].f])
        <4>1. CASE k \in 1..L
          BY <1>0, <1>6, <4>1 DEF Flight, End
        <4>2. CASE k - L \in 1..m
          <5>1. wire'[k] = [f |-> n, i |-> woff + (k - L)]
            <6>1. L + (k - L) = k
              BY <1>1, <1>4
            <6> HIDE DEF L, m, n
            <6> QED BY <1>6, <4>2, <6>1
          <5>2. n \in 1..Len(sent) /\ woff + (k - L) \in 1..(HeaderLen + sent[n])
            <6>1. n \in 1..Len(sent) /\ woff + (k - L) \in 1..End(n)
              BY <1>1, <1>4, <4>2, SMTT(30)
            <6> QED BY <6>1 DEF End
          <5>3. wire'[k].f = n /\ wire'[k].i = woff + (k - L)
            BY <5>1
          <5> HIDE DEF n
          <5> QED BY <5>2, <5>3
        <4> QED BY <1>6, <4>1, <4>2
      <3> QED BY <1>6, <1>7, <3>1
    <2>2. \A i, k \in 1..(L + m) : i < k => Behind(wire'[i], k - i, wire'[k])
      <3> TAKE i, k \in 1..(L + m)
      <3> HAVE i < k
      <3>1. CASE k \in 1..L
        <4>1. i \in 1..L /\ wire'[i] = wire[i] /\ wire'[k] = wire[k]
          <5>1. i \in 1..L
            BY <1>1, <1>4, <3>1
          <5> HIDE DEF L
          <5> QED BY <1>6, <3>1, <5>1
        <4> QED BY <1>0, <3>1, <4>1 DEF Flight
      <3>2. CASE i \in 1..L /\ k - L \in 1..m
        <4>1. wire'[i] = wire[i] /\ wire'[k] = C(k - L) /\ L + (k - L) - i = k - i
          <5>1. L + (k - L) = k /\ L + (k - L) - i = k - i
            BY <1>1, <1>4
          <5> HIDE DEF L, m
          <5> QED BY <1>6, <1>12, <3>2, <5>1
        <4>2. k - L \in 1..(m + 1)
          BY <1>1, <1>4, <3>2
        <4>3. Behind(wire[i], L + (k - L) - i, C(k - L))
          BY <1>14, <3>2, <4>2
        <4> QED BY <4>1, <4>3
      <3>3. CASE i - L \in 1..m /\ k - L \in 1..m
        <4>1. wire'[k] = C(k - L) /\ L + (i - L) = i /\ (k - L) - (i - L) = k - i
          <5>1. L + (k - L) = k /\ L + (i - L) = i /\ (k - L) - (i - L) = k - i
            BY <1>1, <1>4
          <5> HIDE DEF L, m
          <5> QED BY <1>12, <3>3, <5>1
        <4>2. k - L \in 1..(m + 1) /\ i - L < k - L
          BY <1>1, <1>4, <3>3, SMTT(30)
        <4>3. Behind(wire'[L + (i - L)], (k - L) - (i - L), C(k - L))
          BY <1>13, <3>3, <4>2
        <4> QED BY <4>1, <4>3
      <3> QED BY <1>1, <1>4, <1>6, <3>1, <3>2, <3>3
    <2>3. \A i \in 1..(L + m) : Behind(wire'[i], L + m + 1 - i, NextOut')
      <3> TAKE i \in 1..(L + m)
      <3>0. m + 1 \in 1..(m + 1)
        BY <1>4
      <3>1. CASE i \in 1..L
        <4>1. Behind(wire[i], L + (m + 1) - i, C(m + 1))
          BY <1>14, <3>0, <3>1
        <4>2. L + (m + 1) - i = L + m + 1 - i /\ wire'[i] = wire[i]
          BY <1>1, <1>4, <1>6, <3>1
        <4> QED BY <1>11, <4>1, <4>2
      <3>2. CASE i - L \in 1..m
        <4>1. i - L < m + 1
          BY <1>4, <3>2
        <4>2. Behind(wire'[L + (i - L)], (m + 1) - (i - L), C(m + 1))
          BY <1>13, <3>0, <3>2, <4>1
        <4>3. L + (i - L) = i /\ (m + 1) - (i - L) = L + m + 1 - i
          BY <1>1, <1>4, <3>2
        <4> QED BY <1>11, <4>2, <4>3
      <3> QED BY <1>6, <3>1, <3>2
    <2>4. \A i, k \in 1..Len(wire') : i < k => Behind(wire[i], k - i, wire[k])'
      BY <1>6, <1>7, <2>2 DEF Behind, End
    <2>5. \A i \in 1..Len(wire') : Behind(wire[i], Len(wire) + 1 - i, NextOut)'
      BY <1>6, <1>7, <2>3 DEF Behind, End
    <2> QED BY <2>1, <2>4, <2>5 DEF Flight, End
  <1>17. Reading'
    <2>1. Framed' /\ Buffered'
      BY <1>0, <1>7 DEF Reading, Framed, Buffered, Cur, Base, Want
    <2>2. Place(Cur, Consumed)' = Place(Cur, Consumed)
      BY <1>7 DEF Place, Cur, Consumed, Base, End
    <2>3. CASE L = 0
      <3>1. wire'[1] = NextOut /\ wire = <<>> /\ wire' # <<>>
        <4>1. 1 \in 1..m /\ L + 1 = 1
          BY <1>4, <2>3
        <4> QED BY <1>1, <1>4, <1>6, <1>11, <2>3, <4>1
      <3> QED BY <1>0, <1>7, <1>11, <2>1, <2>2, <3>1 DEF Reading, Aligned
    <2>4. CASE L # 0
      <3>1. wire # <<>> /\ wire' # <<>> /\ wire'[1] = wire[1]
        BY <1>1, <1>4, <1>6, <2>4
      <3> QED BY <1>0, <1>7, <2>1, <2>2, <3>1 DEF Reading, Aligned
    <2> QED BY <2>3, <2>4
  <1> QED BY <1>8, <1>9, <1>10, <1>16, <1>17 DEF IInv

LEMMA WriterEndsStep ==
  ASSUME IInv, WriteFails \/ Interrupt \/ CloseWriter PROVE IInv'
  <1> USE FrameAssumption DEF conf, pipe, reader
  <1>1. /\ wst' \in {"idle", "ended"} /\ eof' \in BOOLEAN /\ broken' \in BOOLEAN /\ ~Live'
        /\ UNCHANGED <<who, side, xform, snonce, rnonce, chan, sent, nonces, woff, wire, rst, rbuf,
                       rhead, disc, got>>
    <2>1. CASE WriteFails
      BY <2>1 DEF IInv, Types, WriteFails, AfterFailure, Live
    <2>2. CASE Interrupt
      BY <2>2 DEF IInv, Types, Interrupt, Live
    <2>3. CASE CloseWriter
      BY <2>3 DEF IInv, Types, CloseWriter, Live
    <2> QED BY <2>1, <2>2, <2>3
  <1>2. Types' /\ Writing'
    BY <1>1 DEF IInv, Types, Writing, End
  <1>3. Pipeline'
    BY <1>1 DEF IInv, Pipeline, Lengths
  <1>4. Flight'
    BY <1>1 DEF IInv, Flight, Behind, End
  <1>5. Reading'
    BY <1>1 DEF IInv, Reading, Framed, Buffered, Aligned, Cur, Base, Consumed, Place, End, Want, MinOf
  <1> QED BY <1>2, <1>3, <1>4, <1>5 DEF IInv

-----------------------------------------------------------------------------
(* The reader's steps. What is wanted lies within the frame the reader is    *)
(* at, and the first byte in flight is the next one of that frame.           *)
LEMMA NextByte ==
  ASSUME IInv, rst # "ended", Len(rbuf) < Want, wire # <<>>
  PROVE  /\ Cur \in 1..Len(sent) /\ Base \in Nat /\ Want \in Nat /\ Len(rbuf) \in Nat
         /\ sent[Cur] \in Nat /\ Base + Want <= End(Cur)
         /\ wire[1] = [f |-> Cur, i |-> Consumed + 1]
  <1> USE FrameAssumption
  <1>0. Types /\ Reading /\ Flight
    BY DEF IInv
  <1>1. /\ Len(wire) \in Nat /\ 1 \in 1..Len(wire) /\ Len(sent) \in Nat /\ Len(rbuf) \in Nat
        /\ Len(got) \in Nat /\ Cur \in Nat \ {0} /\ sent \in Seq(Nat)
    BY <1>0 DEF Types, Cur
  <1>2. wire[1].f \in 1..Len(sent) /\ wire[1] = Place(Cur, Consumed)
    BY <1>0, <1>1 DEF Flight, Reading, Aligned
  <1>3. Cur \in 1..Len(sent)
    BY <1>1, <1>2 DEF Place
  <1>4. sent[Cur] \in Nat
    BY <1>1, <1>3
  <1>5. Base \in Nat /\ Want \in Nat /\ Base + Want <= End(Cur)
    <2>1. CASE rst = "header"
      BY <1>4, <2>1 DEF Base, Want, End
    <2>2. CASE rst = "body"
      <3>1. rhead = Cur
        BY <1>0, <2>2 DEF Reading, Framed
      <3> QED BY <1>4, <2>2, <3>1 DEF Base, Want, End
    <2>3. CASE rst = "discard"
      <3>1. rhead = Cur /\ disc \in 1..sent[Cur]
        BY <1>0, <2>3 DEF Reading, Framed
      <3>2. Base = HeaderLen + sent[Cur] - disc /\ Want = MinOf(PageSize, disc)
        BY <2>3, <3>1 DEF Base, Want
      <3> QED BY <1>4, <3>1, <3>2 DEF End, MinOf
    <2> QED BY <1>0, <2>1, <2>2, <2>3 DEF Types
  <1>6. Consumed < End(Cur)
    <2>1. End(Cur) \in Nat
      BY <1>4 DEF End
    <2> QED BY <1>1, <1>5, <2>1 DEF Consumed
  <1>7. wire[1] = [f |-> Cur, i |-> Consumed + 1]
    <2>1. Consumed # End(Cur)
      BY <1>1, <1>4, <1>5, <1>6 DEF Consumed, End
    <2> QED BY <1>2, <2>1 DEF Place
  <1> QED BY <1>1, <1>3, <1>4, <1>5, <1>7

LEMMA ReadSomeStep ==
  ASSUME IInv, ReadSome PROVE IInv'
  <1> USE FrameAssumption DEF conf, pipe, writer
  <1>0. Types /\ Pipeline /\ Writing /\ Flight /\ Reading
    BY DEF IInv
  <1> DEFINE r == Len(rbuf)
             L == Len(wire)
  <1>1. /\ rst # "ended" /\ wire # <<>> /\ r < Want
        /\ UNCHANGED <<who, side, xform, snonce, rnonce, chan, sent, nonces, wst, woff, broken, eof,
                       rst, rhead, disc, got>>
    BY DEF ReadSome, Last
  <1>2. /\ Cur \in 1..Len(sent) /\ Base \in Nat /\ Want \in Nat /\ r \in Nat
        /\ sent[Cur] \in Nat /\ Base + Want <= End(Cur)
        /\ wire[1] = [f |-> Cur, i |-> Consumed + 1]
    BY <1>1, NextByte
  <1>3. wire \in Seq(Byte) /\ rbuf \in Seq(Byte) /\ L \in Nat /\ L # 0 /\ L <= Buffer
    BY <1>0, <1>1 DEF Types
  <1>4. PICK n \in 1..MinOf(Want - r, L) :
          /\ rbuf' = rbuf \o SubSeq(wire, 1, n)
          /\ wire' = SubSeq(wire, n + 1, L)
    BY DEF ReadSome, Last
  <1>5. n \in 1..L /\ n \in Nat /\ r + n <= Want
    BY <1>1, <1>2, <1>3, <1>4 DEF MinOf
  <1>6. /\ SubSeq(wire, 1, n) \in Seq(Byte) /\ Len(SubSeq(wire, 1, n)) = n
        /\ \A k \in 1..n : SubSeq(wire, 1, n)[k] = wire[k]
        /\ wire' \in Seq(Byte) /\ Len(wire') = L - n
        /\ \A k \in 1..(L - n) : wire'[k] = wire[n + k]
    <2>1. wire \in Seq(Byte) /\ n \in 1..Len(wire)
      BY <1>3, <1>5
    <2>2. /\ SubSeq(wire, 1, n) \in Seq(Byte) /\ Len(SubSeq(wire, 1, n)) = n
          /\ \A k \in 1..n : SubSeq(wire, 1, n)[k] = wire[k]
          /\ SubSeq(wire, n + 1, Len(wire)) \in Seq(Byte)
          /\ Len(SubSeq(wire, n + 1, Len(wire))) = Len(wire) - n
          /\ \A k \in 1..(Len(wire) - n) : SubSeq(wire, n + 1, Len(wire))[k] = wire[n + k]
      BY <2>1, SplitElems, ZenonT(30)
    <2>3. wire' = SubSeq(wire, n + 1, Len(wire))
      BY <1>4
    <2> QED BY <2>2, <2>3, ZenonT(30)
  <1>7. /\ rbuf' \in Seq(Byte) /\ Len(rbuf') = r + n
        /\ \A k \in 1..r : rbuf'[k] = rbuf[k]
        /\ \A k \in 1..n : rbuf'[r + k] = wire[k]
    <2>1. rbuf' = rbuf \o SubSeq(wire, 1, n)
      BY <1>4
    <2> DEFINE t == SubSeq(wire, 1, n)
    <2>2. /\ rbuf \o t \in Seq(Byte) /\ Len(rbuf \o t) = r + Len(t)
          /\ \A k \in 1..r : (rbuf \o t)[k] = rbuf[k]
          /\ \A k \in 1..Len(t) : (rbuf \o t)[r + k] = t[k]
      <3>1. rbuf \in Seq(Byte) /\ t \in Seq(Byte)
        BY <1>3, <1>6
      <3> HIDE DEF t
      <3> QED BY <3>1, ConcatElems
    <2> QED BY <1>6, <2>1, <2>2
  <1> DEFINE p == Consumed
  <1>8. p \in Nat /\ p = Base + r /\ End(Cur) \in Nat /\ p + n <= End(Cur)
    BY <1>2, <1>5, SMTT(30) DEF Consumed, End
  <1>9. \A k \in 1..n : wire[k] = [f |-> Cur, i |-> p + k]
    <2> TAKE k \in 1..n
    <2>1. CASE k = 1
      BY <1>2, <2>1
    <2>2. CASE k # 1
      <3>1. 1 \in 1..L /\ k \in 1..L /\ 1 < k
        BY <1>3, <1>5, <2>2
      <3>2. Behind(wire[1], k - 1, wire[k])
        BY <1>0, <3>1 DEF Flight
      <3>3. wire[1].f = Cur /\ wire[1].i = p + 1
        BY <1>2
      <3>4. p + 1 + (k - 1) = p + k /\ p + k <= End(Cur)
        BY <1>5, <1>8
      <3> HIDE DEF p
      <3> QED BY <3>2, <3>3, <3>4 DEF Behind
    <2> QED BY <2>1, <2>2
  <1>10. \A c : Behind(wire[1], n, c) => c = Place(Cur, p + n)
    <2> TAKE c
    <2> HAVE Behind(wire[1], n, c)
    <2>1. wire[1].f = Cur /\ wire[1].i = p + 1
      BY <1>2
    <2>2. CASE p + n = End(Cur)
      <3>1. p + 1 + n = End(Cur) + 1
        BY <1>5, <1>8, <2>2
      <3>2. c = [f |-> Cur + 1, i |-> 1]
        BY <2>1, <3>1 DEF Behind
      <3> QED BY <1>2, <2>2, <3>2 DEF Place
    <2>3. CASE p + n # End(Cur)
      <3>1. p + 1 + n <= End(Cur) /\ p + 1 + n = p + n + 1
        <4> HIDE DEF p
        <4>1. p + n < End(Cur)
          BY <1>5, <1>8, <2>3
        <4> QED BY <1>5, <1>8, <4>1
      <3>2. c = [f |-> Cur, i |-> p + n + 1]
        BY <2>1, <3>1 DEF Behind
      <3> QED BY <2>3, <3>2 DEF Place
    <2> QED BY <2>2, <2>3
  <1>11. Cur' = Cur /\ Base' = Base /\ Want' = Want /\ Live' = Live /\ NextOut' = NextOut
    BY <1>1 DEF Cur, Base, Want, Live, NextOut
  <1>12. Types'
    BY <1>0, <1>1, <1>3, <1>5, <1>6, <1>7 DEF Types
  <1>13. Pipeline' /\ Writing'
    BY <1>0, <1>1 DEF Pipeline, Lengths, Writing, End
  <1>14. Flight'
    <2>1. \A k \in 1..(L - n) : n + k \in 1..L
      BY <1>3, <1>5
    <2>2. \A k \in 1..(L - n) : wire'[k].f \in 1..Len(sent) /\ wire'[k].i \in 1..End(wire'[k].f)
      BY <1>0, <1>6, <2>1 DEF Flight
    <2>3. \A i, k \in 1..(L - n) : i < k => Behind(wire'[i], k - i, wire'[k])
      <3> TAKE i, k \in 1..(L - n)
      <3> HAVE i < k
      <3>1. n + i \in 1..L /\ n + k \in 1..L /\ n + i < n + k /\ (n + k) - (n + i) = k - i
        BY <1>3, <1>5, <2>1
      <3>2. Behind(wire[n + i], (n + k) - (n + i), wire[n + k])
        BY <1>0, <3>1 DEF Flight
      <3> QED BY <1>6, <3>1, <3>2
    <2>4. Live => \A i \in 1..(L - n) : Behind(wire'[i], L - n + 1 - i, NextOut)
      <3> SUFFICES ASSUME Live, NEW i \in 1..(L - n)
                   PROVE  Behind(wire'[i], L - n + 1 - i, NextOut)
        OBVIOUS
      <3>1. n + i \in 1..L /\ L + 1 - (n + i) = L - n + 1 - i
        BY <1>3, <1>5, <2>1
      <3>2. Behind(wire[n + i], L + 1 - (n + i), NextOut)
        BY <1>0, <3>1 DEF Flight
      <3> QED BY <1>6, <3>1, <3>2
    <2> HIDE DEF L
    <2>5. \A k \in 1..Len(wire') : wire'[k].f \in 1..Len(sent') /\ wire'[k].i \in 1..End(wire[k].f)'
      BY <1>1, <1>6, <2>2 DEF End
    <2>6. \A i, k \in 1..Len(wire') : i < k => Behind(wire[i], k - i, wire[k])'
      BY <1>1, <1>6, <2>3 DEF Behind, End
    <2>7. Live' => \A i \in 1..Len(wire') : Behind(wire[i], Len(wire) + 1 - i, NextOut)'
      BY <1>1, <1>6, <1>11, <2>4 DEF Behind, End
    <2> QED BY <2>5, <2>6, <2>7 DEF Flight
  <1>15. Framed'
    BY <1>0, <1>1, <1>11 DEF Reading, Framed
  <1>16. Buffered'
    <2>1. \A k \in 1..r : rbuf[k] = [f |-> Cur, i |-> Base + k]
      BY <1>0, <1>1 DEF Reading, Buffered
    <2>2. \A k \in 1..(r + n) : rbuf'[k] = [f |-> Cur, i |-> Base + k]
      <3> TAKE k \in 1..(r + n)
      <3>1. CASE k \in 1..r
        BY <1>7, <2>1, <3>1
      <3>2. CASE k \notin 1..r
        <4>1. k - r \in 1..n /\ r + (k - r) = k /\ p + (k - r) = Base + k
          BY <1>2, <1>5, <1>8, <3>2
        <4>2. rbuf'[r + (k - r)] = wire[k - r]
          BY <1>7, <4>1
        <4>3. wire[k - r] = [f |-> Cur, i |-> p + (k - r)]
          BY <1>9, <4>1
        <4> HIDE DEF r, p
        <4> QED BY <4>1, <4>2, <4>3
      <3> QED BY <3>1, <3>2
    <2> HIDE DEF r
    <2> QED BY <1>1, <1>2, <1>5, <1>7, <1>11, <2>2 DEF Buffered
  <1>17. Aligned'
    <2>1. Consumed' = p + n
      BY <1>2, <1>5, <1>7, <1>8, <1>11 DEF Consumed
    <2>2. Place(Cur, Consumed)' = Place(Cur, p + n)
      BY <1>1, <1>11, <2>1 DEF Place, End
    <2>3. 1 \in 1..L
      BY <1>3
    <2>4. ASSUME wire' # <<>> PROVE wire'[1] = Place(Cur, p + n)
      <3>1. 1 \in 1..(L - n) /\ n + 1 \in 1..L /\ 1 < n + 1 /\ (n + 1) - 1 = n
        BY <1>3, <1>5, <1>6, <2>4
      <3>2. Behind(wire[1], (n + 1) - 1, wire[n + 1])
        BY <1>0, <2>3, <3>1 DEF Flight
      <3>3. wire'[1] = wire[n + 1]
        BY <1>6, <3>1
      <3> QED BY <1>10, <3>1, <3>2, <3>3
    <2>5. ASSUME wire' = <<>>, Live PROVE NextOut = Place(Cur, p + n)
      <3>1. L + 1 - 1 = n
        BY <1>3, <1>5, <1>6, <2>5
      <3>2. Behind(wire[1], L + 1 - 1, NextOut)
        BY <1>0, <2>3, <2>5 DEF Flight
      <3> QED BY <1>10, <3>1, <3>2
    <2> QED BY <1>11, <2>2, <2>4, <2>5 DEF Aligned
  <1> QED BY <1>12, <1>13, <1>14, <1>15, <1>16, <1>17 DEF IInv, Reading

LEMMA DecodeStep ==
  ASSUME IInv, DecodeHeader PROVE IInv'
  <1> USE FrameAssumption DEF conf, pipe, writer
  <1>0. Types /\ Pipeline /\ Writing /\ Flight /\ Reading
    BY DEF IInv
  <1>1. /\ rst = "header" /\ Len(rbuf) = HeaderLen
        /\ UNCHANGED <<who, side, xform, snonce, rnonce, chan, sent, nonces, wst, woff, broken, wire,
                       eof, got>>
    BY DEF DecodeHeader, Last
  <1>2. sent \in Seq(Nat) /\ rbuf \in Seq(Byte) /\ Len(sent) \in Nat /\ Len(got) \in Nat
    BY <1>0 DEF Types
  <1>3. Cur \in 1..Len(sent)
    <2>1. rbuf # <<>>
      BY <1>1
    <2> QED BY <1>0, <1>1, <1>2, <2>1 DEF Reading, Buffered, Cur
  <1>4. sent[Cur] \in Nat
    BY <1>2, <1>3
  <1>5. \A k \in 1..HeaderLen : rbuf[k] = [f |-> Cur, i |-> k]
    <2>1. \A k \in 1..HeaderLen : rbuf[k] = [f |-> Cur, i |-> Base + k] /\ Base + k = k
      BY <1>0, <1>1 DEF Reading, Buffered, Base
    <2> QED BY <2>1
  <1>6. IsHeader(rbuf) /\ rbuf[1].f = Cur
    <2>1. rbuf = [k \in 1..HeaderLen |-> [f |-> Cur, i |-> k]]
      BY <1>1, <1>2, <1>5
    <2>2. rbuf[1] = [f |-> Cur, i |-> 1]
      BY <1>5
    <2> QED BY <1>3, <2>1, <2>2 DEF IsHeader
  <1>7. /\ rhead' = Cur /\ rbuf' = <<>>
        /\ sent[Cur] > MaxLen => rst' = "discard" /\ disc' = sent[Cur]
        /\ sent[Cur] <= MaxLen => rst' = "body" /\ disc' = 0
    BY <1>1, <1>4, <1>6 DEF DecodeHeader, Enter, Oversize
  <1>8. Types'
    BY <1>0, <1>1, <1>3, <1>4, <1>7, SMTT(30) DEF Types
  <1>9. Pipeline' /\ Writing'
    BY <1>0, <1>1 DEF Pipeline, Lengths, Writing, End
  <1>10. Flight'
    BY <1>0, <1>1 DEF Flight, Behind, End, Live, NextOut
  <1>11. Cur' = Cur
    BY <1>1 DEF Cur
  <1>12. Framed'
    BY <1>0, <1>1, <1>3, <1>4, <1>7, <1>11 DEF Reading, Framed
  <1>13. Base' = HeaderLen /\ Want' \in Nat
    BY <1>1, <1>4, <1>7 DEF Base, Want, MinOf
  <1>14. Buffered'
    BY <1>7, <1>13 DEF Buffered
  <1>15. Consumed' = Consumed
    BY <1>1, <1>7, <1>13 DEF Consumed, Base
  <1>16. Aligned'
    BY <1>0, <1>1, <1>11, <1>15 DEF Reading, Aligned, Place, End, Live, NextOut
  <1> QED BY <1>8, <1>9, <1>10, <1>12, <1>14, <1>16 DEF IInv, Reading

(* Both ways to deliver a frame leave the reader at the start of the next.   *)
LEMMA DeliverStep ==
  ASSUME IInv, Cur \in 1..Len(sent), rst # "ended",
         (wire = <<>> /\ ~Live) \/ Consumed = End(Cur),
         got' \in Seq([f : Nat, kind : {"msg", "bad", "oversize"}]), Len(got') = Len(got) + 1,
         rst' = "header", disc' = 0, rbuf' = <<>>,
         UNCHANGED <<who, side, xform, snonce, chan, sent, nonces, wst, woff, broken, wire, eof, rhead>>,
         xform => rnonce' = rnonce + 1, ~xform => rnonce' = rnonce
  PROVE  IInv'
  <1> USE FrameAssumption
  <1>0. Types /\ Pipeline /\ Writing /\ Flight /\ Reading
    BY DEF IInv
  <1>1. Cur = Len(got) + 1 /\ Cur' = Cur + 1 /\ Len(got) \in Nat /\ Len(sent) \in Nat
    BY <1>0 DEF Types, Cur
  <1>2. Types'
    <2>1. rnonce' \in Nat /\ (~xform => rnonce' = 0)
      <3>1. rnonce \in Nat /\ (~xform => rnonce = 0)
        BY <1>0 DEF Types
      <3>2. CASE xform
        BY <3>1, <3>2
      <3>3. CASE ~xform
        BY <3>1, <3>3
      <3> QED BY <3>2, <3>3
    <2>2. rbuf' \in Seq(Byte) /\ rst' = "header" /\ disc' \in Nat
      OBVIOUS
    <2> QED BY <1>0, <2>1, <2>2 DEF Types
  <1>3. Pipeline'
    BY <1>0, <1>1 DEF Pipeline, Lengths
  <1>4. Writing'
    BY <1>0 DEF Writing, End
  <1>5. Flight'
    BY <1>0 DEF Flight, Behind, End, Live, NextOut
  <1>6. Framed' /\ Buffered'
    BY <1>0, <1>1 DEF Reading, Framed, Buffered, Want
  <1>7. Aligned'
    <2>1. Live' = Live /\ NextOut' = NextOut
      BY DEF Live, NextOut
    <2>2. CASE wire = <<>> /\ ~Live
      BY <2>1, <2>2 DEF Aligned
    <2>3. CASE Consumed = End(Cur)
      <3>1. Place(Cur, Consumed) = [f |-> Cur + 1, i |-> 1]
        BY <2>3 DEF Place
      <3>2. Consumed' = 0
        BY DEF Consumed, Base
      <3>3. Place(Cur, Consumed)' = [f |-> Cur + 1, i |-> 1]
        <4>1. Cur + 1 <= Len(sent) => 0 # HeaderLen + sent[Cur + 1]
          <5>1. sent \in Seq(Nat)
            BY <1>0 DEF Types
          <5>2. Cur + 1 <= Len(sent) => sent[Cur + 1] \in Nat
            BY <1>1, <5>1
          <5> QED BY <5>2
        <4> QED BY <1>1, <3>2, <4>1 DEF Place, End
      <3> QED BY <1>0, <2>1, <3>1, <3>3 DEF Reading, Aligned
    <2> QED BY <2>2, <2>3
  <1> QED BY <1>2, <1>3, <1>4, <1>5, <1>6, <1>7 DEF IInv, Reading

(* A frame the reader returns is the next one, whole and under its number.   *)
LEMMA Returned ==
  ASSUME IInv, ReturnFrame
  PROVE  /\ Cur \in 1..Len(sent) /\ sent[Cur] \in Nat /\ sent[Cur] <= MaxLen /\ Consumed = End(Cur)
         /\ got' = Append(got, [f |-> Cur, kind |-> "msg"])
         /\ xform => rnonce' = rnonce + 1
         /\ ~xform => rnonce' = rnonce
  <1> USE FrameAssumption
  <1>0. Types /\ Pipeline /\ Reading
    BY DEF IInv
  <1>1. rst = "body" /\ Len(rbuf) = sent[rhead]
    BY DEF ReturnFrame, Want, Last
  <1>2. rhead = Cur /\ Cur \in 1..Len(sent) /\ sent[Cur] <= MaxLen /\ Len(got) \in Nat
    BY <1>0, <1>1 DEF Types, Reading, Framed, Cur
  <1>3. sent[Cur] \in Nat
    BY <1>0, <1>2 DEF Types
  <1>4. Consumed = End(Cur)
    BY <1>1, <1>2 DEF Consumed, Base, End
  <1>5. IsPayload(rbuf, rhead)
    <2>1. \A k \in 1..sent[Cur] : rbuf[k] = [f |-> Cur, i |-> HeaderLen + k]
      BY <1>0, <1>1, <1>2 DEF Reading, Buffered, Base
    <2>2. rbuf \in Seq(Byte)
      BY <1>0 DEF Types
    <2>3. Len(rbuf) = sent[Cur]
      BY <1>1, <1>2
    <2>4. rbuf = [k \in 1..sent[Cur] |-> [f |-> Cur, i |-> HeaderLen + k]]
      <3> DEFINE N == sent[Cur]
      <3>1. \A k \in 1..N : rbuf[k] = [f |-> Cur, i |-> HeaderLen + k]
        BY <2>1
      <3>2. Len(rbuf) = N
        BY <2>3
      <3> HIDE DEF N
      <3>3. rbuf = [k \in 1..N |-> [f |-> Cur, i |-> HeaderLen + k]]
        BY <2>2, <3>1, <3>2
      <3> QED BY <3>3 DEF N
    <2> QED BY <1>2, <2>4 DEF IsPayload
  <1>6. xform => nonces[rhead] = rnonce
    <2>1. xform => nonces[Cur] = Cur - 1 /\ rnonce = Len(got)
      BY <1>0, <1>2 DEF Pipeline
    <2> QED BY <1>2, <2>1 DEF Cur
  <1>7. got' = Append(got, [f |-> Cur, kind |-> "msg"])
    BY <1>2, <1>5, <1>6 DEF ReturnFrame, Return
  <1>8. (xform => rnonce' = rnonce + 1) /\ (~xform => rnonce' = rnonce)
    BY <1>6 DEF ReturnFrame
  <1> QED BY <1>2, <1>3, <1>4, <1>7, <1>8

LEMMA GotElem ==
  ASSUME Types, NEW k \in {"msg", "oversize"}, got' = Append(got, [f |-> Cur, kind |-> k])
  PROVE  /\ got' \in Seq([f : Nat, kind : {"msg", "bad", "oversize"}])
         /\ Len(got') = Len(got) + 1
  <1>1. got \in Seq([f : Nat, kind : {"msg", "bad", "oversize"}])
    BY DEF Types
  <1>2. Cur \in Nat
    BY <1>1 DEF Cur
  <1>3. [f |-> Cur, kind |-> k] \in [f : Nat, kind : {"msg", "bad", "oversize"}]
    BY <1>2
  <1> QED BY <1>1, <1>3, AppendElems

LEMMA ReturnStep ==
  ASSUME IInv, ReturnFrame PROVE IInv'
  <1>1. /\ rst = "body" /\ rst' = "header" /\ disc' = 0 /\ rbuf' = <<>>
        /\ UNCHANGED <<who, side, xform, snonce, chan, sent, nonces, wst, woff, broken, wire, eof, rhead>>
    BY DEF ReturnFrame, Enter, conf, pipe, writer
  <1>2. /\ got' \in Seq([f : Nat, kind : {"msg", "bad", "oversize"}])
        /\ Len(got') = Len(got) + 1
    BY Returned, GotElem DEF IInv
  <1> QED BY <1>1, <1>2, Returned, DeliverStep

(* What is left of a frame over the limit after one round of discarding.     *)
LEMMA DiscardedStep ==
  ASSUME IInv, rst = "discard", Discarded(Want),
         (wire = <<>> /\ ~Live) \/ Len(rbuf) = Want
  PROVE  /\ IInv'
         /\ \/ UNCHANGED <<sent, got>>
            \/ /\ Cur \in 1..Len(sent) /\ sent[Cur] > MaxLen /\ UNCHANGED sent
               /\ got' = Append(got, [f |-> Cur, kind |-> "oversize"])
  <1> USE FrameAssumption DEF conf, pipe, writer
  <1>0. Types /\ Pipeline /\ Writing /\ Flight /\ Reading
    BY DEF IInv
  <1>1. /\ rhead = Cur /\ Cur \in 1..Len(sent) /\ sent[Cur] \in Nat /\ sent[Cur] > MaxLen
        /\ disc \in 1..sent[Cur] /\ Len(got) \in Nat /\ Len(sent) \in Nat
    <2>1. sent \in Seq(Nat) /\ Len(got) \in Nat /\ Len(sent) \in Nat /\ Cur \in Nat \ {0}
      BY <1>0 DEF Types, Cur
    <2>2. rhead = Cur /\ Cur <= Len(sent) /\ ~(sent[Cur] <= MaxLen) /\ disc \in 1..sent[Cur]
      BY <1>0 DEF Reading, Framed
    <2>3. sent[Cur] \in Nat
      BY <2>1, <2>2
    <2> QED BY <2>1, <2>2, <2>3
  <1>2. ~xform
    BY <1>0, <1>1 DEF Pipeline
  <1>3. Want = MinOf(PageSize, disc) /\ Want \in Nat \ {0} /\ Want <= disc
    BY <1>1 DEF Want, MinOf
  <1>4. UNCHANGED <<who, side, xform, snonce, rnonce, chan, sent, nonces, wst, woff, broken, wire, eof,
                    rhead>>
    BY DEF Discarded
  <1>5. Base = HeaderLen + sent[Cur] - disc
    BY <1>1 DEF Base
  <1>6. CASE disc > Want
    <2>1. rst' = "discard" /\ disc' = disc - Want /\ rbuf' = <<>> /\ got' = got
      BY <1>6 DEF Discarded, Enter
    <2>2. disc' \in 1..sent[Cur] /\ disc' \in Nat
      BY <1>1, <1>3, <1>6, <2>1
    <2>3. Types'
      BY <1>0, <1>4, <2>1, <2>2 DEF Types
    <2>4. Pipeline' /\ Writing'
      BY <1>0, <1>4, <2>1 DEF Pipeline, Lengths, Writing, End
    <2>5. Flight'
      BY <1>0, <1>4 DEF Flight, Behind, End, Live, NextOut
    <2>6. Cur' = Cur
      BY <2>1 DEF Cur
    <2>7. Framed'
      BY <1>0, <1>1, <1>4, <2>1, <2>2, <2>6 DEF Reading, Framed
    <2>8. Want' \in Nat
      BY <2>1, <2>2 DEF Want, MinOf
    <2>9. Buffered'
      BY <2>1, <2>8 DEF Buffered
    <2>10. Aligned'
      <3>0. Live' = Live /\ NextOut' = NextOut
        BY <1>4 DEF Live, NextOut
      <3>1. CASE wire = <<>> /\ ~Live
        BY <1>4, <3>0, <3>1 DEF Aligned
      <3>2. CASE Len(rbuf) = Want
        <4>1. Base' = HeaderLen + sent[Cur] - (disc - Want)
          BY <1>1, <1>4, <2>1 DEF Base
        <4>2. Consumed' = Consumed
          <5>1. Consumed = Base + Want /\ Consumed' = Base' + 0
            BY <2>1, <3>2 DEF Consumed
          <5>2. HeaderLen + sent[Cur] - (disc - Want) + 0 = HeaderLen + sent[Cur] - disc + Want
            BY <1>1, <1>3
          <5> QED BY <1>5, <4>1, <5>1, <5>2
        <4> QED BY <1>0, <1>4, <2>1, <2>6, <3>0, <4>2 DEF Reading, Aligned, Place, End
      <3> QED BY <3>1, <3>2
    <2> QED BY <1>4, <2>1, <2>3, <2>4, <2>5, <2>7, <2>9, <2>10 DEF IInv, Reading
  <1>7. CASE ~(disc > Want)
    <2>1. /\ rst' = "header" /\ disc' = 0 /\ rbuf' = <<>>
          /\ got' = Append(got, [f |-> Cur, kind |-> "oversize"])
      BY <1>1, <1>7 DEF Discarded, Enter, Return
    <2>2. Len(rbuf) = Want => Consumed = End(Cur)
      BY <1>1, <1>3, <1>5, <1>7 DEF Consumed, End
    <2>3. /\ got' \in Seq([f : Nat, kind : {"msg", "bad", "oversize"}])
          /\ Len(got') = Len(got) + 1
      BY <1>0, <2>1, GotElem
    <2>4. IInv'
      BY <1>1, <1>2, <1>4, <2>1, <2>2, <2>3, DeliverStep
    <2> QED BY <1>1, <1>4, <2>1, <2>4
  <1> QED BY <1>6, <1>7

(* A reader that stops, or gives up the frame it is in at the end of the     *)
(* transport, where there is nothing more to be aligned with.                *)
LEMMA StopStep ==
  ASSUME IInv, Stop, UNCHANGED <<conf, pipe, writer, wire, eof>> PROVE IInv'
  <1> USE FrameAssumption DEF conf, pipe, writer, Stop
  <1>1. Types' /\ Pipeline' /\ Writing'
    BY DEF IInv, Types, Pipeline, Lengths, Writing, End
  <1>2. Flight'
    BY DEF IInv, Flight, Behind, End, Live, NextOut
  <1>3. Reading'
    BY DEF IInv, Reading, Framed, Buffered, Aligned, Cur
  <1> QED BY <1>1, <1>2, <1>3 DEF IInv

LEMMA EofSyncStep ==
  ASSUME IInv, EofSync
  PROVE  /\ IInv'
         /\ \/ UNCHANGED <<sent, got>>
            \/ /\ Cur \in 1..Len(sent) /\ sent[Cur] > MaxLen /\ UNCHANGED sent
               /\ got' = Append(got, [f |-> Cur, kind |-> "oversize"])
  <1>0. wire = <<>> /\ eof /\ rst # "ended" /\ ~Live
    BY DEF EofSync, AtEof, Live
  <1>1. CASE rst = "discard"
    <2>1. Discarded(Want)
      BY <1>1 DEF EofSync
    <2> QED BY <1>0, <1>1, <2>1, DiscardedStep
  <1>2. CASE rst # "discard" /\ Last = 0
    <2>1. Stop /\ UNCHANGED <<conf, pipe, writer, wire, eof>>
      BY <1>2 DEF EofSync
    <2> QED BY <2>1, StopStep DEF Stop, writer
  <1>3. CASE rst # "discard" /\ Last # 0
    <2> USE FrameAssumption DEF conf, pipe, writer
    <2>1. /\ rst' = "header" /\ disc' = 0 /\ rbuf' = <<>>
          /\ UNCHANGED <<who, side, xform, snonce, rnonce, chan, sent, nonces, wst, woff, broken, wire,
                         eof, rhead, got>>
      BY <1>3 DEF EofSync, Enter
    <2>2. Types' /\ Pipeline' /\ Writing'
      BY <2>1, SMTT(30) DEF IInv, Types, Pipeline, Lengths, Writing, End
    <2>3. Flight'
      BY <2>1 DEF IInv, Flight, Behind, End, Live, NextOut
    <2>4. Framed' /\ Buffered'
      BY <2>1 DEF IInv, Reading, Framed, Buffered, Want
    <2>5. Aligned'
      BY <1>0, <2>1 DEF Aligned, Live
    <2> QED BY <2>1, <2>2, <2>3, <2>4, <2>5 DEF IInv, Reading
  <1> QED BY <1>1, <1>2, <1>3

-----------------------------------------------------------------------------
LEMMA InitIInv ==
  ASSUME Init PROVE IInv
  <1> USE FrameAssumption DEF Init
  <1>1. Types
    <2>1. /\ <<>> \in Seq(Byte) /\ <<>> \in Seq(Nat)
          /\ <<>> \in Seq([f : Nat, kind : {"msg", "bad", "oversize"}])
          /\ Len(<<>>) = 0
      OBVIOUS
    <2>2. chan \in [len : Nat, nonce : Nat, some : BOOLEAN]
      BY DEF NoFrame
    <2>3. 0 \in 0..MaxFrames /\ 0 \in 0..Len(sent) /\ 0 <= Buffer
      BY <2>1
    <2> QED BY <2>1, <2>2, <2>3 DEF Types
  <1>2. Pipeline /\ Writing /\ Flight
    BY DEF Pipeline, Writing, Flight, NoFrame
  <1>3. Reading
    <2>1. Cur = 1 /\ Base = 0 /\ Consumed = 0 /\ Len(sent) = 0
      BY DEF Cur, Base, Consumed
    <2> QED BY <2>1 DEF Reading, Framed, Buffered, Aligned, Place, NextOut, Want
  <1> QED BY <1>1, <1>2, <1>3 DEF IInv

LEMMA IInvStep ==
  ASSUME IInv, [Next]_vars PROVE IInv'
  <1>1. ASSUME NEW n \in Sizes, Submit(n) PROVE IInv'
    BY <1>1, SubmitStep
  <1>2. ASSUME NEW n \in Sizes, SubmitForeign(n) PROVE IInv'
    BY <1>2, ForeignStep
  <1>3. CASE StartFrame
    BY <1>3, StartStep
  <1>4. CASE Discard
    BY <1>4, DiscardStep
  <1>5. CASE Write
    BY <1>5, WriteStep
  <1>6. CASE WriteFails \/ Interrupt \/ CloseWriter
    BY <1>6, WriterEndsStep
  <1>7. CASE ReadSome
    BY <1>7, ReadSomeStep
  <1>8. CASE DecodeHeader
    BY <1>8, DecodeStep
  <1>9. CASE ReturnFrame
    BY <1>9, ReturnStep
  <1>10. CASE DiscardChunk
    BY <1>10, DiscardedStep DEF DiscardChunk, Last
  <1>11. CASE EofAsync
    BY <1>11, StopStep DEF EofAsync
  <1>12. CASE EofSync
    BY <1>12, EofSyncStep
  <1>13. CASE ReadFails
    BY <1>13, StopStep DEF ReadFails
  <1>14. CASE UNCHANGED vars
    <2> USE <1>14 DEF vars, conf, pipe, writer, reader
    <2>1. Types' /\ Pipeline' /\ Writing'
      BY DEF IInv, Types, Pipeline, Lengths, Writing, End
    <2>2. Flight'
      BY DEF IInv, Flight, Behind, End, Live, NextOut
    <2>3. Reading'
      BY DEF IInv, Reading, Framed, Buffered, Aligned, Cur, Base, Consumed, Place, End, Want, MinOf,
             Live, NextOut
    <2> QED BY <2>1, <2>2, <2>3 DEF IInv
  <1> QED BY <1>1, <1>2, <1>3, <1>4, <1>5, <1>6, <1>7, <1>8, <1>9, <1>10, <1>11, <1>12, <1>13, <1>14
          DEF Next, ReaderStep

(* Short writes, short reads, failures and closes at any byte keep the bytes *)
(* in flight consecutive and the reader on the byte it needs: no sequence of *)
(* them makes the reader take payload bytes for a header.                    *)
THEOREM Invariance == Spec => []IInv
  <1>1. Init => IInv
    BY InitIInv
  <1>2. IInv /\ [Next]_vars => IInv'
    BY IInvStep
  <1> QED BY <1>1, <1>2, PTL DEF Spec

(* The outbound pipeline is exact: with a transform, the messages the sender *)
(* has processed are the frames begun and the one in the channel, and no     *)
(* frame of this implementation is over the limit its peer checks.           *)
THEOREM PipelineIsExact == Spec => []PipelineExact
  <1>1. IInv => PipelineExact
    <2> SUFFICES ASSUME IInv PROVE PipelineExact
      OBVIOUS
    <2> USE FrameAssumption
    <2>0. Types /\ Pipeline /\ Writing /\ Reading
      BY DEF IInv
    <2>1. rnonce \in 0..MaxFrames
      <3>1. Len(got) <= Len(sent) /\ Len(sent) <= MaxFrames /\ rnonce \in Nat
            /\ Len(got) \in Nat /\ Len(sent) \in Nat
        BY <2>0 DEF Types, Pipeline, Reading, Framed
      <3>2. rnonce = 0 \/ rnonce = Len(got)
        BY <2>0 DEF Types, Pipeline
      <3> QED BY <3>1, <3>2
    <2>2. sent # <<>> => woff \in 0..(HeaderLen + WLen)
      <3> SUFFICES ASSUME sent # <<>> PROVE woff \in 0..(HeaderLen + WLen)
        OBVIOUS
      <3>1. sent[Len(sent)] \in Nat
        BY <2>0 DEF Types
      <3>2. woff \in Nat /\ woff <= HeaderLen + sent[Len(sent)]
        BY <2>0 DEF Types, Writing, End
      <3> QED BY <3>1, <3>2 DEF WLen
    <2>3. Last <= Want \/ rst = "ended"
      BY <2>0 DEF Reading, Buffered, Last
    <2>4. TypeOK
      BY <2>0, <2>1, <2>2, <2>3 DEF Types, Pipeline, TypeOK
    <2> QED BY <2>0, <2>4 DEF PipelineExact, Pipeline
  <1> QED BY <1>1, Invariance, PTL

(* Whatever the transport does, the reader returns the frames whose writing  *)
(* began, whole, in order and without a gap, and one over the limit as an    *)
(* error, after which it goes on with the next.                              *)
THEOREM Refinement == Spec => FramesRefine
  <1>1. Init => Fifo!FifoInit
    BY DEF Init, Fifo!FifoInit
  <1>2. IInv /\ [Next]_vars => [Fifo!FifoNext]_<<sent, got>>
    <2> SUFFICES ASSUME IInv, [Next]_vars
                 PROVE  UNCHANGED <<sent, got>> \/ Fifo!FifoNext
      BY DEF Fifo!FifoNext
    <2> USE FrameAssumption
    <2>0. Len(got) \in Nat
      BY DEF IInv, Types
    <2>1. ASSUME NEW n \in Sizes, Submit(n) \/ SubmitForeign(n) PROVE UNCHANGED <<sent, got>>
      BY <2>1 DEF Submit, SubmitForeign, writer, reader
    <2>2. CASE StartFrame
      <3>1. chan.len \in Lengths /\ sent' = Append(sent, chan.len) /\ UNCHANGED got
        BY <2>2 DEF IInv, Pipeline, StartFrame, reader
      <3> QED BY <3>1 DEF Fifo!FifoNext, Fifo!Send
    <2>3. CASE Discard \/ Write \/ WriteFails \/ Interrupt \/ CloseWriter
      BY <2>3 DEF Discard, Write, WriteFails, Interrupt, CloseWriter, writer, reader
    <2>4. CASE ReadSome \/ DecodeHeader \/ EofAsync \/ ReadFails
      BY <2>4 DEF ReadSome, DecodeHeader, EofAsync, ReadFails, Stop, writer
    <2>5. ASSUME Cur \in 1..Len(sent), sent[Cur] > MaxLen, UNCHANGED sent,
                 got' = Append(got, [f |-> Cur, kind |-> "oversize"])
          PROVE  Fifo!FifoNext
      <3>1. Len(got) < Len(sent) /\ Cur = Len(got) + 1
        BY <2>0, <2>5 DEF Cur
      <3> QED BY <2>5, <3>1 DEF Fifo!FifoNext, Fifo!Deliver, Fifo!Outcome
    <2>6. CASE ReturnFrame
      <3>1. /\ Cur \in 1..Len(sent) /\ sent[Cur] \in Nat /\ sent[Cur] <= MaxLen
            /\ got' = Append(got, [f |-> Cur, kind |-> "msg"]) /\ UNCHANGED sent
        BY <2>6, Returned DEF ReturnFrame, writer
      <3>2. Len(got) < Len(sent) /\ Cur = Len(got) + 1 /\ ~(sent[Cur] > MaxLen)
        BY <2>0, <3>1 DEF Cur
      <3> QED BY <3>1, <3>2 DEF Fifo!FifoNext, Fifo!Deliver, Fifo!Outcome
    <2>7. CASE DiscardChunk
      BY <2>5, <2>7, DiscardedStep DEF DiscardChunk, Last
    <2>8. CASE EofSync
      BY <2>5, <2>8, EofSyncStep
    <2>9. CASE UNCHANGED vars
      BY <2>9 DEF vars, writer, reader
    <2> QED BY <2>1, <2>2, <2>3, <2>4, <2>6, <2>7, <2>8, <2>9 DEF Next, ReaderStep
  <1> QED BY <1>1, <1>2, Invariance, PTL DEF Spec, FramesRefine, Fifo!FifoSpec
=============================================================================
