------------------------- MODULE ServerLoopProofs -------------------------
(***************************************************************************)
(* Facts about the server goroutine that hold whatever client it talks to: *)
(* its steps keep its types, and every answer it gives ends with its only  *)
(* flush.  The theorems about file:// sessions and about the server alone  *)
(* rest on them.                                                           *)
(***************************************************************************)
EXTENDS ServerLoop, SequenceTheorems, TLAPS

(***************************************************************************)
(* The sequences the components build have the types their variables say.  *)
(***************************************************************************)
\* A run of ref lines is a sequence of response packets.
LEMMA LinesType ==
    ASSUME NEW id \in Nat, NEW n \in Nat
    PROVE  /\ Lines(id, n) \in Seq(RespPackets)
           /\ Len(Lines(id, n)) = n
           /\ \A i \in 1..n : Lines(id, n)[i] = Resp("line", id, i)
<1>1. \A i \in 1..n : Resp("line", id, i) \in RespPackets
  BY DEF Resp, RespPackets, RespKinds
<1>2. Lines(id, n) \in [1..n -> RespPackets]
  BY <1>1 DEF Lines
<1> QED
  BY <1>2 DEF Lines

\* One response packet is a sequence of response packets.
LEMMA SingletonType ==
    ASSUME NEW kind \in RespKinds, NEW id \in Nat
    PROVE  << Resp(kind, id, 0) >> \in Seq(RespPackets)
BY DEF Resp, RespPackets

\* Both advertisements are sequences of response packets.
LEMMA AdvertisementType ==
    /\ V2Advertisement \in Seq(RespPackets)
    /\ \A n \in Nat : V0Advertisement(n) \in Seq(RespPackets)
<1>1. V2Advertisement \in Seq(RespPackets)
  BY DEF V2Advertisement, Resp, RespPackets, RespKinds
<1>2. ASSUME NEW n \in Nat PROVE V0Advertisement(n) \in Seq(RespPackets)
  <2>1. /\ << Resp("caps^{}", 0, 0) >> \in Seq(RespPackets)
        /\ << Resp("flush", 0, 0) >> \in Seq(RespPackets)
    BY SingletonType DEF RespKinds
  <2>2. Lines(0, n) \in Seq(RespPackets)
    BY LinesType
  <2> QED
    BY <2>1, <2>2, ConcatProperties DEF V0Advertisement
<1> QED
  BY <1>1, <1>2

\* The answer to an object-info request is a sequence of response packets.
LEMMA ObjectInfoResponseType ==
    ASSUME NEW req \in Requests, NEW last \in LastEmitted(req.args)
    PROVE  ObjectInfoResponse(req, last) \in Seq(RespPackets)
<1>1. req.id \in Nat /\ req.args \in Seq(ArgKinds)
  BY DEF Requests
<1> DEFINE hdr == IF req.size /\ req.args # <<>> THEN << Resp("size", req.id, 0) >> ELSE <<>>
<1>2. hdr \in Seq(RespPackets)
  <2>1. << Resp("size", req.id, 0) >> \in Seq(RespPackets) /\ << >> \in Seq(RespPackets)
    BY <1>1, SingletonType, EmptySeq DEF RespKinds
  <2> QED
    BY <2>1
<1>3. << Resp("flush", req.id, 0) >> \in Seq(RespPackets)
  BY <1>1, SingletonType DEF RespKinds
<1>4. last \in Nat
  BY <1>1 DEF LastEmitted, Corrupt
<1>5. Replies(req, last) \in Seq(RespPackets)
  <2>1. \A i \in 1..last : Resp(ReplyKind(req.args[i]), req.id, i) \in RespPackets
    BY <1>1 DEF Resp, RespPackets, RespKinds, ReplyKind
  <2> QED
    BY <1>4, <2>1 DEF Replies
<1>6. hdr \o Replies(req, last) \in Seq(RespPackets)
  BY <1>2, <1>5, ConcatProperties
<1>7. (hdr \o Replies(req, last)) \o << Resp("flush", req.id, 0) >> \in Seq(RespPackets)
  BY <1>3, <1>6, ConcatProperties
<1> QED
  BY <1>7 DEF ObjectInfoResponse

(***************************************************************************)
(* The server's steps keep its types.                                      *)
(***************************************************************************)
\* The goroutine starts well typed.
LEMMA ServerInitType == ServerInit => ServerTypeOK
<1> SUFFICES ASSUME ServerInit PROVE ServerTypeOK
  OBVIOUS
<1>1. PICK n \in 0..MaxLines :
        /\ sreq = [NoRequest EXCEPT !.n = IF version = "v0" THEN n ELSE 0]
        /\ sout = IF version = "v0" THEN V0Advertisement(n) ELSE V2Advertisement
  BY DEF ServerInit
<1>2. n \in Nat
  BY MaxLinesAssumption
<1>3. sout \in Seq(RespPackets)
  BY <1>1, <1>2, AdvertisementType
<1>4. sreq \in Requests
  <2>1. NoRequest \in Requests
    BY EmptySeq DEF NoRequest, Requests
  <2> QED
    BY <1>1, <1>2, <2>1 DEF Requests
<1> QED
  BY <1>3, <1>4 DEF ServerInit, ServerTypeOK, ServerStates

\* Returning from Serve.
LEMMA ServerReturnType ==
    ASSUME ServerTypeOK, NEW err \in ServeErrs \cup {"nil"}, ServerReturn(err)
    PROVE  ServerTypeOK'
BY DEF ServerTypeOK, ServerReturn, ServerStates

\* Starting to answer a complete request.
LEMMA RespondType ==
    ASSUME ServerTypeOK, NEW req \in Requests, Respond(req)
    PROVE  ServerTypeOK'
<1>1. req.id \in Nat
  BY DEF Requests
<1>2. << Resp("flush", req.id, 0) >> \in Seq(RespPackets)
  BY <1>1, SingletonType DEF RespKinds
<1>3. CASE req.op = "ls-refs"
  <2>1. PICK n \in 0..MaxLines :
           /\ sreq' = [req EXCEPT !.n = n]
           /\ sout' = Lines(req.id, n) \o << Resp("flush", req.id, 0) >>
    BY <1>3 DEF Respond
  <2>2. n \in Nat
    BY MaxLinesAssumption
  <2>3. sout' \in Seq(RespPackets)
    BY <1>1, <1>2, <2>1, <2>2, LinesType, ConcatProperties
  <2>4. sreq' \in Requests
    BY <2>1, <2>2 DEF Requests
  <2>5. snext' = "loop" /\ spc' = "write" /\ UNCHANGED <<version, serr>>
    BY <1>3 DEF Respond
  <2> QED
    BY <2>3, <2>4, <2>5 DEF ServerTypeOK, ServerStates
<1>4. CASE req.op = "object-info"
  <2>1. PICK last \in LastEmitted(req.args) : sout' = ObjectInfoResponse(req, last)
    BY <1>4 DEF Respond
  <2>2. sout' \in Seq(RespPackets)
    BY <2>1, ObjectInfoResponseType
  <2>3. /\ snext' \in {"loop", "refused"} /\ spc' = "write" /\ sreq' = req
        /\ UNCHANGED <<version, serr>>
    BY <1>4 DEF Respond
  <2> QED
    BY <2>2, <2>3 DEF ServerTypeOK, ServerStates
<1> QED
  BY <1>3, <1>4 DEF Respond

\* Answering with ERR.
LEMMA RefuseType ==
    ASSUME ServerTypeOK, NEW req \in Requests, NEW packets \in Seq(RespPackets),
           NEW next \in {"args", "refused"}, Refuse(req, packets, next)
    PROVE  ServerTypeOK'
BY DEF ServerTypeOK, ServerStates, Refuse

\* An ERR packet with its flush is a sequence of response packets.
LEMMA ErrAndFlushType ==
    ASSUME NEW id \in Nat
    PROVE  ErrAndFlush(id) \in Seq(RespPackets)
BY DEF ErrAndFlush, Resp, RespPackets, RespKinds

\* Dispatching a request.
LEMMA DispatchType ==
    ASSUME ServerTypeOK, NEW req \in Requests, NEW kind, Dispatch(req, kind)
    PROVE  ServerTypeOK'
<1>1. CASE req.op = "none" /\ ServerReturn("Protocol")
  BY <1>1, ServerReturnType DEF ServeErrs
<1>2. CASE req.op = "fetch" /\ Refuse(req, ErrAndFlush(req.id), "refused")
  <2>1. req.id \in Nat
    BY DEF Requests
  <2> QED
    BY <1>2, <2>1, ErrAndFlushType, RefuseType
<1>3. CASE Respond(req)
  BY <1>3, RespondType
<1>4. CASE spc' = "args" /\ sreq' = req /\ UNCHANGED <<version, sout, snext, serr>>
  BY <1>4 DEF ServerTypeOK, ServerStates
<1> QED
  BY <1>1, <1>2, <1>3, <1>4 DEF Dispatch

\* Reading one packet of a request.
LEMMA ServerReadsType ==
    ASSUME ServerTypeOK, NEW kind \in ReqKinds, NEW id \in Nat, ServerReads(kind, id)
    PROVE  ServerTypeOK'
<1>1. Fresh \in Requests /\ sreq \in Requests
  BY DEF Fresh, NoRequest, Requests, ServerTypeOK
<1>2. CASE ServerReadsHead(kind, id)
  <2>1. CASE Dispatch(Fresh, kind)
    BY <1>1, <2>1, DispatchType
  <2>2. CASE ServerReturn("nil") \/ ServerReturn("Protocol")
    BY <2>2, ServerReturnType DEF ServeErrs
  <2>3. CASE /\ kind \in CommandLines
             /\ spc' = "request"
             /\ sreq' = [Fresh EXCEPT !.op = kind, !.id = id, !.seen = TRUE]
             /\ UNCHANGED <<version, sout, snext, serr>>
    <3>1. sreq' \in Requests
      BY <1>1, <2>3 DEF Requests
    <3> QED
      BY <2>3, <3>1 DEF ServerTypeOK, ServerStates
  <2>4. CASE /\ spc' = "request"
             /\ sreq' = [Fresh EXCEPT !.seen = TRUE]
             /\ UNCHANGED <<version, sout, snext, serr>>
    <3>1. sreq' \in Requests
      BY <1>1, <2>4 DEF Requests
    <3> QED
      BY <2>4, <3>1 DEF ServerTypeOK, ServerStates
  <2> QED
    BY <1>2, <2>1, <2>2, <2>3, <2>4 DEF ServerReadsHead
<1>3. CASE ServerReadsArg(kind)
  <2>0. sreq.id \in Nat /\ sreq.args \in Seq(ArgKinds)
    BY <1>1 DEF Requests
  <2>1. CASE Respond(sreq)
    BY <1>1, <2>1, RespondType
  <2>2. CASE /\ kind \in ArgKinds
             /\ sreq' = [sreq EXCEPT !.args = Append(@, kind)]
             /\ UNCHANGED <<version, spc, sout, snext, serr>>
    <3>1. Append(sreq.args, kind) \in Seq(ArgKinds)
      BY <2>0, <2>2, AppendProperties
    <3>2. sreq' \in Requests
      BY <1>1, <2>2, <3>1 DEF Requests
    <3> QED
      BY <2>2, <3>2 DEF ServerTypeOK
  <2>3. CASE /\ sreq' = [sreq EXCEPT !.size = TRUE]
             /\ UNCHANGED <<version, spc, sout, snext, serr>>
    <3>1. sreq' \in Requests
      BY <1>1, <2>3 DEF Requests
    <3> QED
      BY <2>3, <3>1 DEF ServerTypeOK
  <2>4. CASE Refuse(sreq, ErrAndFlush(sreq.id), "refused")
    BY <1>1, <2>0, <2>4, ErrAndFlushType, RefuseType
  <2>5. CASE Refuse(sreq, << Resp("ERR", sreq.id, 0) >>, "args")
    <3>1. << Resp("ERR", sreq.id, 0) >> \in Seq(RespPackets)
      BY <2>0, SingletonType DEF RespKinds
    <3> QED
      BY <1>1, <2>5, <3>1, RefuseType
  <2> QED
    BY <1>3, <2>1, <2>2, <2>3, <2>4, <2>5 DEF ServerReadsArg, ArgKinds
<1> QED
  BY <1>2, <1>3 DEF ServerReads

\* Closing an end of a pipe leaves a pipe.
LEMMA PipeCloseType ==
    ASSUME NEW p \in Pipe, NEW err \in ServeErrs \cup {"nil"}
    PROVE  CloseReader(p, err) \in Pipe /\ CloseWriter(p, err) \in Pipe
BY DEF Pipe, CloseReader, CloseWriter, ServeErrs, PipeErrs

\* What a closed pipe reports is an error.
LEMMA PipeErrType ==
    ASSUME NEW p \in Pipe, Closed(p)
    PROVE  ReadErr(p) \in ServeErrs /\ WriteErr(p) \in ServeErrs
BY DEF Pipe, ReadErr, WriteErr, ServeErrs, PipeErrs, Closed

(***************************************************************************)
(* Responses end with their only flush.                                    *)
(***************************************************************************)
\* What is left to write ends with its only flush.
FlushEnds(s) == s # <<>> /\ \A i \in 1..Len(s) : s[i].kind = "flush" <=> i = Len(s)

\* Packets without a flush, and then one.
LEMMA FlushAppended ==
    ASSUME NEW s \in Seq(RespPackets), NEW f \in RespPackets, f.kind = "flush",
           \A i \in 1..Len(s) : s[i].kind # "flush"
    PROVE  /\ s \o << f >> \in Seq(RespPackets)
           /\ FlushEnds(s \o << f >>)
           /\ Len(s \o << f >>) = Len(s) + 1
           /\ \A i \in 1..Len(s) : (s \o << f >>)[i] = s[i]
<1>1. PICK t : t = << f >>
  OBVIOUS
<1>2. t \in Seq(RespPackets) /\ Len(t) = 1 /\ t[1] = f
  BY <1>1
<1>m. PICK m \in Nat : m = Len(s)
  BY LenProperties
<1>u. PICK u : u = s \o t
  OBVIOUS
<1>3. u \in Seq(RespPackets)
  BY <1>2, <1>u, ConcatProperties
<1>4. Len(u) = m + 1
  <2>1. Len(s \o t) = Len(s) + Len(t)
    BY <1>2, ConcatProperties
  <2> QED
    BY <1>2, <1>m, <1>u, <2>1
<1>5. \A i \in 1..(m + 1) : u[i] = IF i <= m THEN s[i] ELSE t[i - m]
  <2>1. \A i \in 1..(Len(s) + Len(t)) : (s \o t)[i] = IF i <= Len(s) THEN s[i] ELSE t[i - Len(s)]
    BY <1>2, ConcatProperties
  <2> QED
    BY <1>2, <1>m, <1>u, <2>1
<1>6. u[m + 1] = f /\ \A i \in 1..m : u[i] = s[i]
  BY <1>2, <1>5
<1>7. FlushEnds(u)
  <2>1. u # << >>
    BY <1>3, <1>4
  <2>2. ASSUME NEW i \in 1..(m + 1) PROVE u[i].kind = "flush" <=> i = m + 1
    <3>1. CASE i = m + 1
      BY <1>6, <3>1
    <3>2. CASE i # m + 1
      <4>1. i \in 1..m
        BY <3>2
      <4> QED
        BY <1>m, <1>6, <3>2, <4>1
    <3> QED
      BY <3>1, <3>2
  <2> QED
    BY <1>4, <2>1, <2>2 DEF FlushEnds
<1> QED
  BY <1>1, <1>3, <1>4, <1>6, <1>7, <1>m, <1>u

\* What is left of a response when its first packet has been taken.
LEMMA FlushAfterTail ==
    ASSUME NEW s \in Seq(RespPackets), FlushEnds(s)
    PROVE  /\ Head(s) \in RespPackets /\ Head(s) = s[1]
           /\ Head(s).kind = "flush" => Len(s) = 1 /\ Tail(s) = << >>
           /\ Head(s).kind # "flush" => FlushEnds(Tail(s))
           /\ Tail(s) \in Seq(RespPackets) /\ Len(Tail(s)) = Len(s) - 1 /\ Len(s) >= 1
           /\ \A i \in 1..(Len(s) - 1) : Tail(s)[i] = s[i + 1]
<1>0. s # << >>
  BY DEF FlushEnds
<1>m. PICK m \in Nat : m = Len(s)
  BY LenProperties
<1>1. m >= 1 /\ Head(s) \in RespPackets /\ Head(s) = s[1]
  BY <1>0, <1>m, EmptySeq, HeadTailProperties
<1>t. PICK t : t = Tail(s)
  OBVIOUS
<1>2. t \in Seq(RespPackets) /\ Len(t) = m - 1 /\ \A i \in 1..(m - 1) : t[i] = s[i + 1]
  <2>1. Tail(s) \in Seq(RespPackets) /\ Len(Tail(s)) = Len(s) - 1
        /\ \A i \in 1..Len(Tail(s)) : Tail(s)[i] = s[i + 1]
    BY <1>0, HeadTailProperties
  <2> QED
    BY <1>m, <1>t, <2>1
<1>3. \A i \in 1..m : s[i].kind = "flush" <=> i = m
  BY <1>m DEF FlushEnds
<1>4. ASSUME s[1].kind = "flush" PROVE m = 1 /\ t = << >>
  <2>1. m = 1
    BY <1>1, <1>3, <1>4
  <2> QED
    BY <1>2, <2>1, EmptySeq
<1>5. ASSUME s[1].kind # "flush" PROVE FlushEnds(t)
  <2>1. m # 1 /\ m - 1 \in Nat /\ m - 1 >= 1
    BY <1>1, <1>3, <1>5
  <2>2. t # << >>
    BY <1>2, <2>1
  <2>3. ASSUME NEW i \in 1..(m - 1) PROVE t[i].kind = "flush" <=> i = m - 1
    <3>1. i + 1 \in 1..m /\ t[i] = s[i + 1]
      BY <1>2, <2>1
    <3> QED
      BY <1>3, <2>1, <3>1
  <2> QED
    BY <1>2, <2>2, <2>3 DEF FlushEnds
<1> QED
  BY <1>1, <1>2, <1>4, <1>5, <1>m, <1>t

\* The answer to ls-refs: its lines, and the flush.
LEMMA LSRefsFlush ==
    ASSUME NEW id \in Nat, NEW n \in Nat,
           NEW out, out = Lines(id, n) \o << Resp("flush", id, 0) >>
    PROVE  /\ out \in Seq(RespPackets) /\ FlushEnds(out) /\ Len(out) = n + 1
           /\ \A i \in 1..n : out[i] = Resp("line", id, i)
<1>1. Lines(id, n) \in Seq(RespPackets) /\ Len(Lines(id, n)) = n
      /\ \A i \in 1..n : Lines(id, n)[i] = Resp("line", id, i)
  BY LinesType
<1>2. Resp("flush", id, 0) \in RespPackets /\ Resp("flush", id, 0).kind = "flush"
  BY DEF Resp, RespPackets, RespKinds
<1>3. \A i \in 1..Len(Lines(id, n)) : Lines(id, n)[i].kind # "flush"
  BY <1>1 DEF Resp
<1> QED
  BY <1>1, <1>2, <1>3, FlushAppended

\* The answer to object-info ends with its only flush.
LEMMA ObjectInfoFlush ==
    ASSUME NEW req \in Requests, NEW last \in LastEmitted(req.args)
    PROVE  FlushEnds(ObjectInfoResponse(req, last))
<1>1. req.id \in Nat /\ req.args \in Seq(ArgKinds)
  BY DEF Requests
<1>h. PICK hdr : hdr = IF req.size /\ req.args # <<>> THEN << Resp("size", req.id, 0) >> ELSE <<>>
  OBVIOUS
<1>2. hdr \in Seq(RespPackets) /\ \A i \in 1..Len(hdr) : hdr[i].kind # "flush"
  <2>1. Resp("size", req.id, 0) \in RespPackets /\ Resp("size", req.id, 0).kind # "flush"
    BY <1>1 DEF Resp, RespPackets, RespKinds
  <2>2. PICK r : r = Resp("size", req.id, 0)
    OBVIOUS
  <2>3. hdr = << r >> \/ hdr = << >>
    BY <1>h, <2>2
  <2>4. CASE hdr = << r >>
    BY <2>1, <2>2, <2>4
  <2>5. CASE hdr = << >>
    <3>1. \A i \in 1..Len(hdr) : FALSE
      BY <2>5
    <3> QED
      BY <2>5, <3>1, EmptySeq
  <2> QED
    BY <2>3, <2>4, <2>5
<1>3. last \in Nat
  BY <1>1 DEF LastEmitted, Corrupt
<1>r. PICK r : r = Replies(req, last)
  OBVIOUS
<1>4. r \in Seq(RespPackets) /\ \A i \in 1..Len(r) : r[i].kind # "flush"
  <2>1. \A i \in 1..last : Resp(ReplyKind(req.args[i]), req.id, i) \in RespPackets
                           /\ Resp(ReplyKind(req.args[i]), req.id, i).kind # "flush"
    BY <1>1 DEF Resp, RespPackets, RespKinds, ReplyKind
  <2> QED
    BY <1>3, <1>r, <2>1 DEF Replies
<1>u. PICK u : u = hdr \o r
  OBVIOUS
<1>5. u \in Seq(RespPackets) /\ \A i \in 1..Len(u) : u[i].kind # "flush"
  <2>1. u \in Seq(RespPackets) /\ Len(u) = Len(hdr) + Len(r)
    BY <1>2, <1>4, <1>u, ConcatProperties
  <2>a. PICK a \in Nat, b \in Nat : a = Len(hdr) /\ b = Len(r)
    BY <1>2, <1>4, LenProperties
  <2>2. \A i \in 1..(a + b) : u[i] = IF i <= a THEN hdr[i] ELSE r[i - a]
    BY <1>2, <1>4, <1>u, <2>a, ConcatProperties
  <2>3. ASSUME NEW i \in 1..(a + b) PROVE u[i].kind # "flush"
    <3>1. CASE i <= a
      BY <1>2, <2>2, <2>a, <3>1
    <3>2. CASE ~(i <= a)
      <4>1. i - a \in 1..b
        BY <3>2
      <4> QED
        BY <1>4, <2>2, <2>a, <3>2, <4>1
    <3> QED
      BY <3>1, <3>2
  <2> QED
    BY <2>1, <2>3, <2>a
<1>6. Resp("flush", req.id, 0) \in RespPackets /\ Resp("flush", req.id, 0).kind = "flush"
  BY <1>1 DEF Resp, RespPackets, RespKinds
<1>7. FlushEnds(u \o << Resp("flush", req.id, 0) >>)
  BY <1>5, <1>6, FlushAppended
<1> QED
  BY <1>7, <1>h, <1>r, <1>u DEF ObjectInfoResponse

\* Dial faces an advertisement that ends with its only flush.
LEMMA AdvertisementFlush ==
    /\ FlushEnds(V2Advertisement)
    /\ \A n \in Nat : FlushEnds(V0Advertisement(n))
<1>f. PICK f : f = Resp("flush", 0, 0)
  OBVIOUS
<1>0. f \in RespPackets /\ f.kind = "flush"
  BY <1>f DEF Resp, RespPackets, RespKinds
<1>1. FlushEnds(V2Advertisement)
  <2>v. PICK v : v = Resp("version", 0, 0)
    OBVIOUS
  <2>c. PICK c : c = Resp("cap", 0, 0)
    OBVIOUS
  <2>1. v.kind = "version" /\ c.kind = "cap"
    BY <2>v, <2>c DEF Resp
  <2>2. V2Advertisement = << v, c, f >>
    BY <1>f, <2>v, <2>c DEF V2Advertisement
  <2>3. Len(<< v, c, f >>) = 3 /\ << v, c, f >> # << >>
        /\ \A i \in 1..3 : << v, c, f >>[i] = IF i = 1 THEN v ELSE IF i = 2 THEN c ELSE f
    OBVIOUS
  <2>4. \A i \in 1..3 : << v, c, f >>[i].kind = "flush" <=> i = 3
    BY <1>0, <2>1, <2>3
  <2> QED
    BY <2>2, <2>3, <2>4 DEF FlushEnds
<1>2. ASSUME NEW n \in Nat PROVE FlushEnds(V0Advertisement(n))
  <2>r. PICK r : r = Resp("caps^{}", 0, 0)
    OBVIOUS
  <2>1. r \in RespPackets /\ r.kind # "flush"
    BY <2>r DEF Resp, RespPackets, RespKinds
  <2>s. PICK s : s = IF n = 0 THEN << r >> ELSE Lines(0, n)
    OBVIOUS
  <2>2. s \in Seq(RespPackets) /\ \A i \in 1..Len(s) : s[i].kind # "flush"
    <3>1. CASE n = 0
      <4>1. s = << r >>
        BY <2>s, <3>1
      <4>2. << r >> \in Seq(RespPackets) /\ \A i \in 1..Len(<< r >>) : << r >>[i] = r
        BY <2>1
      <4> QED
        BY <2>1, <4>1, <4>2
    <3>2. CASE n # 0
      <4>1. /\ s \in Seq(RespPackets) /\ Len(s) = n
            /\ \A i \in 1..n : s[i] = Resp("line", 0, i)
        BY <2>s, <3>2, LinesType
      <4> QED
        BY <4>1 DEF Resp
    <3> QED
      BY <3>1, <3>2
  <2>3. FlushEnds(s \o << f >>)
    BY <1>0, <2>2, FlushAppended
  <2> QED
    BY <1>f, <2>3, <2>r, <2>s DEF V0Advertisement
<1> QED
  BY <1>1, <1>2

===========================================================================
