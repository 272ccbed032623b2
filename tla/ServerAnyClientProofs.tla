----------------------- MODULE ServerAnyClientProofs -----------------------
(***************************************************************************)
(* Theorems about the server goroutine alone: whatever its peer sends, in  *)
(* whatever order and however often, its answers are framed and its        *)
(* refusals told.                                                          *)
(***************************************************************************)
EXTENDS ServerAnyClient, ServerLoopProofs

PeerTypeOK == PipesTypeOK /\ ServerTypeOK /\ wire \in Seq(RespKinds)

(***************************************************************************)
(* The inductive invariant: what has been sent of an answer and what is    *)
(* left of it make a whole with one flush at its end; and where the answer *)
(* is a refusal, with an ERR packet before the flush.                      *)
(***************************************************************************)
NoFlush(w) == \A i \in 1..Len(w) : w[i] # "flush"

\* The last packet but one of the answer is an ERR packet.
RefusalAhead ==
    /\ Len(sout) >= 2 => sout[Len(sout) - 1].kind = "ERR"
    /\ Len(sout) = 1 => Len(wire) >= 1 /\ wire[Len(wire)] = "ERR"
    /\ sout = <<>> => Len(wire) > 1 /\ wire[Len(wire) - 1] = "ERR"

FrameInv ==
    /\ spc \in {"loop", "first"} => Framed
    /\ spc \in {"request", "args"} => NoFlush(wire)
    /\ spc = "write" /\ snext = "args" =>
          NoFlush(wire) /\ \A i \in 1..Len(sout) : sout[i].kind # "flush"
    /\ spc = "write" /\ snext # "args" =>
          IF sout = <<>> THEN Framed ELSE NoFlush(wire) /\ FlushEnds(sout)
    /\ spc = "write" /\ snext = "refused" => RefusalAhead

\* Only a refusal makes Serve return ErrRefused, and then it is over.
RefusalInv ==
    /\ c2s.werr \in {"nil", "EOF"} /\ s2c.rerr \in {"nil", "ClosedPipe"}
    /\ serr = "Refused" => spc \in {"returned", "closing", "closed", "done"}
    /\ RefusalIsTold

PeerInv == FrameInv /\ RefusalInv

(***************************************************************************)
(* Types.                                                                  *)
(***************************************************************************)
\* A connection begins well typed.
LEMMA PeerTypeInit == PeerInit => PeerTypeOK
<1> SUFFICES ASSUME PeerInit PROVE PeerTypeOK
  OBVIOUS
<1>1. PipesTypeOK
  BY DEF PeerInit, PipesInit, PipesTypeOK, Pipe, NewPipe
<1>2. ServerTypeOK
  BY ServerInitType DEF PeerInit
<1>3. wire \in Seq(RespKinds)
  BY EmptySeq DEF PeerInit
<1> QED
  BY <1>1, <1>2, <1>3 DEF PeerTypeOK

\* Whatever the peer does, the types are kept.
LEMMA PeerTypeNext ==
    ASSUME PeerTypeOK, [PeerNext]_peerVars
    PROVE  PeerTypeOK'
<1>0. PipesTypeOK /\ ServerTypeOK /\ wire \in Seq(RespKinds)
  BY DEF PeerTypeOK
<1>p. ASSUME UNCHANGED pipeVars PROVE PipesTypeOK'
  BY <1>0, <1>p DEF pipeVars, PipesTypeOK
<1>s. ASSUME UNCHANGED serverVars PROVE ServerTypeOK'
  BY <1>0, <1>s DEF serverVars, ServerTypeOK
<1>e. /\ c2s \in Pipe /\ s2c \in Pipe /\ ctx \in CtxErrs \cup {"nil"} /\ serr \in ServeErrs \cup {"nil"}
      /\ {"nil", "Store", "Refused", "UnexpectedEOF"} \subseteq ServeErrs \cup {"nil"}
      /\ CtxErrs \subseteq ServeErrs
  BY <1>0 DEF PipesTypeOK, ServerTypeOK, ServeErrs, PipeErrs
<1>1. CASE PeerSends
  <2>1. PICK kind \in ReqKinds :
           /\ ServerReads(kind, sreq.id + 1)
           /\ wire' = IF spc' = "returned" THEN wire ELSE IF spc = "first" THEN <<>> ELSE wire
    BY <1>1 DEF PeerSends
  <2>2. sreq.id + 1 \in Nat
    BY <1>0 DEF ServerTypeOK, Requests
  <2>3. ServerTypeOK'
    BY <1>0, <2>1, <2>2, ServerReadsType
  <2>4. wire' \in Seq(RespKinds)
    BY <1>0, <2>1, EmptySeq
  <2> QED
    BY <1>1, <1>p, <2>3, <2>4 DEF PeerSends, PeerTypeOK
<1>2. CASE PeerTakes
  <2>1. sout \in Seq(RespPackets) /\ sout # <<>>
    BY <1>0, <1>2 DEF PeerTakes, ServerWrote, ServerWriting, ServerTypeOK
  <2>2. Head(sout) \in RespPackets /\ Tail(sout) \in Seq(RespPackets)
    BY <2>1, HeadTailProperties
  <2>3. Head(sout).kind \in RespKinds
    BY <2>2 DEF RespPackets
  <2>4. wire' \in Seq(RespKinds)
    BY <1>0, <1>2, <2>3, AppendProperties DEF PeerTakes
  <2>5. ServerTypeOK'
    BY <1>0, <1>2, <2>2 DEF PeerTakes, ServerWrote, ServerTypeOK
  <2> QED
    BY <1>2, <1>p, <2>4, <2>5 DEF PeerTakes, PeerTypeOK
<1>3. CASE PeerHangsUp
  <2>1. PipesTypeOK'
    BY <1>3, <1>e, PipeCloseType DEF PeerHangsUp, PipesTypeOK
  <2> QED
    BY <1>0, <1>3, <1>s, <2>1 DEF PeerHangsUp, PeerTypeOK
<1>4. CASE ContextEnds
  <2>1. PipesTypeOK'
    BY <1>4, <1>e DEF ContextEnds, PipesTypeOK
  <2> QED
    BY <1>0, <1>4, <1>s, <2>1 DEF ContextEnds, PeerTypeOK
<1>r. ASSUME NEW err \in ServeErrs \cup {"nil"}, ServerReturn(err), UNCHANGED <<pipeVars, wire>>
      PROVE  PeerTypeOK'
  BY <1>0, <1>r, <1>p, ServerReturnType DEF PeerTypeOK
<1>5. CASE ServerFails
  <2>1. UNCHANGED <<pipeVars, wire>>
    BY <1>5 DEF ServerFails
  <2>2. CASE Closed(c2s) /\ ServerReadFails(ReadErr(c2s))
    <3>1. ReadErr(c2s) \in ServeErrs
      BY <1>e, <2>2, PipeErrType
    <3> QED
      BY <1>e, <1>r, <2>1, <2>2, <3>1 DEF ServerReadFails
  <2>3. CASE Closed(s2c) /\ ServerWriteFails(WriteErr(s2c))
    <3>1. WriteErr(s2c) \in ServeErrs
      BY <1>e, <2>3, PipeErrType
    <3> QED
      BY <1>r, <2>1, <2>3, <3>1 DEF ServerWriteFails
  <2> QED
    BY <1>5, <2>2, <2>3 DEF ServerFails
<1>6. CASE StoreError
  BY <1>6, <1>e, <1>r DEF StoreError, ServerStoreFails
<1>7. CASE (ServerCheckCtx \/ ServerFinishes) /\ UNCHANGED <<pipeVars, wire>>
  <2>1. CASE \E err \in ServeErrs \cup {"nil"} : ServerReturn(err)
    BY <1>7, <1>r, <2>1
  <2>2. CASE spc' \in {"first", "loop", "args"} /\ UNCHANGED <<version, sreq, sout, snext, serr>>
    BY <1>0, <1>7, <1>p, <2>2 DEF ServerTypeOK, ServerStates, PeerTypeOK
  <2> QED
    BY <1>7, <1>e, <2>1, <2>2 DEF ServerCheckCtx, ServerFinishes
<1>8. CASE (ServerClosesWriter \/ ServerClosesReader \/ ServerDone) /\ UNCHANGED wire
  <2>1. PipesTypeOK'
    BY <1>0, <1>8, <1>e, PipeCloseType
       DEF ServerClosesWriter, ServerClosesReader, ServerDone, PipesTypeOK, pipeVars
  <2>2. ServerTypeOK'
    BY <1>0, <1>8 DEF ServerClosesWriter, ServerClosesReader, ServerDone, ServerTypeOK, ServerStates
  <2> QED
    BY <1>0, <1>8, <2>1, <2>2 DEF PeerTypeOK
<1>9. CASE UNCHANGED peerVars
  BY <1>0, <1>9, <1>p, <1>s DEF peerVars, PeerTypeOK
<1> QED
  BY <1>1, <1>2, <1>3, <1>4, <1>5, <1>6, <1>7, <1>8, <1>9 DEF PeerNext, ServerRuns, ServerIsDone

(***************************************************************************)
(* Answers and their ends.                                                 *)
(***************************************************************************)
\* Framed, by positions.
LEMMA FramedByPosition ==
    ASSUME NEW w \in Seq(RespKinds), w # <<>>, \A i \in 1..Len(w) : w[i] = "flush" <=> i = Len(w)
    PROVE  {i \in DOMAIN w : w[i] = "flush"} = {Len(w)}
<1>m. PICK m \in Nat : m = Len(w)
  BY LenProperties
<1>1. DOMAIN w = 1..m /\ m # 0
  BY <1>m, EmptySeq
<1>2. \A i \in 1..m : w[i] = "flush" <=> i = m
  BY <1>m
<1>3. m \in 1..m
  BY <1>1
<1> QED
  BY <1>1, <1>2, <1>3, <1>m

\* Taking the next packet of an answer.
LEMMA PacketTaken ==
    ASSUME PeerTypeOK, NoFlush(wire), sout # <<>>,
           NEW k, k = Head(sout).kind, wire' = Append(wire, k)
    PROVE  /\ k # "flush" => NoFlush(wire')
           /\ k = "flush" => Framed'
           /\ Len(wire') = Len(wire) + 1 /\ wire'[Len(wire')] = k
           /\ \A i \in 1..Len(wire) : wire'[i] = wire[i]
<1>1. wire \in Seq(RespKinds) /\ sout \in Seq(RespPackets)
  BY DEF PeerTypeOK, ServerTypeOK
<1>2. k \in RespKinds
  <2>1. Head(sout) \in RespPackets
    BY <1>1, HeadTailProperties
  <2> QED
    BY <2>1 DEF RespPackets
<1>m. PICK m \in Nat : m = Len(wire)
  BY <1>1, LenProperties
<1>w. PICK w : w = wire'
  OBVIOUS
<1>3. w \in Seq(RespKinds) /\ Len(w) = m + 1 /\ w[m + 1] = k /\ \A i \in 1..m : w[i] = wire[i]
  BY <1>1, <1>2, <1>m, <1>w, AppendProperties
<1>4. \A i \in 1..m : w[i] # "flush"
  BY <1>3, <1>m DEF NoFlush
<1>5. ASSUME k # "flush" PROVE NoFlush(w)
  <2>1. ASSUME NEW i \in 1..(m + 1) PROVE w[i] # "flush"
    <3>1. i \in 1..m \/ i = m + 1
      OBVIOUS
    <3> QED
      BY <1>3, <1>4, <1>5, <3>1
  <2> QED
    BY <1>3, <2>1 DEF NoFlush
<1>6. ASSUME k = "flush" PROVE w # <<>> /\ {i \in DOMAIN w : w[i] = "flush"} = {Len(w)}
  <2>1. w # <<>>
    BY <1>3
  <2>2. ASSUME NEW i \in 1..(m + 1) PROVE w[i] = "flush" <=> i = m + 1
    <3>1. (i \in 1..m /\ i # m + 1) \/ i = m + 1
      OBVIOUS
    <3> QED
      BY <1>3, <1>4, <1>6, <3>1
  <2> QED
    BY <1>3, <2>1, <2>2, FramedByPosition
<1> QED
  BY <1>3, <1>5, <1>6, <1>m, <1>w DEF Framed

\* The answer to a request for a corrupt object ends with ERR and the flush.
LEMMA CorruptIsTold ==
    ASSUME NEW req \in Requests, Corrupt(req.args) # {}, NEW last \in LastEmitted(req.args),
           NEW out, out = ObjectInfoResponse(req, last)
    PROVE  Len(out) >= 2 /\ out[Len(out) - 1].kind = "ERR"
<1>1. req.id \in Nat /\ req.args \in Seq(ArgKinds)
  BY DEF Requests
<1>2. last \in Corrupt(req.args)
  BY DEF LastEmitted
<1>3. last \in Nat /\ last >= 1 /\ req.args[last] = "corrupt"
  BY <1>1, <1>2 DEF Corrupt
<1>h. PICK hdr : hdr = IF req.size /\ req.args # <<>> THEN << Resp("size", req.id, 0) >> ELSE <<>>
  OBVIOUS
<1>4. hdr \in Seq(RespPackets)
  <2>1. << Resp("size", req.id, 0) >> \in Seq(RespPackets) /\ << >> \in Seq(RespPackets)
    BY <1>1, SingletonType, EmptySeq DEF RespKinds
  <2> QED
    BY <1>h, <2>1
<1>r. PICK r : r = Replies(req, last)
  OBVIOUS
<1>5. r \in Seq(RespPackets) /\ Len(r) = last /\ r[last].kind = "ERR"
  <2>1. \A i \in 1..last : Resp(ReplyKind(req.args[i]), req.id, i) \in RespPackets
    BY <1>1 DEF Resp, RespPackets, RespKinds, ReplyKind
  <2>2. r \in Seq(RespPackets) /\ Len(r) = last /\ r[last] = Resp(ReplyKind(req.args[last]), req.id, last)
    BY <1>3, <1>r, <2>1 DEF Replies
  <2> QED
    BY <1>3, <2>2 DEF Resp, ReplyKind
<1>h2. PICK h \in Nat : h = Len(hdr)
  BY <1>4, LenProperties
<1>u. PICK u : u = hdr \o r
  OBVIOUS
<1>6. u \in Seq(RespPackets) /\ Len(u) = h + last /\ u[h + last] = r[last]
  <2>1. u \in Seq(RespPackets)
    BY <1>4, <1>5, <1>u, ConcatProperties
  <2>2. Len(hdr \o r) = Len(hdr) + Len(r)
    BY <1>4, <1>5, ConcatProperties
  <2>3. \A i \in 1..(Len(hdr) + Len(r)) : (hdr \o r)[i] = IF i <= Len(hdr) THEN hdr[i] ELSE r[i - Len(hdr)]
    BY <1>4, <1>5, ConcatProperties
  <2>4. \A i \in 1..(h + last) : u[i] = IF i <= h THEN hdr[i] ELSE r[i - h]
    BY <1>5, <1>h2, <1>u, <2>3
  <2>n. PICK n \in Nat : n = h + last
    BY <1>3
  <2>5. n \in 1..n /\ ~(n <= h) /\ n - h = last
    BY <1>3, <2>n
  <2>6. u[n] = r[last]
    BY <2>4, <2>5, <2>n
  <2> QED
    BY <1>5, <1>h2, <1>u, <2>1, <2>2, <2>6, <2>n
<1>f. PICK f : f = << Resp("flush", req.id, 0) >>
  OBVIOUS
<1>7. f \in Seq(RespPackets) /\ Len(f) = 1
  BY <1>1, <1>f, SingletonType DEF RespKinds
<1>8. out = u \o f
  BY <1>f, <1>h, <1>r, <1>u DEF ObjectInfoResponse
<1>n. PICK n \in Nat : n = h + last
  BY <1>3
<1>9. Len(out) = n + 1 /\ \A i \in 1..n : out[i] = u[i]
  <2>1. Len(u \o f) = Len(u) + Len(f)
    BY <1>6, <1>7, ConcatProperties
  <2>2. \A i \in 1..(Len(u) + Len(f)) : (u \o f)[i] = IF i <= Len(u) THEN u[i] ELSE f[i - Len(u)]
    BY <1>6, <1>7, ConcatProperties
  <2>3. Len(u) = n
    BY <1>6, <1>n
  <2> QED
    BY <1>7, <1>8, <2>1, <2>2, <2>3
<1>10. n >= 1 /\ n + 1 - 1 = n /\ n \in 1..n
  BY <1>3, <1>n
<1> QED
  BY <1>5, <1>6, <1>9, <1>10, <1>n

(***************************************************************************)
(* Every step keeps the invariant.                                         *)
(***************************************************************************)
\* A complete request is answered.
LEMMA RespondFrames ==
    ASSUME NEW req \in Requests, Respond(req), NoFlush(wire'), wire' \in Seq(RespKinds)
    PROVE  FrameInv' /\ spc' = "write" /\ serr' = serr
<1>0. req.id \in Nat
  BY DEF Requests
<1>1. spc' = "write" /\ serr' = serr /\ snext' \in {"loop", "refused"}
  BY DEF Respond
<1>2. CASE req.op = "ls-refs"
  <2>1. PICK n \in 0..MaxLines : sout' = Lines(req.id, n) \o << Resp("flush", req.id, 0) >>
    BY <1>2 DEF Respond
  <2>2. n \in Nat
    BY <2>1, MaxLinesAssumption
  <2>3. FlushEnds(sout')
    BY <1>0, <2>1, <2>2, LSRefsFlush
  <2>4. snext' = "loop" /\ sout' # << >>
    BY <1>2, <2>3 DEF Respond, FlushEnds
  <2> QED
    BY <1>1, <2>3, <2>4 DEF FrameInv
<1>3. CASE req.op = "object-info"
  <2>1. PICK last \in LastEmitted(req.args) : sout' = ObjectInfoResponse(req, last)
    BY <1>3 DEF Respond
  <2>2. FlushEnds(sout') /\ sout' # << >>
    BY <2>1, ObjectInfoFlush DEF FlushEnds
  <2>3. CASE Corrupt(req.args) = {}
    <3>1. snext' = "loop"
      BY <1>3, <2>3 DEF Respond
    <3> QED
      BY <1>1, <2>2, <3>1 DEF FrameInv
  <2>4. CASE Corrupt(req.args) # {}
    <3>1. Len(sout') >= 2 /\ sout'[Len(sout') - 1].kind = "ERR"
      BY <2>1, <2>4, CorruptIsTold
    <3>2. Len(sout') # 1
      <4>1. Len(sout') \in Nat
        BY <2>1, ObjectInfoResponseType, LenProperties
      <4> QED
        BY <3>1, <4>1
    <3>3. RefusalAhead'
      BY <2>2, <3>1, <3>2 DEF RefusalAhead
    <3> QED
      BY <1>1, <2>2, <3>3 DEF FrameInv
  <2> QED
    BY <2>3, <2>4
<1> QED
  BY <1>2, <1>3 DEF Respond

\* A request is refused, with ERR and the flush.
LEMMA RefuseFrames ==
    ASSUME NEW req \in Requests, Refuse(req, ErrAndFlush(req.id), "refused"), NoFlush(wire')
    PROVE  FrameInv' /\ spc' = "write" /\ serr' = serr
<1>1. spc' = "write" /\ serr' = serr /\ snext' = "refused" /\ sout' = ErrAndFlush(req.id)
  BY DEF Refuse
<1>e. PICK e : e = Resp("ERR", req.id, 0)
  OBVIOUS
<1>f. PICK f : f = Resp("flush", req.id, 0)
  OBVIOUS
<1>2. e.kind = "ERR" /\ f.kind = "flush"
  BY <1>e, <1>f DEF Resp
<1>3. sout' = << e, f >>
  BY <1>1, <1>e, <1>f DEF ErrAndFlush
<1>4. Len(sout') = 2 /\ sout'[1] = e /\ sout'[2] = f /\ sout' # << >>
  BY <1>3
<1>5. FlushEnds(sout')
  <2>1. \A i \in 1..2 : sout'[i].kind = "flush" <=> i = 2
    BY <1>2, <1>4
  <2> QED
    BY <1>4, <2>1 DEF FlushEnds
<1>6. RefusalAhead'
  <2>1. Len(sout') - 1 = 1 /\ Len(sout') # 1
    BY <1>4
  <2> QED
    BY <1>2, <1>4, <2>1 DEF RefusalAhead
<1> QED
  BY <1>1, <1>4, <1>5, <1>6 DEF FrameInv

\* The peer sends a packet.
LEMMA SendsFrames ==
    ASSUME PeerTypeOK, FrameInv, PeerSends
    PROVE  /\ FrameInv' \/ spc' = "returned"
           /\ serr' = serr \/ (spc' = "returned" /\ serr' \in {"nil", "Protocol"})
           /\ spc \in {"first", "request", "args"}
           /\ spc' \in {"write", "request", "args", "returned"}
<1>0. sreq \in Requests /\ sreq.id \in Nat /\ wire \in Seq(RespKinds)
  BY DEF PeerTypeOK, ServerTypeOK, Requests
<1>1. PICK kind \in ReqKinds :
         /\ ServerReads(kind, sreq.id + 1)
         /\ wire' = IF spc' = "returned" THEN wire ELSE IF spc = "first" THEN <<>> ELSE wire
  BY DEF PeerSends
<1>2. spc \in {"first", "request", "args"}
  BY DEF PeerSends, ServerReading
<1>3. ASSUME spc' # "returned" PROVE NoFlush(wire') /\ wire' \in Seq(RespKinds)
  <2>1. CASE spc = "first"
    <3>1. wire' = << >>
      BY <1>1, <1>3, <2>1
    <3> QED
      BY <3>1, EmptySeq DEF NoFlush
  <2>2. CASE spc # "first"
    BY <1>0, <1>1, <1>2, <1>3, <2>2 DEF FrameInv
  <2> QED
    BY <2>1, <2>2
<1>4. CASE ServerReturn("nil") \/ ServerReturn("Protocol")
  BY <1>2, <1>4 DEF ServerReturn
<1>5. CASE spc' \in {"request", "args"} /\ serr' = serr
  <2>1. NoFlush(wire')
    BY <1>3, <1>5
  <2> QED
    BY <1>2, <1>5, <2>1 DEF FrameInv
<1>6. Fresh \in Requests
  BY <1>0, EmptySeq DEF Fresh, NoRequest, Requests
<1>7. CASE \E req \in Requests : Respond(req) \/ Refuse(req, ErrAndFlush(req.id), "refused")
  <2>1. PICK req \in Requests : Respond(req) \/ Refuse(req, ErrAndFlush(req.id), "refused")
    BY <1>7
  <2>2. spc' = "write"
    BY <2>1 DEF Respond, Refuse
  <2>3. NoFlush(wire') /\ wire' \in Seq(RespKinds)
    BY <1>3, <2>2
  <2> QED
    BY <1>2, <2>1, <2>3, RespondFrames, RefuseFrames
<1>8. CASE Refuse(sreq, << Resp("ERR", sreq.id, 0) >>, "args")
  <2>1. spc' = "write" /\ snext' = "args" /\ serr' = serr /\ sout' = << Resp("ERR", sreq.id, 0) >>
    BY <1>8 DEF Refuse
  <2>2. PICK e : e = Resp("ERR", sreq.id, 0)
    OBVIOUS
  <2>3. e.kind = "ERR" /\ sout' = << e >>
    BY <2>1, <2>2 DEF Resp
  <2>4. Len(sout') = 1 /\ sout'[1] = e
    BY <2>3
  <2>5. \A i \in 1..Len(sout') : sout'[i].kind # "flush"
    BY <2>3, <2>4
  <2>6. NoFlush(wire')
    BY <1>3, <2>1
  <2> QED
    BY <1>2, <2>1, <2>5, <2>6 DEF FrameInv
<1>9. CASE ServerReadsHead(kind, sreq.id + 1)
  BY <1>4, <1>5, <1>6, <1>7, <1>9 DEF ServerReadsHead, Dispatch
<1>10. CASE ServerReadsArg(kind)
  BY <1>0, <1>4, <1>5, <1>7, <1>8, <1>10 DEF ServerReadsArg
<1> QED
  BY <1>1, <1>9, <1>10 DEF ServerReads

\* The peer takes a packet.
LEMMA TakesFrames ==
    ASSUME PeerTypeOK, FrameInv, PeerTakes
    PROVE  FrameInv' /\ spc = "write" /\ UNCHANGED <<spc, serr>>
<1>0. /\ spc = "write" /\ sout # << >> /\ sout' = Tail(sout) /\ wire' = Append(wire, Head(sout).kind)
      /\ UNCHANGED <<spc, snext, serr>>
  BY DEF PeerTakes, ServerWrote, ServerWriting
<1>1. sout \in Seq(RespPackets) /\ wire \in Seq(RespKinds)
  BY DEF PeerTypeOK, ServerTypeOK
<1>2. NoFlush(wire)
  BY <1>0 DEF FrameInv
<1>k. PICK k : k = Head(sout).kind
  OBVIOUS
<1>m. PICK m \in Nat : m = Len(sout)
  BY <1>1, LenProperties
<1>w. PICK w \in Nat : w = Len(wire)
  BY <1>1, LenProperties
<1>3. /\ k # "flush" => NoFlush(wire')
      /\ k = "flush" => Framed'
      /\ Len(wire') = w + 1 /\ wire'[w + 1] = k
      /\ \A i \in 1..w : wire'[i] = wire[i]
  BY <1>0, <1>2, <1>k, <1>w, PacketTaken
<1>4. /\ Head(sout) = sout[1] /\ m >= 1 /\ Len(sout') = m - 1
      /\ \A i \in 1..(m - 1) : sout'[i] = sout[i + 1]
  <2>1. /\ Head(sout) = sout[1] /\ Len(Tail(sout)) = Len(sout) - 1
        /\ \A i \in 1..Len(Tail(sout)) : Tail(sout)[i] = sout[i + 1]
    BY <1>0, <1>1, HeadTailProperties
  <2>2. m >= 1
    BY <1>0, <1>1, <1>m, EmptySeq
  <2> QED
    BY <1>0, <1>m, <2>1, <2>2
<1>5. CASE snext = "args"
  <2>1. k # "flush"
    BY <1>0, <1>4, <1>5, <1>k, <1>m DEF FrameInv
  <2>2. ASSUME NEW i \in 1..(m - 1) PROVE sout'[i].kind # "flush"
    <3>1. i + 1 \in 1..m
      BY <1>4
    <3> QED
      BY <1>0, <1>4, <1>5, <1>m, <3>1 DEF FrameInv
  <2>3. \A i \in 1..Len(sout') : sout'[i].kind # "flush"
    BY <1>4, <2>2
  <2>4. spc' = "write" /\ snext' = "args" /\ NoFlush(wire')
    BY <1>0, <1>3, <1>5, <2>1
  <2>5. FrameInv'
    BY <2>3, <2>4 DEF FrameInv
  <2> QED
    BY <1>0, <2>5
<1>6. CASE snext # "args"
  <2>0. FlushEnds(sout)
    BY <1>0, <1>6 DEF FrameInv
  <2>1. /\ k = "flush" => m = 1 /\ sout' = << >>
        /\ k # "flush" => FlushEnds(sout')
    BY <1>0, <1>1, <1>k, <1>m, <2>0, FlushAfterTail
  <2>2. IF sout' = << >> THEN Framed' ELSE NoFlush(wire') /\ FlushEnds(sout')
    BY <1>3, <2>1 DEF FlushEnds
  <2>3. ASSUME snext = "refused" PROVE RefusalAhead'
    <3>0. RefusalAhead
      BY <1>0, <2>3 DEF FrameInv
    <3>1. CASE m >= 3
      <4>1. sout[m - 1].kind = "ERR"
        BY <1>m, <3>0, <3>1 DEF RefusalAhead
      <4>2. Len(sout') = m - 1 /\ m - 1 >= 2 /\ sout' # << >>
        BY <1>4, <3>1
      <4>3. sout'[m - 1 - 1].kind = "ERR"
        <5>1. m - 1 - 1 \in 1..(m - 1) /\ (m - 1 - 1) + 1 = m - 1
          BY <3>1
        <5> QED
          BY <1>4, <4>1, <5>1
      <4>4. m - 1 # 1
        BY <3>1
      <4> QED
        BY <4>2, <4>3, <4>4 DEF RefusalAhead
    <3>2. CASE m = 2
      <4>1. sout[1].kind = "ERR"
        <5>1. 2 - 1 = 1
          OBVIOUS
        <5> QED
          BY <1>m, <3>0, <3>2, <5>1 DEF RefusalAhead
      <4>2. Len(sout') = 1 /\ sout' # << >>
        BY <1>4, <3>2
      <4>3. k = "ERR"
        BY <1>4, <1>k, <4>1
      <4>4. Len(wire') >= 1 /\ wire'[Len(wire')] = "ERR"
        BY <1>3, <4>3
      <4> QED
        BY <4>2, <4>4 DEF RefusalAhead
    <3>3. CASE m = 1
      <4>1. w >= 1 /\ wire[w] = "ERR"
        BY <1>m, <1>w, <3>0, <3>3 DEF RefusalAhead
      <4>2. Len(sout') = 0
        BY <1>4, <3>3
      <4>3. w + 1 > 1 /\ w + 1 - 1 = w /\ w \in 1..w
        BY <4>1
      <4>4. Len(wire') > 1 /\ wire'[Len(wire') - 1] = "ERR"
        BY <1>3, <4>1, <4>3
      <4> QED
        BY <4>2, <4>4 DEF RefusalAhead
    <3> QED
      BY <1>4, <3>1, <3>2, <3>3
  <2>4. spc' = "write" /\ snext' # "args" /\ (snext' = "refused" => RefusalAhead')
    BY <1>0, <1>6, <2>3
  <2>5. FrameInv'
    BY <2>2, <2>4 DEF FrameInv
  <2> QED
    BY <1>0, <2>5
<1> QED
  BY <1>5, <1>6

\* Serve returns.
LEMMA ReturnFrames ==
    ASSUME PeerInv, spc \in {"write", "loop", "first", "request", "args"}, NEW err, ServerReturn(err),
           UNCHANGED <<pipeVars, wire>>, err # "Refused" \/ RefusalIsTold'
    PROVE  PeerInv'
<1>1. spc' = "returned" /\ serr' = err /\ UNCHANGED <<c2s, s2c>>
  BY DEF ServerReturn, pipeVars
<1>2. FrameInv'
  BY <1>1 DEF FrameInv
<1>3. RefusalIsTold'
  BY <1>1 DEF RefusalIsTold
<1>4. RefusalInv'
  BY <1>1, <1>3 DEF PeerInv, RefusalInv
<1> QED
  BY <1>2, <1>4 DEF PeerInv

\* Whatever the peer does, answers stay framed and refusals told.
LEMMA PeerInvNext ==
    ASSUME PeerTypeOK, PeerInv, [PeerNext]_peerVars
    PROVE  PeerInv'
<1>0. FrameInv /\ RefusalInv
  BY DEF PeerInv
<1>1. CASE PeerSends
  <2>1. /\ FrameInv' \/ spc' = "returned"
        /\ serr' = serr \/ (spc' = "returned" /\ serr' \in {"nil", "Protocol"})
        /\ spc \in {"first", "request", "args"}
        /\ spc' \in {"write", "request", "args", "returned"}
    BY <1>0, <1>1, SendsFrames
  <2>2. FrameInv'
    BY <2>1 DEF FrameInv
  <2>3. serr' # "Refused"
    BY <1>0, <2>1 DEF RefusalInv
  <2>4. UNCHANGED <<c2s, s2c>>
    BY <1>1 DEF PeerSends, pipeVars
  <2> QED
    BY <1>0, <2>2, <2>3, <2>4 DEF PeerInv, RefusalInv, RefusalIsTold
<1>2. CASE PeerTakes
  <2>1. FrameInv' /\ spc = "write" /\ UNCHANGED <<spc, serr>>
    BY <1>0, <1>2, TakesFrames
  <2>2. serr' # "Refused"
    BY <1>0, <2>1 DEF RefusalInv
  <2>3. UNCHANGED <<c2s, s2c>>
    BY <1>2 DEF PeerTakes, pipeVars
  <2> QED
    BY <1>0, <2>1, <2>2, <2>3 DEF PeerInv, RefusalInv, RefusalIsTold
<1>3. CASE PeerHangsUp
  <2>1. UNCHANGED <<spc, sreq, sout, snext, serr, wire>>
    BY <1>3 DEF PeerHangsUp, serverVars
  <2>2. c2s'.werr \in {"nil", "EOF"} /\ s2c'.rerr \in {"nil", "ClosedPipe"}
    BY <1>0, <1>3 DEF PeerHangsUp, CloseWriter, CloseReader, RefusalInv, PeerTypeOK, PipesTypeOK, Pipe
  <2>3. FrameInv'
    BY <1>0, <2>1 DEF FrameInv, Framed, NoFlush, FlushEnds, RefusalAhead
  <2> QED
    BY <1>0, <2>1, <2>2, <2>3 DEF PeerInv, RefusalInv, RefusalIsTold, Framed
<1>4. CASE ServerFails
  <2>1. UNCHANGED <<pipeVars, wire>>
    BY <1>4 DEF ServerFails
  <2>2. CASE Closed(c2s) /\ ServerReadFails(ReadErr(c2s))
    <3>1. ReadErr(c2s) # "Refused"
      BY <1>0, <2>2 DEF ReadErr, RefusalInv
    <3> QED
      BY <2>1, <2>2, <3>1, ReturnFrames DEF ServerReadFails, ServerReading
  <2>3. CASE Closed(s2c) /\ ServerWriteFails(WriteErr(s2c))
    <3>1. WriteErr(s2c) # "Refused"
      BY <1>0, <2>3 DEF WriteErr, RefusalInv
    <3> QED
      BY <2>1, <2>3, <3>1, ReturnFrames DEF ServerWriteFails, ServerWriting
  <2> QED
    BY <1>4, <2>2, <2>3 DEF ServerFails
<1>5. CASE StoreError
  BY <1>5, ReturnFrames DEF StoreError, ServerStoreFails, ServerWriting
<1>6. CASE ServerCheckCtx /\ UNCHANGED <<pipeVars, wire>>
  <2>1. CASE ServerReturn(ctx) /\ ctx # "nil"
    <3>1. ctx # "Refused"
      BY <2>1 DEF PeerTypeOK, PipesTypeOK, CtxErrs
    <3> QED
      BY <1>6, <2>1, <3>1, ReturnFrames DEF ServerCheckCtx
  <2>2. CASE spc = "loop" /\ spc' = "first" /\ UNCHANGED <<version, sreq, sout, snext, serr>>
    BY <1>0, <1>6, <2>2 DEF pipeVars, PeerInv, FrameInv, RefusalInv, RefusalIsTold, Framed
  <2> QED
    BY <1>6, <2>1, <2>2 DEF ServerCheckCtx
<1>7. CASE ServerFinishes /\ UNCHANGED <<pipeVars, wire>>
  <2>0. spc = "write" /\ sout = << >> /\ wire' = wire /\ UNCHANGED <<c2s, s2c>>
    BY <1>7 DEF ServerFinishes, pipeVars
  <2>1. CASE snext = "finish" /\ ServerReturn("nil")
    BY <1>7, <2>0, <2>1, ReturnFrames
  <2>2. CASE snext = "refused" /\ ServerReturn("Refused")
    <3>1. Framed /\ RefusalAhead
      BY <1>0, <2>0, <2>2 DEF FrameInv
    <3>2. RefusalIsTold'
      BY <2>0, <3>1 DEF RefusalIsTold, RefusalAhead, Framed
    <3> QED
      BY <1>7, <2>0, <2>2, <3>2, ReturnFrames
  <2>3. CASE snext \in {"loop", "args"} /\ spc' = snext /\ UNCHANGED <<version, sreq, sout, snext, serr>>
    <3>1. serr # "Refused"
      BY <1>0, <2>0 DEF RefusalInv
    <3>2. FrameInv'
      BY <1>0, <2>0, <2>3 DEF FrameInv, Framed, NoFlush
    <3> QED
      BY <1>0, <2>0, <2>3, <3>1, <3>2 DEF PeerInv, RefusalInv, RefusalIsTold
  <2> QED
    BY <1>7, <2>1, <2>2, <2>3 DEF ServerFinishes
<1>8. CASE (ServerClosesWriter \/ ServerClosesReader \/ ServerDone) /\ UNCHANGED wire
  <2>1. spc' \in {"closing", "closed", "done"} /\ serr' = serr /\ wire' = wire
    BY <1>8 DEF ServerClosesWriter, ServerClosesReader, ServerDone
  <2>2. c2s'.werr = c2s.werr /\ s2c'.rerr = s2c.rerr
    BY <1>8 DEF ServerClosesWriter, ServerClosesReader, ServerDone, CloseWriter, CloseReader, pipeVars,
       PeerTypeOK, PipesTypeOK, Pipe
  <2>3. FrameInv'
    BY <2>1 DEF FrameInv
  <2> QED
    BY <1>0, <2>1, <2>2, <2>3 DEF PeerInv, RefusalInv, RefusalIsTold, Framed
<1>9. CASE ContextEnds \/ UNCHANGED peerVars
  <2>1. UNCHANGED <<c2s, s2c, spc, sreq, sout, snext, serr, wire>>
    BY <1>9 DEF ContextEnds, peerVars, pipeVars, serverVars
  <2>2. FrameInv'
    BY <1>0, <2>1 DEF FrameInv, Framed, NoFlush, FlushEnds, RefusalAhead
  <2> QED
    BY <1>0, <2>1, <2>2 DEF PeerInv, RefusalInv, RefusalIsTold, Framed
<1> QED
  BY <1>1, <1>2, <1>3, <1>4, <1>5, <1>6, <1>7, <1>8, <1>9 DEF PeerNext, ServerRuns, ServerIsDone

\* The advertisement is the first answer.
LEMMA PeerInvInit == PeerInit => PeerInv
<1> SUFFICES ASSUME PeerInit PROVE PeerInv
  OBVIOUS
<1>1. /\ spc = "write" /\ serr = "nil" /\ wire = << >> /\ snext \in {"finish", "loop"}
      /\ c2s = NewPipe /\ s2c = NewPipe
  BY DEF PeerInit, PipesInit, ServerInit
<1>2. FlushEnds(sout)
  <2>1. PICK n \in 0..MaxLines : sout = IF version = "v0" THEN V0Advertisement(n) ELSE V2Advertisement
    BY DEF PeerInit, ServerInit
  <2>2. n \in Nat
    BY <2>1, MaxLinesAssumption
  <2> QED
    BY <2>1, <2>2, AdvertisementFlush
<1>3. NoFlush(wire) /\ sout # << >>
  BY <1>1, <1>2 DEF NoFlush, FlushEnds
<1>4. FrameInv
  BY <1>1, <1>2, <1>3 DEF FrameInv
<1>5. RefusalInv
  BY <1>1 DEF RefusalInv, RefusalIsTold, NewPipe
<1> QED
  BY <1>4, <1>5 DEF PeerInv

\* The invariant of the server against any peer.
LEMMA PeerInvariant == PeerSpec => [](PeerTypeOK /\ PeerInv)
<1>1. PeerInit => PeerTypeOK /\ PeerInv
  BY PeerTypeInit, PeerInvInit
<1>2. (PeerTypeOK /\ PeerInv) /\ [PeerNext]_peerVars => (PeerTypeOK /\ PeerInv)'
  BY PeerTypeNext, PeerInvNext
<1> QED
  BY <1>1, <1>2, PTL DEF PeerSpec

\* The server looks for the next request only after the answer to the last
\* one has been closed by exactly one flush, whatever it was sent.
THEOREM AnswersFramedHolds == PeerSpec => []AnswersFramed
<1>1. PeerInv => AnswersFramed
  BY DEF PeerInv, FrameInv, AnswersFramed
<1> QED
  BY <1>1, PeerInvariant, PTL

\* Serve gives up on a refused request only when ERR and the flush have
\* reached the peer.
THEOREM RefusalIsToldHolds == PeerSpec => []RefusalIsTold
<1>1. PeerInv => RefusalIsTold
  BY DEF PeerInv, RefusalInv
<1> QED
  BY <1>1, PeerInvariant, PTL

===========================================================================
