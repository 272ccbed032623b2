------------------------- MODULE FileSessionProofs -------------------------
(***************************************************************************)
(* Theorems about FileSession for every number of calls, arguments and ref *)
(* lines and every protocol version.  The first part is about any caller,  *)
(* disciplined or not, with a concurrent Close or none; the second, about  *)
(* what the streams carry, about one that closes the session after a       *)
(* failed Command and does so itself.  The third shows that a session with *)
(* such a caller implements AbstractSession.                               *)
(***************************************************************************)
EXTENDS FileSession, FileSessionRefinement, ServerLoopProofs, WellFoundedInduction

(***************************************************************************)
(* The requests a caller writes.                                           *)
(***************************************************************************)
\* The argument lines of a call are the size attribute, if it was asked for,
\* and what the caller gave.
LEMMA ArgumentsFacts ==
    ASSUME NEW c \in Calls
    PROVE  /\ Arguments(c) \in Seq(ReqKinds \cup {"big"})
           /\ \A i \in 1..Len(Arguments(c)) :
                 \/ c.size /\ Arguments(c)[i] = "size"
                 \/ \E j \in 1..Len(c.args) : Arguments(c)[i] = c.args[j]
<1>r. PICK R : R = ReqKinds \cup {"big"}
  OBVIOUS
<1>1. c.args \in Seq(R) /\ Len(c.args) \in Nat
  <2>1. c.args \in Seq(ArgKinds \cup {"big"})
    BY DEF Calls
  <2>2. \A i \in 1..Len(c.args) : c.args[i] \in R
    BY <1>r, <2>1 DEF ReqKinds
  <2> QED
    BY <2>1, <2>2
<1>2. CASE c.size
  <2>1. PICK z : z = << "size" >>
    OBVIOUS
  <2>2. z \in Seq(R) /\ Len(z) = 1 /\ z[1] = "size"
    BY <1>r, <2>1 DEF ReqKinds
  <2>3. Arguments(c) = z \o c.args
    BY <1>2, <2>1 DEF Arguments
  <2>4. z \o c.args \in Seq(R)
    BY <1>1, <2>2, ConcatProperties
  <2>5. Len(z \o c.args) = 1 + Len(c.args)
    <3>1. z \in Seq(R) /\ c.args \in Seq(R)
      BY <1>1, <2>2
    <3>2. Len(z \o c.args) = Len(z) + Len(c.args)
      BY <3>1, ConcatProperties, Zenon
    <3> QED
      BY <2>2, <3>2
  <2>6. ASSUME NEW i \in 1..(1 + Len(c.args))
        PROVE  \/ (z \o c.args)[i] = "size"
               \/ \E j \in 1..Len(c.args) : (z \o c.args)[i] = c.args[j]
    <3>1. CASE i = 1
      BY <1>1, <2>2, <3>1, ConcatProperties
    <3>2. CASE i # 1
      <4>1. i - 1 \in 1..Len(c.args) /\ ~(i <= 1) /\ i \in 1..(Len(z) + Len(c.args))
        BY <1>1, <2>2, <3>2
      <4>2. (z \o c.args)[i] = c.args[i - Len(z)]
        BY <1>1, <2>2, <4>1, ConcatProperties
      <4> QED
        BY <2>2, <4>1, <4>2
    <3> QED
      BY <3>1, <3>2
  <2> QED
    BY <1>r, <1>2, <2>3, <2>4, <2>5, <2>6
<1>3. CASE ~c.size
  <2>1. Arguments(c) = << >> \o c.args
    BY <1>3 DEF Arguments
  <2>2. << >> \o c.args = c.args
    BY <1>1
  <2> QED
    BY <1>r, <1>1, <2>1, <2>2
<1> QED
  BY <1>2, <1>3

\* The frame of a call: command line, capabilities, delim, the argument lines,
\* and then the only flush.
LEMMA FrameFacts ==
    ASSUME NEW c \in Calls, c.op \in Ops
    PROVE  /\ Frame(c) \in Seq(ReqKinds \cup {"big"})
           /\ Len(Frame(c)) \in Nat /\ Len(Frame(c)) >= 4
           /\ Frame(c)[1] = c.op /\ Frame(c)[2] = "cap" /\ Frame(c)[3] = "delim"
           /\ Frame(c)[Len(Frame(c))] = "flush"
           /\ \A i \in 4..(Len(Frame(c)) - 1) :
                 \/ c.size /\ Frame(c)[i] = "size"
                 \/ \E j \in 1..Len(c.args) : Frame(c)[i] = c.args[j]
<1>r. PICK R : R = ReqKinds \cup {"big"}
  OBVIOUS
<1>h. PICK h : h = << c.op, "cap", "delim" >>
  OBVIOUS
<1>a. PICK a : a = Arguments(c)
  OBVIOUS
<1>f. PICK f : f = << "flush" >>
  OBVIOUS
<1>1. /\ h \in Seq(R) /\ Len(h) = 3
      /\ h[1] = c.op /\ h[2] = "cap" /\ h[3] = "delim"
  BY <1>r, <1>h DEF ReqKinds, CommandLines, ControlKinds
<1>2. a \in Seq(R) /\ Len(a) \in Nat
  BY <1>r, <1>a, ArgumentsFacts, LenProperties
<1>3. f \in Seq(R) /\ Len(f) = 1 /\ f[1] = "flush"
  BY <1>r, <1>f DEF ReqKinds, ControlKinds
<1>m. PICK m \in Nat : m = Len(a)
  BY <1>2
<1>x. PICK x : x = h \o a
  OBVIOUS
<1>4. x \in Seq(R)
  BY <1>1, <1>2, <1>x, ConcatProperties
<1>t. h \in Seq(R) /\ a \in Seq(R) /\ f \in Seq(R)
  BY <1>1, <1>2, <1>3
<1>5. Len(x) = 3 + m
  <2>1. Len(h \o a) = Len(h) + Len(a)
    BY <1>t, ConcatProperties
  <2> QED
    BY <1>1, <1>m, <1>x, <2>1
<1>6. ASSUME NEW i \in 1..(3 + m)
      PROVE  x[i] = IF i <= 3 THEN h[i] ELSE a[i - 3]
  <2>1. \A j \in 1..(Len(h) + Len(a)) :
           (h \o a)[j] = IF j <= Len(h) THEN h[j] ELSE a[j - Len(h)]
    BY <1>t, ConcatProperties
  <2> QED
    BY <1>1, <1>m, <1>x, <2>1
<1>7. Frame(c) = x \o f
  BY <1>h, <1>a, <1>f, <1>x DEF Frame
<1>8. Frame(c) \in Seq(R)
  BY <1>3, <1>4, <1>7, ConcatProperties
<1>9. Len(Frame(c)) = 4 + m
  <2>1. Len(x \o f) = Len(x) + Len(f)
    BY <1>t, <1>4, ConcatProperties
  <2> QED
    BY <1>3, <1>5, <1>7, <2>1
<1>10. ASSUME NEW i \in 1..(4 + m)
       PROVE  Frame(c)[i] = IF i <= 3 + m THEN x[i] ELSE f[i - (3 + m)]
  <2>1. \A j \in 1..(Len(x) + Len(f)) :
           (x \o f)[j] = IF j <= Len(x) THEN x[j] ELSE f[j - Len(x)]
    BY <1>t, <1>4, ConcatProperties
  <2>2. 3 + m + 1 = 4 + m /\ 3 + m \in Nat
    OBVIOUS
  <2>3. PICK n \in Nat : n = 3 + m
    BY <2>2
  <2>4. \A j \in 1..(n + 1) : (x \o f)[j] = IF j <= n THEN x[j] ELSE f[j - n]
    BY <1>3, <1>5, <2>1, <2>3
  <2> QED
    BY <1>7, <2>2, <2>3, <2>4
<1>11. Frame(c)[1] = c.op /\ Frame(c)[2] = "cap" /\ Frame(c)[3] = "delim"
  <2>1. ASSUME NEW i \in {1, 2, 3} PROVE Frame(c)[i] = h[i]
    BY <1>6, <1>10
  <2> QED
    BY <1>1, <2>1
<1>12. Frame(c)[4 + m] = "flush"
  <2>1. 4 + m \in 1..(4 + m) /\ ~(4 + m <= 3 + m) /\ (4 + m) - (3 + m) = 1
    OBVIOUS
  <2> QED
    BY <1>3, <1>10, <2>1
<1>13. ASSUME NEW i \in 4..(3 + m)
       PROVE  \/ c.size /\ Frame(c)[i] = "size"
              \/ \E j \in 1..Len(c.args) : Frame(c)[i] = c.args[j]
  <2>1. i \in 1..(4 + m) /\ i <= 3 + m /\ i \in 1..(3 + m) /\ ~(i <= 3) /\ i - 3 \in 1..m
    OBVIOUS
  <2>2. Frame(c)[i] = a[i - 3]
    BY <1>6, <1>10, <2>1
  <2> QED
    BY <1>a, <1>m, <2>1, <2>2, ArgumentsFacts
<1>14. Len(Frame(c)) \in Nat /\ Len(Frame(c)) >= 4 /\ Len(Frame(c)) - 1 = 3 + m
  BY <1>9
<1> QED
  BY <1>r, <1>8, <1>9, <1>11, <1>12, <1>13, <1>14

\* The arguments a caller may choose are a sequence.
LEMMA ArgsOverType ==
    ASSUME NEW S, NEW args \in ArgsOver(S)
    PROVE  args \in Seq(S)
BY MaxArgsAssumption DEF ArgsOver

(***************************************************************************)
(* The client's steps keep its types.                                      *)
(***************************************************************************)
\* A call that ends where it began, or goes on to write its request.
LEMMA CallType ==
    ASSUME ClientTypeOK, NEW op \in Ops, NEW size \in BOOLEAN,
           NEW args \in Seq(ArgKinds \cup {"big"}),
           cpc = "idle",
           LET c == NewCall(op, size, args) IN
              \/ Answer(c, <<>>, "SessionDead")
              \/ Answer(c, refs, "ok")
              \/ Answer(c, <<>>, "Unsupported")
              \/ Command(c)
    PROVE  ClientTypeOK'
<1> DEFINE c == NewCall(op, size, args)
<1>1. c \in Calls /\ c.op \in Ops
  BY DEF ClientTypeOK, NewCall, Calls
<1>2. Len(Frame(c)) \in Nat /\ Len(Frame(c)) >= 4
  BY <1>1, FrameFacts
<1> HIDE DEF c
<1>3. ASSUME NEW d \in Seq(RespPackets), NEW r \in Results, Answer(c, d, r)
      PROVE  ClientTypeOK'
  BY <1>1, <1>3 DEF ClientTypeOK, Answer
<1>4. CASE Command(c)
  <2>1. got' \in Seq(RespPackets)
    BY <1>4, EmptySeq DEF Command
  <2>2. Frame(call)' = Frame(c) /\ call' = c /\ pos' = 1
    BY <1>4 DEF Frame, Arguments, Command
  <2>3. (call.op \in Ops /\ pos \in 1..Len(Frame(call)))'
    BY <1>1, <1>2, <2>2
  <2>4. sized' \in BOOLEAN
    BY <1>4 DEF Command
  <2>5. /\ cpc' \in ClientStates /\ result' \in Results
        /\ refs' = refs /\ cret' = cret /\ deadErr' = deadErr
    BY <1>4 DEF Command, Results, Errs, ClientStates, CallerStates
  <2>6. call' \in Calls /\ pos' \in Nat
    BY <1>1, <2>2
  <2> QED
    BY <2>1, <2>3, <2>4, <2>5, <2>6 DEF ClientTypeOK
<1>5. << >> \in Seq(RespPackets) /\ refs \in Seq(RespPackets)
  BY DEF ClientTypeOK
<1>6. {"SessionDead", "ok", "Unsupported"} \subseteq Results
  BY DEF Results
<1> QED
  BY <1>3, <1>4, <1>5, <1>6 DEF c

\* Every step the caller chooses.
LEMMA CallerStepType ==
    ASSUME ClientTypeOK, CallerStep
    PROVE  ClientTypeOK'
<1>1. CASE CallRefs
  <2>1. PICK args \in ArgsOver({"prefix", "big"}) :
          LET c == NewCall("ls-refs", FALSE, args) IN
             \/ Answer(c, <<>>, "SessionDead")
             \/ Answer(c, refs, "ok")
             \/ Command(c)
    BY <1>1 DEF CallRefs
  <2>2. args \in Seq({"prefix", "big"})
    BY <2>1, ArgsOverType
  <2>3. args \in Seq(ArgKinds \cup {"big"})
    <3>1. \A i \in 1..Len(args) : args[i] \in ArgKinds \cup {"big"}
      BY <2>2 DEF ArgKinds
    <3> QED
      BY <2>2, <3>1
  <2> QED
    BY <1>1, <2>1, <2>3, CallType DEF Ops, CallRefs
<1>2. CASE CallObjectInfo
  <2>1. PICK size \in BOOLEAN, args \in ArgsOver(OidKinds \cup {"big"}) :
          LET c == NewCall("object-info", size, args) IN
             \/ Answer(c, <<>>, "SessionDead")
             \/ Answer(c, <<>>, "Unsupported")
             \/ Command(c)
    BY <1>2 DEF CallObjectInfo
  <2>2. args \in Seq(OidKinds \cup {"big"})
    BY <2>1, ArgsOverType
  <2>3. args \in Seq(ArgKinds \cup {"big"})
    <3>1. \A i \in 1..Len(args) : args[i] \in ArgKinds \cup {"big"}
      BY <2>2 DEF ArgKinds
    <3> QED
      BY <2>2, <3>1
  <2> QED
    BY <1>2, <2>1, <2>3, CallType DEF Ops, CallObjectInfo
<1>3. CASE RangeOver \/ Continue \/ Break \/ CallClose \/ IgnoreError
  BY <1>3 DEF RangeOver, Continue, Break, CallClose, IgnoreError, ClientTypeOK,
              ClientStates, CallerStates
<1> QED
  BY <1>1, <1>2, <1>3 DEF CallerStep

\* Ending the session on an error.
LEMMA MarkDeadType ==
    ASSUME ClientTypeOK, NEW err \in ServeErrs, MarkDead(err)
    PROVE  ClientTypeOK'
BY DEF ClientTypeOK, MarkDead, Results, Errs, ClientStates, CallerStates

\* Handing a packet's content to the caller.
LEMMA DeliverType ==
    ASSUME ClientTypeOK, NEW pkt \in RespPackets, NEW pc \in ClientStates \ {"write"}, Deliver(pkt, pc)
    PROVE  ClientTypeOK'
<1>1. Append(got, pkt) \in Seq(RespPackets)
  BY AppendProperties DEF ClientTypeOK
<1> QED
  BY <1>1 DEF ClientTypeOK, Deliver

\* Ending a call.
LEMMA EndsWithType ==
    ASSUME ClientTypeOK, NEW res \in Results, EndsWith(res)
    PROVE  ClientTypeOK'
BY DEF ClientTypeOK, EndsWith, ClientStates, CallerStates

\* Reading one packet of a response.
LEMMA ClientReadsType ==
    ASSUME ClientTypeOK, NEW pkt \in RespPackets, ClientReads(pkt)
    PROVE  ClientTypeOK'
<1>0. "Refused" \in ServeErrs /\ DecodeError(pkt) \in ServeErrs
      /\ {"yield", "decode"} \subseteq ClientStates \ {"write"}
      /\ {"ok", "broke"} \subseteq Results
  BY DEF ServeErrs, ClientStates, CallerStates, Results, DecodeError
<1>1. CASE ClientReadsAdvertisement(pkt)
  <2>1. Append(refs, pkt) \in Seq(RespPackets)
    BY AppendProperties DEF ClientTypeOK
  <2> QED
    BY <1>1, <2>1 DEF ClientReadsAdvertisement, ClientTypeOK, ClientStates, CallerStates
<1>2. CASE ClientReadsRef(pkt)
  BY <1>0, <1>2, MarkDeadType, DeliverType, EndsWithType DEF ClientReadsRef
<1>3. CASE ClientDrains(pkt)
  <2>1. CASE UNCHANGED clientVars
    BY <2>1 DEF clientVars, ClientTypeOK
  <2> QED
    BY <1>0, <1>3, <2>1, EndsWithType DEF ClientDrains
<1>4. CASE ClientReadsObjectInfo(pkt)
  <2>1. CASE UNCHANGED clientVars
    BY <2>1 DEF clientVars, ClientTypeOK
  <2>2. CASE /\ sized' = TRUE
             /\ UNCHANGED <<cpc, cret, call, pos, got, refs, deadErr, result>>
    BY <2>2 DEF ClientTypeOK
  <2> QED
    BY <1>0, <1>4, <2>1, <2>2, MarkDeadType, DeliverType, EndsWithType DEF ClientReadsObjectInfo
<1> QED
  BY <1>1, <1>2, <1>3, <1>4 DEF ClientReads

(***************************************************************************)
(* Type correctness.                                                       *)
(***************************************************************************)
\* The connection openTyped builds is well typed.
LEMMA TypeInit == Init => TypeOK
<1> SUFFICES ASSUME Init PROVE TypeOK
  OBVIOUS
<1>1. PipesTypeOK
  BY DEF Init, PipesInit, PipesTypeOK, Pipe, NewPipe
<1>2. ServerTypeOK
  BY ServerInitType DEF Init
<1>3. ClientTypeOK
  <2>1. NoCall \in Calls
    BY EmptySeq DEF NoCall, Calls
  <2>2. got \in Seq(RespPackets) /\ refs \in Seq(RespPackets)
    BY EmptySeq DEF Init, ClientInit
  <2> QED
    BY <2>1, <2>2 DEF Init, ClientInit, ClientTypeOK, ClientStates, CallerStates, Results
<1> QED
  BY <1>1, <1>2, <1>3 DEF Init, TypeOK, CloseStates

\* Every step keeps the types.
LEMMA TypeNext == TypeOK /\ [Next]_vars => TypeOK'
<1> SUFFICES ASSUME TypeOK, [Next]_vars PROVE TypeOK'
  OBVIOUS
<1>0. PipesTypeOK /\ ServerTypeOK /\ ClientTypeOK
  BY DEF TypeOK
<1> DEFINE CloseTypeOK ==
             /\ kpc \in CloseStates
             /\ closeErr \subseteq ServeErrs \cup {"StoreClose"}
             /\ storeOpen \in BOOLEAN
<1>p. ASSUME UNCHANGED pipeVars PROVE PipesTypeOK'
  BY <1>0, <1>p DEF pipeVars, PipesTypeOK
<1>s. ASSUME UNCHANGED serverVars PROVE ServerTypeOK'
  BY <1>0, <1>s DEF serverVars, ServerTypeOK
<1>c. ASSUME UNCHANGED clientVars PROVE ClientTypeOK'
  BY <1>0, <1>c DEF clientVars, ClientTypeOK
<1>k. ASSUME UNCHANGED closeVars PROVE CloseTypeOK'
  BY <1>k DEF closeVars, TypeOK
<1>1. CASE SendRequest
  <2>1. /\ Frame(call)[pos] \in ReqKinds
        /\ call.id \in Nat
        /\ Len(Frame(call)) \in Nat
    BY <1>0, <1>1, FrameFacts DEF ClientTypeOK, SendRequest, ClientWriting, Calls
  <2>2. ServerTypeOK'
    BY <1>0, <1>1, <2>1, ServerReadsType DEF SendRequest
  <2>3. Frame(call)' = Frame(call) /\ call' = call
    BY <1>1 DEF SendRequest, ClientWrote, Frame, Arguments
  <2>4. cpc' = "write" => (pos \in 1..Len(Frame(call)))'
    BY <1>0, <1>1, <2>1, <2>3 DEF SendRequest, ClientWrote, ClientWriting, ClientTypeOK
  <2>5. ClientTypeOK'
    BY <1>0, <1>1, <2>3, <2>4
       DEF SendRequest, ClientWriting, ClientWrote, ClientTypeOK, ClientStates, CallerStates
  <2> QED
    BY <1>1, <1>p, <1>k, <2>2, <2>5 DEF SendRequest, TypeOK
<1>2. CASE SendResponse
  <2>1. Head(sout) \in RespPackets /\ Tail(sout) \in Seq(RespPackets)
    BY <1>0, <1>2, HeadTailProperties DEF ServerTypeOK, SendResponse, ServerWriting
  <2>2. ServerTypeOK'
    BY <1>0, <1>2, <2>1 DEF SendResponse, ServerWrote, ServerTypeOK
  <2>3. ClientTypeOK'
    BY <1>0, <1>2, <2>1, ClientReadsType DEF SendResponse
  <2> QED
    BY <1>2, <1>p, <1>k, <2>2, <2>3 DEF SendResponse, TypeOK
<1>3. CASE ServerReadError
  <2>1. \A err \in ReadErrs : err \in ServeErrs
    BY <1>0, <1>3, PipeErrType DEF ServerReadError, ReadErrs, PipesTypeOK, ServeErrs, PipeErrs
  <2>2. ServerTypeOK'
    BY <1>0, <1>3, <2>1, ServerReturnType DEF ServerReadError, ServerReadFails, ServeErrs, PipeErrs
  <2> QED
    BY <1>3, <1>p, <1>c, <1>k, <2>2 DEF ServerReadError, TypeOK
<1>4. CASE ServerWriteError
  <2>1. WriteErr(s2c) \in ServeErrs
    BY <1>0, <1>4, PipeErrType DEF ServerWriteError, PipesTypeOK
  <2>2. ServerTypeOK'
    BY <1>0, <1>4, <2>1, ServerReturnType DEF ServerWriteError, ServerWriteFails
  <2> QED
    BY <1>4, <1>p, <1>c, <1>k, <2>2 DEF ServerWriteError, TypeOK
<1>5. CASE ServerInternal
  <2>1. CASE /\ ServerCheckCtx \/ ServerFinishes
             /\ UNCHANGED <<pipeVars, clientVars, closeVars>>
    <3>1. ASSUME ServerCheckCtx PROVE ServerTypeOK'
      BY <1>0, <3>1, ServerReturnType
         DEF ServerCheckCtx, PipesTypeOK, ServeErrs, ServerTypeOK, ServerStates
    <3>2. ASSUME ServerFinishes PROVE ServerTypeOK'
      BY <1>0, <3>2, ServerReturnType DEF ServerFinishes, ServeErrs, ServerTypeOK, ServerStates
    <3> QED
      BY <1>p, <1>c, <1>k, <2>1, <3>1, <3>2 DEF TypeOK
  <2>2. CASE /\ ServerClosesWriter \/ ServerClosesReader \/ ServerDone
             /\ UNCHANGED <<clientVars, closeVars>>
    <3>1. serr \in ServeErrs \cup {"nil"} /\ c2s \in Pipe /\ s2c \in Pipe
      BY <1>0 DEF ServerTypeOK, PipesTypeOK
    <3>2. CloseWriter(s2c, serr) \in Pipe /\ CloseReader(c2s, serr) \in Pipe
      BY <3>1, PipeCloseType
    <3>3. PipesTypeOK' /\ ServerTypeOK'
      BY <1>0, <2>2, <3>2 DEF ServerClosesWriter, ServerClosesReader, ServerDone, pipeVars,
         PipesTypeOK, ServerTypeOK, ServerStates
    <3> QED
      BY <1>c, <1>k, <2>2, <3>3 DEF TypeOK
  <2> QED
    BY <1>5, <2>1, <2>2 DEF ServerInternal
<1>6. CASE StoreFails
  <2>1. ServerTypeOK'
    BY <1>0, <1>6, ServerReturnType DEF StoreFails, ServerStoreFails, ServeErrs
  <2> QED
    BY <1>6, <1>p, <1>c, <1>k, <2>1 DEF StoreFails, TypeOK
<1>7. CASE ClientReadError
  <2>1. ReadErr(s2c) \in ServeErrs
    BY <1>0, <1>7, PipeErrType DEF ClientReadError, PipesTypeOK
  <2>2. ClientTypeOK'
    <3>1. CASE DialFails(ReadErr(s2c))
      BY <1>0, <2>1, <3>1 DEF DialFails, ClientTypeOK, ClientStates, CallerStates,
                              Results, Errs, ServeErrs, PipeErrs
    <3>2. CASE EndsWith("broke")
      BY <1>0, <3>2, EndsWithType DEF Results
    <3>3. CASE MarkDead(IF ReadErr(s2c) = "EOF" THEN "UnexpectedEOF" ELSE ReadErr(s2c))
      BY <1>0, <2>1, <3>3, MarkDeadType DEF ServeErrs, PipeErrs
    <3> QED
      BY <1>7, <3>1, <3>2, <3>3 DEF ClientReadError, ClientReadFails
  <2> QED
    BY <1>7, <1>p, <1>s, <1>k, <2>2 DEF ClientReadError, TypeOK
<1>8. CASE ClientWriteError
  <2>1. RootCause(WriteErr(c2s)) \in Results
    BY <1>0, <1>8, PipeErrType
       DEF ClientWriteError, PipesTypeOK, RootCause, ServerTypeOK, Results, Errs
  <2>2. ClientTypeOK'
    BY <1>0, <1>8, <2>1 DEF ClientWriteError, ClientWriteFails, CommandFails, ClientTypeOK,
                            ClientStates, CallerStates
  <2> QED
    BY <1>8, <1>p, <1>s, <1>k, <2>2 DEF ClientWriteError, TypeOK
<1>9. CASE PayloadRejected
  <2>1. ClientTypeOK'
    BY <1>0, <1>9 DEF PayloadRejected, ClientTooLarge, CommandFails, ClientTypeOK,
                      ClientStates, CallerStates, Results, Errs
  <2> QED
    BY <1>9, <1>p, <1>s, <1>k, <2>1 DEF PayloadRejected, TypeOK
<1>10. CASE CallerStep
  <2>1. ClientTypeOK'
    BY <1>0, <1>10, CallerStepType
  <2> QED
    BY <1>10, <1>p, <1>s, <1>k, <2>1 DEF CallerStep, TypeOK
<1>11. CASE DialContextEnds
  BY <1>0, <1>11, <1>s, <1>c, <1>k DEF DialContextEnds, PipesTypeOK, TypeOK
<1>12. CASE CloseStarts \/ CloseWaits \/ CloseStore
  <2>1. CloseTypeOK'
    BY <1>0, <1>12 DEF CloseStarts, CloseWaits, CloseStore, TypeOK, CloseStates, ServerTypeOK
  <2> QED
    BY <1>12, <1>p, <1>s, <1>c, <2>1 DEF CloseStarts, CloseWaits, CloseStore, TypeOK
<1>13. CASE \/ CloseCancels \/ CloseClientReader \/ CloseClientWriter
            \/ CloseServerReader \/ CloseServerWriter
  <2>1. /\ CloseReader(s2c, "nil") \in Pipe /\ CloseWriter(s2c, "nil") \in Pipe
        /\ CloseReader(c2s, "nil") \in Pipe /\ CloseWriter(c2s, "nil") \in Pipe
    BY <1>0, PipeCloseType DEF PipesTypeOK
  <2>2. PipesTypeOK' /\ CloseTypeOK'
    BY <1>0, <1>13, <2>1 DEF CloseCancels, CloseClientReader, CloseClientWriter,
       CloseServerReader, CloseServerWriter, PipesTypeOK, CtxErrs, TypeOK, CloseStates
  <2> QED
    BY <1>13, <1>s, <1>c, <2>2 DEF CloseCancels, CloseClientReader, CloseClientWriter,
       CloseServerReader, CloseServerWriter, TypeOK
<1>14. CASE CloseReturns
  <2>1. ClientTypeOK'
    BY <1>0, <1>14 DEF CloseReturns, ClientClosed, ClientTypeOK, ClientStates, CallerStates
  <2> QED
    BY <1>14, <1>p, <1>s, <1>k, <2>1 DEF CloseReturns, TypeOK
<1>15. CASE UNCHANGED vars
  BY <1>15, <1>p, <1>s, <1>c, <1>k DEF vars, TypeOK
<1> QED
  BY <1>1, <1>2, <1>3, <1>4, <1>5, <1>6, <1>7, <1>8, <1>9, <1>10, <1>11, <1>12, <1>13, <1>14, <1>15
     DEF Next, Transfer, ServerStep, ClientStep, CloseStep, Terminated

\* The variables of a file:// session keep their types, whatever the caller,
\* the repository and the scheduler do.
THEOREM TypeCorrect == Spec => []TypeOK
<1>1. Init => TypeOK
  BY TypeInit
<1>2. TypeOK /\ [Next]_vars => TypeOK'
  BY TypeNext
<1> QED
  BY <1>1, <1>2, PTL DEF Spec

(***************************************************************************)
(* Teardown.  What Close does is bound to where the goroutine is: this is  *)
(* the inductive strengthening of the two properties about it.             *)
(***************************************************************************)
TeardownInv ==
    /\ kpc \in {"store", "closed"} => spc = "done"
    /\ kpc = "closed" => ~storeOpen
    /\ kpc # "closed" => storeOpen
    /\ DeadIsClosed

\* The goroutine that is done takes no further step.
LEMMA DoneIsFinal ==
  ASSUME [Next]_vars, spc = "done"
  PROVE  spc' = "done"
<1>1. CASE Transfer
  BY <1>1 DEF Transfer, SendRequest, SendResponse, ServerReading, ServerWriting
<1>2. CASE ServerStep \/ StoreFails
  BY <1>2 DEF ServerStep, StoreFails, ServerInternal, ServerReadError, ServerWriteError,
     ServerCheckCtx, ServerFinishes, ServerClosesWriter, ServerClosesReader, ServerDone,
     ServerReadFails, ServerWriteFails, ServerStoreFails, ServerReading, ServerWriting
<1>3. CASE UNCHANGED serverVars
  BY <1>3 DEF serverVars
<1> QED
  BY <1>1, <1>2, <1>3
     DEF Next, vars, ClientStep, PayloadRejected, ClientReadError, ClientWriteError, CallerStep,
         DialContextEnds, CloseStarts, CloseStep, CloseCancels, CloseClientReader,
         CloseClientWriter, CloseServerReader, CloseServerWriter, CloseWaits, CloseStore,
         CloseReturns, Terminated

\* The session dies only on the way into Close, and leaves Close only when
\* the teardown is over.
LEMMA DeadNext ==
  ASSUME TeardownInv, [Next]_vars
  PROVE  \/ deadErr' = deadErr /\ (cpc' # cpc /\ cpc = "close" => kpc = "closed" /\ ~storeOpen)
         \/ cpc' = "close"
         \/ deadErr # "nil" /\ cpc # "close"
<1>1. CASE SendRequest
  BY <1>1 DEF SendRequest, ClientWrote, ClientWriting
<1>2. CASE SendResponse
  <2> USE DEF SendResponse
  <2>1. CASE ClientReadsAdvertisement(Head(sout))
    BY <2>1 DEF ClientReadsAdvertisement
  <2>2. CASE ClientReadsRef(Head(sout))
    BY <2>2 DEF ClientReadsRef, Deliver, EndsWith, MarkDead
  <2>3. CASE ClientDrains(Head(sout))
    BY <2>3 DEF ClientDrains, EndsWith, clientVars
  <2>4. CASE ClientReadsObjectInfo(Head(sout))
    BY <2>4 DEF ClientReadsObjectInfo, Deliver, EndsWith, MarkDead, clientVars
  <2> QED
    BY <1>2, <2>1, <2>2, <2>3, <2>4 DEF ClientReads
<1>3. CASE PayloadRejected \/ ClientWriteError
  BY <1>3 DEF PayloadRejected, ClientTooLarge, ClientWriteError, ClientWriteFails, ClientWriting,
              CommandFails
<1>4. CASE ClientReadError
  BY <1>4 DEF ClientReadError, ClientReadFails, DialFails, EndsWith, MarkDead
<1>5. CASE CallerStep
  BY <1>5 DEF CallerStep, CallRefs, CallObjectInfo, Answer, Command, RangeOver, Continue, Break,
              CallClose, IgnoreError
<1>6. CASE CloseReturns
  BY <1>6 DEF CloseReturns, ClientClosed, TeardownInv
<1>7. CASE UNCHANGED clientVars
  BY <1>7 DEF clientVars
<1> QED
  BY <1>1, <1>2, <1>3, <1>4, <1>5, <1>6, <1>7
     DEF Next, vars, Transfer, ClientStep, ServerStep, ServerInternal, ServerReadError,
         ServerWriteError, StoreFails, DialContextEnds, CloseStarts, CloseStep, CloseCancels,
         CloseClientReader, CloseClientWriter, CloseServerReader, CloseServerWriter, CloseWaits,
         CloseStore, Terminated

\* Close takes its steps in order, and touches the store in the last one.
LEMMA CloseNext ==
  ASSUME [Next]_vars
  PROVE  \/ kpc' = kpc /\ storeOpen' = storeOpen
         \/ /\ kpc' \notin {"store", "closed"} /\ kpc \notin {"store", "closed"}
            /\ storeOpen' = storeOpen
         \/ CloseWaits
         \/ CloseStore
<1>1. CASE CloseStarts \/ CloseStep
  BY <1>1 DEF CloseStarts, CloseStep, CloseCancels, CloseClientReader, CloseClientWriter,
              CloseServerReader, CloseServerWriter, CloseReturns, closeVars
<1>2. CASE UNCHANGED closeVars
  BY <1>2 DEF closeVars
<1> QED
  BY <1>1, <1>2
     DEF Next, vars, Transfer, SendRequest, SendResponse, ClientStep, PayloadRejected,
         ClientReadError, ClientWriteError, CallerStep, ServerStep, ServerInternal,
         ServerReadError, ServerWriteError, StoreFails, DialContextEnds, Terminated

\* Every step keeps the teardown invariant.
LEMMA TeardownNext ==
  ASSUME TeardownInv, [Next]_vars
  PROVE  TeardownInv'
<1>1. (kpc \in {"store", "closed"} => spc = "done")'
  BY CloseNext, DoneIsFinal DEF TeardownInv, CloseWaits, CloseStore, serverVars
<1>2. (kpc = "closed" => ~storeOpen)'
  BY CloseNext DEF TeardownInv, CloseWaits, CloseStore
<1>3. (kpc # "closed" => storeOpen)'
  BY CloseNext DEF TeardownInv, CloseWaits, CloseStore
<1>4. kpc = "closed" => kpc' = "closed"
  BY CloseNext DEF TeardownInv, CloseWaits, CloseStore
<1>5. DeadIsClosed'
  BY <1>2, <1>4, DeadNext DEF TeardownInv, DeadIsClosed
<1> QED
  BY <1>1, <1>2, <1>3, <1>5 DEF TeardownInv

\* The teardown invariant holds throughout.
LEMMA TeardownInvariant == Spec => []TeardownInv
<1>1. Init => TeardownInv
  BY DEF Init, ServerInit, ClientInit, TeardownInv, DeadIsClosed
<1>2. TeardownInv /\ [Next]_vars => TeardownInv'
  BY TeardownNext
<1> QED
  BY <1>1, <1>2, PTL DEF Spec

\* Conn.Close never closes the object store under the goroutine that reads
\* it, and does not return before that goroutine has ended, in whatever state
\* Close found the two of them and whoever called it.
THEOREM StoreOutlivesServerHolds == Spec => []StoreOutlivesServer
<1>1. TeardownInv => StoreOutlivesServer
  BY DEF TeardownInv, StoreOutlivesServer
<1> QED
  BY <1>1, TeardownInvariant, PTL

\* A caller that sees the error which killed its session sees it after the
\* connection is torn down: markDead closes before the error is returned.
THEOREM DeadIsClosedHolds == Spec => []DeadIsClosed
<1>1. TeardownInv => DeadIsClosed
  BY DEF TeardownInv
<1> QED
  BY <1>1, TeardownInvariant, PTL

-----------------------------------------------------------------------------
(***************************************************************************)
(* What a session carries: client and server stay in step, so that a call  *)
(* reads its own response and all of it, and what fails is reported as     *)
(* what it is.  These theorems are about a caller that closes the session  *)
(* after a failed Command and does so itself, as the session's             *)
(* documentation asks.                                                     *)
(***************************************************************************)

(***************************************************************************)
(* The pipes.  Who has closed which end, and with what.                    *)
(***************************************************************************)
Live == spc \in {"write", "loop", "first", "request", "args"}

PipeInv ==
    /\ c2s.werr \in {"nil", "EOF"} /\ s2c.rerr \in {"nil", "ClosedPipe"}
    /\ s2c.rerr # "nil" => kpc \notin {"open", "cancel", "clientReader"}
    /\ c2s.werr # "nil" => kpc \notin {"open", "cancel", "clientReader", "clientWriter"}
    /\ s2c.werr # "nil" => spc \in {"closing", "closed", "done"} \/ kpc \in {"wait", "store", "closed"}
    /\ c2s.rerr # "nil" => spc \in {"closed", "done"} \/ kpc \in {"serverWriter", "wait", "store", "closed"}
    /\ kpc = "open" /\ spc \in {"closing", "closed", "done"} =>
          s2c.werr = IF serr = "nil" THEN "EOF" ELSE serr
    /\ kpc = "open" /\ spc \in {"closed", "done"} =>
          c2s.rerr = IF serr = "nil" THEN "ClosedPipe" ELSE serr
    /\ Live => serr = "nil"

\* A goroutine that returns does so from one of its live states, with nothing
\* closed yet; one that is still live has no error.
LEMMA LiveNext ==
    ASSUME Live \/ Live' \/ serr' # serr, [Next]_vars, Live => serr = "nil"
    PROVE  /\ Live
           /\ Live' => serr' = "nil"
           /\ ~Live' => spc' = "returned"
           /\ UNCHANGED <<c2s, s2c>> \/ UNCHANGED <<spc, serr>>
<1>1. CASE SendRequest
  <2>1. CASE ServerReadsHead(Frame(call)[pos], call.id)
    BY <1>1, <2>1 DEF SendRequest, pipeVars, ServerReadsHead, Dispatch, Respond, Refuse, ServerReturn, Live
  <2>2. CASE ServerReadsArg(Frame(call)[pos])
    BY <1>1, <2>2 DEF SendRequest, pipeVars, ServerReadsArg, Respond, Refuse, ServerReturn, Live
  <2> QED
    BY <1>1, <2>1, <2>2 DEF SendRequest, ServerReads
<1>2. CASE SendResponse
  BY <1>2 DEF SendResponse, ServerWrote, ServerWriting, pipeVars, Live
<1>3. CASE ServerReadError \/ ServerWriteError \/ StoreFails
  BY <1>3 DEF ServerReadError, ServerReadFails, ServerReading, ServerWriteError, ServerWriteFails,
     ServerWriting, StoreFails, ServerStoreFails, ServerReturn, pipeVars, Live
<1>4. CASE ServerInternal
  BY <1>4 DEF ServerInternal, ServerCheckCtx, ServerFinishes, ServerClosesWriter, ServerClosesReader,
     ServerDone, ServerReturn, pipeVars, Live
<1>5. CASE UNCHANGED serverVars
  BY <1>5 DEF serverVars, Live
<1> QED
  BY <1>1, <1>2, <1>3, <1>4, <1>5
     DEF Next, vars, Transfer, ServerStep, ClientStep, PayloadRejected, ClientReadError, ClientWriteError,
         CallerStep, DialContextEnds, CloseStarts, CloseStep, CloseCancels, CloseClientReader,
         CloseClientWriter, CloseServerReader, CloseServerWriter, CloseWaits, CloseStore, CloseReturns,
         Terminated

\* What the steps do to the pipes and to the progress of the two sides.
LEMMA PipeSteps ==
    ASSUME TypeOK, [Next]_vars
    PROVE  \/ UNCHANGED <<c2s, s2c, kpc>> /\ spc' = spc /\ serr' = serr
           \/ UNCHANGED <<c2s, s2c, kpc>> /\ Live
           \/ ServerClosesWriter /\ UNCHANGED kpc
           \/ ServerClosesReader /\ UNCHANGED kpc
           \/ ServerDone /\ UNCHANGED kpc
           \/ CloseStarts \/ CloseCancels \/ CloseClientReader \/ CloseClientWriter
           \/ CloseServerReader \/ CloseServerWriter \/ CloseWaits \/ CloseStore
<1>1. CASE SendRequest \/ SendResponse
  BY <1>1 DEF SendRequest, SendResponse, ServerReading, ServerWriting, pipeVars, closeVars, Live
<1>2. CASE ServerReadError \/ ServerWriteError \/ StoreFails
  BY <1>2 DEF ServerReadError, ServerReadFails, ServerReading, ServerWriteError, ServerWriteFails,
     ServerWriting, StoreFails, ServerStoreFails, pipeVars, closeVars, Live
<1>3. CASE ServerInternal
  BY <1>3 DEF ServerInternal, ServerCheckCtx, ServerFinishes, pipeVars, closeVars, Live
<1>4. CASE UNCHANGED <<c2s, s2c, serverVars, closeVars>>
  BY <1>4 DEF serverVars, closeVars
<1> QED
  BY <1>1, <1>2, <1>3, <1>4
     DEF Next, vars, Transfer, ServerStep, ClientStep, PayloadRejected, ClientReadError, ClientWriteError,
         CallerStep, DialContextEnds, CloseStep, CloseReturns, Terminated, pipeVars

\* Every step keeps the pipes as the two ends left them.
LEMMA PipeInvNext ==
    ASSUME TypeOK, PipeInv, [Next]_vars
    PROVE  PipeInv'
<1>0. c2s \in Pipe /\ s2c \in Pipe /\ serr \in ServeErrs \cup {"nil"}
  BY DEF TypeOK, PipesTypeOK, ServerTypeOK
<1>1. (Live => serr = "nil")'
  <2>1. CASE Live \/ Live'
    BY <2>1, LiveNext DEF PipeInv
  <2> QED
    BY <2>1
<1>2. CASE UNCHANGED <<c2s, s2c, kpc>> /\ spc' = spc /\ serr' = serr
  BY <1>1, <1>2 DEF PipeInv
<1>3. CASE UNCHANGED <<c2s, s2c, kpc>> /\ Live
  <2>1. spc' \in {"returned", "write", "loop", "first", "request", "args"}
    BY <1>3, LiveNext DEF PipeInv, Live
  <2> QED
    BY <1>1, <1>3, <2>1 DEF PipeInv, Live
<1>4. CASE ServerClosesWriter /\ UNCHANGED kpc
  BY <1>0, <1>1, <1>4 DEF ServerClosesWriter, CloseWriter, PipeInv, Pipe, ServeErrs
<1>5. CASE ServerClosesReader /\ UNCHANGED kpc
  BY <1>0, <1>1, <1>5 DEF ServerClosesReader, CloseReader, PipeInv, Pipe, ServeErrs
<1>6. CASE ServerDone /\ UNCHANGED kpc
  BY <1>1, <1>6 DEF ServerDone, pipeVars, PipeInv
<1>7. CASE CloseStarts \/ CloseCancels \/ CloseWaits \/ CloseStore
  BY <1>1, <1>7 DEF CloseStarts, CloseCancels, CloseWaits, CloseStore, pipeVars, serverVars, PipeInv
<1>8. CASE CloseClientReader \/ CloseClientWriter
  BY <1>0, <1>1, <1>8 DEF CloseClientReader, CloseClientWriter, CloseReader, CloseWriter, serverVars,
     PipeInv, Pipe
<1>9. CASE CloseServerReader \/ CloseServerWriter
  BY <1>0, <1>1, <1>9 DEF CloseServerReader, CloseServerWriter, CloseReader, CloseWriter, serverVars,
     PipeInv, Pipe
<1> QED
  BY <1>2, <1>3, <1>4, <1>5, <1>6, <1>7, <1>8, <1>9, PipeSteps

(***************************************************************************)
(* The inductive invariant of the conversation.  While the goroutine is    *)
(* live and the caller is not inside Close, the two stand at matching      *)
(* places of the protocol.                                                 *)
(***************************************************************************)
\* Nothing is left to write and no request has been begun.
Resting == spc \in {"loop", "first"} \/ (spc = "write" /\ sout = <<>>)

\* The request the server holds is the caller's.
Serving == sreq.op = call.op /\ sreq.id = call.id

\* Together with what the caller has, what is left is the whole response.
RefsLeft ==
    /\ Len(got) + Len(sout) = sreq.n + 1
    /\ \A i \in 1..(Len(sout) - 1) : sout[i] = Resp("line", call.id, Len(got) + i)

InStep ==
    Live =>
      /\ cpc = "dial" => spc = "write" /\ FlushEnds(sout)
      /\ cpc = "idle" => Resting
      /\ cpc = "write" => \/ pos = 1 /\ Resting
                          \/ pos \in {2, 3} /\ spc = "request" /\ Serving
                          \/ pos >= 4 /\ spc = "args" /\ Serving
      /\ cpc \in {"iter", "read", "yield", "drain", "decode"} =>
            spc = "write" /\ Serving /\ FlushEnds(sout)
      /\ cpc \in {"iter", "read", "yield"} => RefsLeft

\* The server is inside a request only while the caller writes it, or has
\* given it up at an argument that is too large.
Parked ==
    /\ snext # "args"
    /\ spc = "request" => cpc = "write"
    /\ spc = "args" => cpc = "write" \/ (result = "TooLarge" /\ cpc \in {"failed", "close"})

\* The calls a Session makes, and where the caller can be in them.
CallInv ==
    /\ call.op = "ls-refs" => ~call.size /\ call.args \in Seq({"prefix", "big"})
    /\ call.op = "object-info" => call.args \in Seq(OidKinds \cup {"big"})
    /\ cpc = "write" => got = <<>>
    /\ cpc = "decode" => call.op = "object-info"
    /\ cpc \in {"dial", "write", "iter", "read", "yield", "drain", "decode", "failed"} => result # "ok"
    /\ cpc = "close" /\ cret \in {"iter", "yield", "failed"} => result # "ok"

\* Only the caller itself closes.
Closer == kpc \notin {"open", "closed"} => cpc = "close"

\* What Serve can have returned, and why it was cut short.
Faults ==
    /\ serr \in {"nil", "Canceled", "DeadlineExceeded", "ClosedPipe", "Store", "Refused", "UnexpectedEOF"}
    /\ serr = "UnexpectedEOF" /\ kpc # "closed" => cpc = "close" /\ result = "TooLarge"
    /\ closeErr \subseteq {"Store", "Refused", "StoreClose", "DeadlineExceeded", "UnexpectedEOF"}
    /\ "UnexpectedEOF" \in closeErr => serr = "UnexpectedEOF"

StreamInv == InStep /\ Parked /\ CallInv /\ Closer /\ Faults /\ RefsComplete

(***************************************************************************)
(* A packet changes hands.                                                 *)
(***************************************************************************)
\* An argument line of a request is one its handler knows, unless it is too
\* large to be written.
LEMMA ArgumentKnown ==
    ASSUME TypeOK, CallInv, cpc = "write", pos >= 4, Frame(call)[pos] # "big"
    PROVE  \/ pos = Len(Frame(call)) /\ Frame(call)[pos] = "flush"
           \/ /\ pos < Len(Frame(call))
              /\ \/ call.op = "ls-refs" /\ Frame(call)[pos] = "prefix"
                 \/ call.op = "object-info" /\ Frame(call)[pos] \in OidKinds \cup {"size"}
<1>1. call \in Calls /\ call.op \in Ops /\ pos \in 1..Len(Frame(call))
  BY DEF TypeOK, ClientTypeOK
<1>m. PICK m \in Nat : m = Len(Frame(call))
  BY <1>1, FrameFacts
<1>2. CASE pos = m
  BY <1>1, <1>2, <1>m, FrameFacts
<1>3. CASE pos # m
  <2>1. pos \in 4..(m - 1) /\ pos < m
    BY <1>1, <1>3, <1>m
  <2>2. \/ call.size /\ Frame(call)[pos] = "size"
        \/ \E j \in 1..Len(call.args) : Frame(call)[pos] = call.args[j]
    BY <1>1, <1>m, <2>1, FrameFacts
  <2>3. CASE call.op = "ls-refs"
    BY <1>m, <2>1, <2>2, <2>3 DEF CallInv
  <2>4. CASE call.op = "object-info"
    BY <1>m, <2>1, <2>2, <2>4 DEF CallInv
  <2> QED
    BY <1>1, <2>3, <2>4 DEF Ops
<1> QED
  BY <1>2, <1>3

\* The handler answers the request it has read.
LEMMA RespondInStep ==
    ASSUME TypeOK, Serving, got = << >>, UNCHANGED <<call, got>>, Respond(sreq)
    PROVE  /\ spc' = "write" /\ serr' = serr /\ snext' # "args"
           /\ Serving' /\ FlushEnds(sout')
           /\ call.op = "ls-refs" => RefsLeft'
<1>1. sreq \in Requests /\ call.id = sreq.id /\ sreq.id \in Nat
  BY DEF TypeOK, ServerTypeOK, Requests, Serving
<1>2. CASE sreq.op = "ls-refs"
  <2>1. PICK n \in 0..MaxLines :
           /\ sreq' = [sreq EXCEPT !.n = n]
           /\ sout' = Lines(sreq.id, n) \o << Resp("flush", sreq.id, 0) >>
    BY <1>2 DEF Respond
  <2>2. n \in Nat
    BY <2>1, MaxLinesAssumption
  <2>3. /\ sout' \in Seq(RespPackets) /\ FlushEnds(sout') /\ Len(sout') = n + 1
        /\ \A i \in 1..n : sout'[i] = Resp("line", sreq.id, i)
    BY ZenonT(30), <1>1, <2>1, <2>2, LSRefsFlush
  <2>4. sreq'.n = n /\ sreq'.op = sreq.op /\ sreq'.id = sreq.id
    BY <1>1, <2>1 DEF Requests
  <2>5. Len(got') = 0 /\ n + 1 - 1 = n
    BY <2>2
  <2>6. RefsLeft'
    BY <1>1, <2>2, <2>3, <2>4, <2>5 DEF RefsLeft
  <2> QED
    BY <1>2, <2>3, <2>4, <2>6 DEF Respond, Serving
<1>3. CASE sreq.op = "object-info"
  BY <1>1, <1>3, ObjectInfoFlush DEF Respond, Serving
<1> QED
  BY <1>2, <1>3 DEF Respond

\* A request packet taken by the server moves both sides to the next place.
LEMMA RequestInStep ==
    ASSUME TypeOK, InStep, Parked, CallInv, SendRequest
    PROVE  /\ UNCHANGED <<call, cret, got, result, deadErr, serr, version>>
           /\ Serving' /\ snext' # "args"
           /\ \/ cpc' = "write" /\ pos' \in {2, 3} /\ spc' = "request"
              \/ cpc' = "write" /\ pos' >= 4 /\ spc' = "args"
              \/ /\ cpc' = IF call.op = "ls-refs" THEN "iter" ELSE "decode"
                 /\ spc' = "write" /\ FlushEnds(sout')
                 /\ call.op = "ls-refs" => RefsLeft'
<1>0. /\ cpc = "write" /\ ServerReading /\ Live /\ Frame(call)[pos] # "big"
      /\ UNCHANGED <<call, cret, got, result, deadErr>> /\ pos' = pos + 1
      /\ cpc' = IF pos < Len(Frame(call)) THEN "write"
                ELSE IF call.op = "ls-refs" THEN "iter" ELSE "decode"
      /\ ServerReads(Frame(call)[pos], call.id)
  BY DEF SendRequest, ClientWriting, ClientWrote, ServerReading, Live
<1>1. /\ call \in Calls /\ call.op \in Ops /\ pos \in 1..Len(Frame(call)) /\ pos \in Nat
      /\ sreq \in Requests
  BY <1>0 DEF TypeOK, ClientTypeOK, ServerTypeOK
<1>2. /\ Len(Frame(call)) \in Nat /\ Len(Frame(call)) >= 4
      /\ Frame(call)[1] = call.op /\ Frame(call)[2] = "cap" /\ Frame(call)[3] = "delim"
  BY <1>1, FrameFacts
<1>3. \/ pos = 1 /\ spc = "first"
      \/ pos \in {2, 3} /\ spc = "request" /\ Serving
      \/ pos >= 4 /\ spc = "args" /\ Serving
  BY <1>0 DEF InStep, Resting, ServerReading
<1>4. CASE pos = 1 /\ spc = "first"
  <2>1. cpc' = "write" /\ pos' = 2
    BY <1>0, <1>2, <1>4
  <2>2. /\ spc' = "request" /\ sreq' = [NoRequest EXCEPT !.op = call.op, !.id = call.id, !.seen = TRUE]
        /\ UNCHANGED <<version, sout, snext, serr>>
    BY <1>0, <1>1, <1>2, <1>4
       DEF ServerReads, ServerReadsHead, ServerReadsArg, Fresh, Ops, CommandLines, ControlKinds, NoRequest
  <2> QED
    BY <1>0, <2>1, <2>2 DEF Serving, NoRequest, Parked
<1>5. CASE pos = 2 /\ spc = "request" /\ Serving
  <2>1. cpc' = "write" /\ pos' = 3
    BY <1>0, <1>2, <1>5
  <2>2. spc' = "request" /\ sreq' = [sreq EXCEPT !.seen = TRUE] /\ UNCHANGED <<version, sout, snext, serr>>
    BY <1>0, <1>1, <1>2, <1>5
       DEF ServerReads, ServerReadsHead, ServerReadsArg, Fresh, Ops, CommandLines, ControlKinds
  <2> QED
    BY <1>0, <1>1, <1>5, <2>1, <2>2 DEF Serving, Requests, Parked
<1>6. CASE pos = 3 /\ spc = "request" /\ Serving
  <2>1. cpc' = "write" /\ pos' = 4
    BY <1>0, <1>2, <1>6
  <2>2. Dispatch(sreq, "delim")
    BY <1>0, <1>1, <1>2, <1>6
       DEF ServerReads, ServerReadsHead, ServerReadsArg, Fresh, Ops, CommandLines, ControlKinds
  <2>3. spc' = "args" /\ sreq' = sreq /\ UNCHANGED <<version, sout, snext, serr>>
    BY <1>1, <1>6, <2>2 DEF Dispatch, Serving, Ops
  <2> QED
    BY <1>0, <1>6, <2>1, <2>3 DEF Serving, Parked
<1>7. CASE pos >= 4 /\ spc = "args" /\ Serving
  <2>0. ServerReadsArg(Frame(call)[pos])
    BY <1>0, <1>7 DEF ServerReads, ServerReadsHead
  <2>1. CASE pos = Len(Frame(call)) /\ Frame(call)[pos] = "flush"
    <3>1. Respond(sreq) /\ got = << >>
      BY <1>0, <2>0, <2>1 DEF ServerReadsArg, OidKinds, CallInv
    <3>2. cpc' = IF call.op = "ls-refs" THEN "iter" ELSE "decode"
      BY <1>0, <1>2, <2>1
    <3> QED
      BY <1>0, <1>7, <3>1, <3>2, RespondInStep DEF Respond
  <2>2. CASE /\ pos < Len(Frame(call))
             /\ \/ call.op = "ls-refs" /\ Frame(call)[pos] = "prefix"
                \/ call.op = "object-info" /\ Frame(call)[pos] \in OidKinds \cup {"size"}
    <3>1. cpc' = "write" /\ pos' >= 4
      BY <1>0, <1>1, <1>7, <2>2
    <3>2. /\ spc' = "args" /\ UNCHANGED <<version, sout, snext, serr>>
          /\ \/ sreq' = [sreq EXCEPT !.args = Append(@, Frame(call)[pos])]
             \/ sreq' = [sreq EXCEPT !.size = TRUE]
      BY <1>7, <2>0, <2>2 DEF ServerReadsArg, OidKinds, Serving
    <3>3. sreq'.op = sreq.op /\ sreq'.id = sreq.id
      BY <1>1, <3>2 DEF Requests
    <3> QED
      BY <1>0, <1>7, <3>1, <3>2, <3>3 DEF Serving, Parked
  <2> QED
    BY <1>0, <1>7, <2>1, <2>2, ArgumentKnown
<1> QED
  BY <1>3, <1>4, <1>5, <1>6, <1>7

\* One more line of a response.
LEMMA LinesAppend ==
    ASSUME NEW id \in Nat, NEW n \in Nat
    PROVE  Append(Lines(id, n), Resp("line", id, n + 1)) = Lines(id, n + 1)
<1>l. PICK l : l = Lines(id, n)
  OBVIOUS
<1>k. PICK k : k = Lines(id, n + 1)
  OBVIOUS
<1>r. PICK r : r = Resp("line", id, n + 1)
  OBVIOUS
<1>1. l \in Seq(RespPackets) /\ Len(l) = n /\ \A i \in 1..n : l[i] = Resp("line", id, i)
  BY <1>l, LinesType
<1>2. k \in Seq(RespPackets) /\ Len(k) = n + 1 /\ \A i \in 1..(n + 1) : k[i] = Resp("line", id, i)
  <2>1. n + 1 \in Nat
    OBVIOUS
  <2> QED
    BY <1>k, <2>1, LinesType
<1>3. r \in RespPackets
  BY <1>r DEF Resp, RespPackets, RespKinds
<1>a. PICK a : a = Append(l, r)
  OBVIOUS
<1>4. a \in Seq(RespPackets) /\ Len(a) = n + 1 /\ a[n + 1] = r /\ \A i \in 1..n : a[i] = l[i]
  BY <1>1, <1>3, <1>a, AppendProperties
<1>5. \A i \in 1..(n + 1) : a[i] = k[i]
  <2>1. ASSUME NEW i \in 1..(n + 1) PROVE a[i] = k[i]
    <3>1. CASE i = n + 1
      BY <1>2, <1>4, <1>r, <3>1
    <3>2. CASE i # n + 1
      <4>1. i \in 1..n
        BY <3>2
      <4> QED
        BY <1>1, <1>2, <1>4, <4>1
    <3> QED
      BY <3>1, <3>2
  <2> QED
    BY <2>1
<1>6. a = k
  BY <1>2, <1>4, <1>5, SeqEqual
<1> QED
  BY <1>6, <1>a, <1>k, <1>l, <1>r

\* While the caller reads refs, the packet at hand is the next line of the
\* response to its call, or the flush after the last one.
LEMMA RefAtHand ==
    ASSUME TypeOK, FlushEnds(sout), RefsLeft, Len(got) \in Nat
    PROVE  \/ Head(sout).kind = "flush" /\ Len(got) = sreq.n
           \/ Head(sout) = Resp("line", call.id, Len(got) + 1) /\ Len(sout) > 1
<1>1. sout \in Seq(RespPackets) /\ sreq.n \in Nat
  BY DEF TypeOK, ServerTypeOK, Requests
<1>2. Head(sout) = sout[1] /\ Len(sout) >= 1 /\ (Head(sout).kind = "flush" => Len(sout) = 1)
  BY <1>1, FlushAfterTail
<1>m. PICK m \in Nat : m = Len(sout)
  BY <1>1, LenProperties
<1>3. CASE m = 1
  <2>1. sout[1].kind = "flush"
    BY <1>3, <1>m DEF FlushEnds
  <2> QED
    BY <1>1, <1>2, <1>3, <1>m, <2>1 DEF RefsLeft
<1>4. CASE m # 1
  <2>1. 1 \in 1..(m - 1)
    BY <1>2, <1>4, <1>m
  <2> QED
    BY <1>2, <1>4, <1>m, <2>1 DEF RefsLeft
<1> QED
  BY <1>3, <1>4

\* A ref line moves from what is left to what the caller has.
LEMMA LineDelivered ==
    ASSUME TypeOK, FlushEnds(sout), RefsLeft, Head(sout).kind = "line",
           sout' = Tail(sout), got' = Append(got, Head(sout)), UNCHANGED <<call, sreq>>
    PROVE  /\ RefsLeft' /\ FlushEnds(sout')
           /\ got = Lines(call.id, Len(got)) => got' = Lines(call.id, Len(got'))
<1>1. sout \in Seq(RespPackets) /\ sreq.n \in Nat /\ got \in Seq(RespPackets) /\ call.id \in Nat
  BY DEF TypeOK, ServerTypeOK, ClientTypeOK, Requests, Calls
<1>m. PICK m \in Nat : m = Len(sout)
  BY <1>1, LenProperties
<1>k. PICK k \in Nat : k = Len(got)
  BY <1>1, LenProperties
<1>2. /\ Head(sout) \in RespPackets
      /\ FlushEnds(sout') /\ Len(sout') = m - 1 /\ m >= 1
      /\ \A i \in 1..(m - 1) : sout'[i] = sout[i + 1]
  BY <1>1, <1>m, FlushAfterTail
<1>3. Head(sout) = Resp("line", call.id, k + 1) /\ m > 1
  BY <1>k, <1>m, RefAtHand
<1>4. Len(got') = k + 1
  BY <1>1, <1>2, <1>k, AppendProperties
<1>5. RefsLeft'
  <2>1. k + m = sreq.n + 1 /\ \A i \in 1..(m - 1) : sout[i] = Resp("line", call.id, k + i)
    BY <1>k, <1>m DEF RefsLeft
  <2>2. k + 1 + (m - 1) = sreq.n + 1
    BY <1>1, <2>1
  <2>3. ASSUME NEW i \in 1..(m - 1 - 1) PROVE sout'[i] = Resp("line", call.id, k + 1 + i)
    <3>1. i \in 1..(m - 1) /\ i + 1 \in 1..(m - 1) /\ k + (i + 1) = k + 1 + i
      BY <1>3
    <3> QED
      BY <1>2, <2>1, <3>1
  <2> QED
    BY <1>2, <1>4, <2>2, <2>3 DEF RefsLeft
<1>6. ASSUME got = Lines(call.id, k) PROVE got' = Lines(call.id, k + 1)
  BY <1>1, <1>3, <1>6, LinesAppend
<1> QED
  BY <1>2, <1>4, <1>5, <1>6, <1>k

\* A response packet taken by the caller keeps the two in step.
LEMMA ResponseInStep ==
    ASSUME TypeOK, InStep, CallInv, TeardownInv, RefsComplete, SendResponse
    PROVE  InStep' /\ RefsComplete'
<1>0. /\ spc = "write" /\ Live /\ sout # << >> /\ sout' = Tail(sout)
      /\ UNCHANGED <<version, spc, sreq, snext, serr>>
      /\ ClientReads(Head(sout)) /\ ClientReading
  BY DEF SendResponse, ServerWriting, ServerWrote, Live
<1>1. sout \in Seq(RespPackets) /\ got \in Seq(RespPackets) /\ Len(got) \in Nat
  BY LenProperties DEF TypeOK, ServerTypeOK, ClientTypeOK
<1>2. FlushEnds(sout) /\ (cpc # "dial" => Serving)
  BY <1>0 DEF InStep, ClientReading
<1>3. /\ Head(sout).kind = "flush" => sout' = << >>
      /\ Head(sout).kind # "flush" => FlushEnds(sout')
  BY <1>0, <1>1, <1>2, FlushAfterTail
<1>4. deadErr = "nil" \/ cpc = "close"
  BY <1>0 DEF TeardownInv, DeadIsClosed
<1>5. CASE ClientReadsAdvertisement(Head(sout))
  <2>1. /\ cpc' = IF Head(sout).kind = "flush" THEN "idle" ELSE "dial"
        /\ UNCHANGED <<call, got, result>>
    BY <1>5 DEF ClientReadsAdvertisement
  <2>2. InStep'
    BY <1>0, <1>3, <2>1 DEF InStep, Resting, Live
  <2> QED
    BY <1>0, <2>1, <2>2 DEF RefsComplete
<1>6. CASE ClientReadsRef(Head(sout))
  <2>0. cpc = "read" /\ RefsLeft
    BY <1>0, <1>6 DEF ClientReadsRef, InStep
  <2>1. CASE Head(sout).kind = "flush"
    <3>1. cpc' = "idle" /\ result' = "ok" /\ UNCHANGED <<call, got>> /\ sout' = << >>
      BY <1>3, <1>6, <2>1 DEF ClientReadsRef, EndsWith
    <3>2. Len(got) = sreq.n
      BY <1>1, <1>2, <2>0, <2>1, RefAtHand DEF Resp
    <3> QED
      BY <1>0, <1>2, <2>0, <3>1, <3>2 DEF InStep, Resting, RefsComplete, Serving
  <2>2. CASE Head(sout).kind = "line"
    <3>1. cpc' = "yield" /\ got' = Append(got, Head(sout)) /\ UNCHANGED <<call, result>>
      BY <1>6, <2>2 DEF ClientReadsRef, Deliver
    <3>2. /\ RefsLeft' /\ FlushEnds(sout')
          /\ got = Lines(call.id, Len(got)) => got' = Lines(call.id, Len(got'))
      BY <1>0, <1>2, <2>0, <2>2, <3>1, LineDelivered
    <3>3. InStep'
      BY <1>0, <1>2, <2>0, <3>1, <3>2 DEF InStep, Serving
    <3>4. RefsComplete'
      BY <1>0, <2>0, <3>1, <3>2 DEF RefsComplete, CallInv
    <3> QED
      BY <3>3, <3>4
  <2> QED
    BY <1>1, <1>2, <2>0, <2>1, <2>2, RefAtHand DEF Resp
<1>7. CASE ClientDrains(Head(sout))
  <2>1. CASE Head(sout).kind = "flush"
    BY <1>0, <1>3, <1>7, <2>1 DEF ClientDrains, EndsWith, InStep, Resting, RefsComplete
  <2>2. CASE Head(sout).kind # "flush"
    BY <1>0, <1>2, <1>3, <1>7, <2>2 DEF ClientDrains, clientVars, InStep, Serving, RefsComplete
  <2> QED
    BY <2>1, <2>2
<1>8. CASE ClientReadsObjectInfo(Head(sout))
  <2>0. cpc = "decode" /\ call.op = "object-info" /\ call' = call
    BY <1>8 DEF ClientReadsObjectInfo, CallInv, Deliver, clientVars, EndsWith, MarkDead
  <2>1. CASE Head(sout).kind = "flush"
    <3>1. cpc' = "idle" /\ sout' = << >>
      BY <1>3, <1>8, <2>1 DEF ClientReadsObjectInfo, EndsWith
    <3> QED
      BY <1>0, <2>0, <3>1 DEF InStep, Resting, RefsComplete
  <2>2. CASE Head(sout).kind # "flush"
    <3>1. cpc' \in {"decode", "close"}
      BY <1>4, <1>8, <2>0, <2>2 DEF ClientReadsObjectInfo, Deliver, clientVars, MarkDead
    <3> QED
      BY <1>0, <1>2, <1>3, <2>0, <2>2, <3>1 DEF InStep, Serving, RefsComplete
  <2> QED
    BY <2>1, <2>2
<1> QED
  BY <1>0, <1>5, <1>6, <1>7, <1>8 DEF ClientReads

(***************************************************************************)
(* Every step keeps the two in step.                                       *)
(***************************************************************************)
\* While the goroutine is live and the caller not inside Close, both pipes
\* are open.
LEMMA PipesOpen ==
    ASSUME PipeInv, TeardownInv, Closer, Live, cpc # "close"
    PROVE  kpc = "open" /\ ~Closed(c2s) /\ ~Closed(s2c)
BY DEF PipeInv, TeardownInv, Closer, Live, Closed

\* Packets that change hands.
LEMMA TransferKeeps ==
    ASSUME TypeOK, PipeInv, TeardownInv, StreamInv, Transfer
    PROVE  StreamInv'
<1>0. InStep /\ Parked /\ CallInv /\ Closer /\ Faults /\ RefsComplete
  BY DEF StreamInv
<1>1. CASE SendRequest
  <2>1. /\ UNCHANGED <<call, cret, got, result, deadErr, serr, version>>
        /\ Serving' /\ snext' # "args"
        /\ \/ cpc' = "write" /\ pos' \in {2, 3} /\ spc' = "request"
           \/ cpc' = "write" /\ pos' >= 4 /\ spc' = "args"
           \/ /\ cpc' = IF call.op = "ls-refs" THEN "iter" ELSE "decode"
              /\ spc' = "write" /\ FlushEnds(sout')
              /\ call.op = "ls-refs" => RefsLeft'
    BY <1>0, <1>1, RequestInStep
  <2>2. cpc = "write" /\ Live /\ call.op \in Ops /\ UNCHANGED <<kpc, closeErr>>
    BY <1>1 DEF SendRequest, ClientWriting, ServerReading, Live, TypeOK, ClientTypeOK, closeVars
  <2>3. InStep'
    BY <2>1 DEF InStep
  <2>4. Parked'
    BY <2>1 DEF Parked
  <2>5. CallInv' /\ RefsComplete'
    BY <1>0, <2>1, <2>2 DEF CallInv, RefsComplete, Ops
  <2>6. kpc = "open"
    BY <1>0, <2>2, PipesOpen
  <2>7. serr = "nil"
    BY <2>2 DEF PipeInv
  <2>8. Closer' /\ Faults'
    BY <1>0, <2>1, <2>2, <2>6, <2>7 DEF Closer, Faults
  <2> QED
    BY <2>3, <2>4, <2>5, <2>8 DEF StreamInv
<1>2. CASE SendResponse
  <2>0. /\ spc = "write" /\ Live /\ cpc # "close" /\ UNCHANGED <<kpc, closeErr, spc, snext, serr>>
        /\ ClientReads(Head(sout))
    BY <1>2 DEF SendResponse, ServerWriting, ServerWrote, ClientReading, Live, closeVars
  <2>1. InStep' /\ RefsComplete'
    BY <1>0, <1>2, ResponseInStep
  <2>2. Parked'
    BY <1>0, <2>0 DEF Parked
  <2>3. kpc = "open" /\ serr = "nil"
    BY <1>0, <2>0, PipesOpen DEF PipeInv
  <2>4. Closer' /\ Faults'
    BY <1>0, <2>0, <2>3 DEF Closer, Faults
  <2>5. CallInv'
    <3>1. CASE ClientReadsAdvertisement(Head(sout))
      BY <1>0, <3>1 DEF ClientReadsAdvertisement, CallInv
    <3>2. CASE ClientReadsRef(Head(sout))
      BY <1>0, <3>2 DEF ClientReadsRef, Deliver, EndsWith, MarkDead, CallInv
    <3>3. CASE ClientDrains(Head(sout))
      BY <1>0, <3>3 DEF ClientDrains, EndsWith, clientVars, CallInv
    <3>4. CASE ClientReadsObjectInfo(Head(sout))
      BY <1>0, <3>4 DEF ClientReadsObjectInfo, Deliver, EndsWith, MarkDead, clientVars, CallInv
    <3> QED
      BY <2>0, <3>1, <3>2, <3>3, <3>4 DEF ClientReads
  <2> QED
    BY <2>1, <2>2, <2>4, <2>5 DEF StreamInv
<1> QED
  BY <1>1, <1>2 DEF Transfer

\* Serve returns.
LEMMA ReturnKeeps ==
    ASSUME TypeOK, PipeInv, TeardownInv, StreamInv, NEW err, ServerReturn(err), Live,
           UNCHANGED <<clientVars, closeVars>>,
           err \in {"nil", "Canceled", "DeadlineExceeded", "ClosedPipe", "Store", "Refused"}
             \/ (err = "UnexpectedEOF" /\ cpc = "close" /\ result = "TooLarge")
    PROVE  StreamInv'
<1>1. spc' = "returned" /\ serr' = err /\ UNCHANGED <<version, sreq, snext>>
  BY DEF ServerReturn
<1>2. UNCHANGED <<cpc, cret, call, got, result, kpc, closeErr>>
  BY DEF clientVars, closeVars
<1>3. serr = "nil"
  BY DEF PipeInv
<1>4. InStep' /\ Parked'
  BY <1>1 DEF InStep, Live, Parked, StreamInv
<1>5. CallInv' /\ Closer' /\ RefsComplete'
  BY <1>1, <1>2 DEF CallInv, Closer, RefsComplete, StreamInv
<1>6. Faults'
  BY <1>1, <1>2, <1>3 DEF Faults, StreamInv
<1> QED
  BY <1>4, <1>5, <1>6 DEF StreamInv

\* The goroutine's own steps.
LEMMA ServerKeeps ==
    ASSUME TypeOK, PipeInv, TeardownInv, StreamInv, ServerStep \/ StoreFails
    PROVE  StreamInv'
<1>0. InStep /\ Parked /\ CallInv /\ Closer /\ Faults /\ RefsComplete
  BY DEF StreamInv
<1>1. CASE ServerReadError
  <2>1. Live /\ ServerReading /\ Closed(c2s) /\ UNCHANGED <<clientVars, closeVars>>
    BY <1>1 DEF ServerReadError, ServerReadFails, ServerReading, Live
  <2>2. cpc = "close"
    BY <1>0, <2>1, PipesOpen
  <2>3. ReadErrs = {ReadErr(c2s)}
    BY <2>2 DEF ReadErrs, ClientWriting
  <2>4. ReadErr(c2s) \in {"EOF", "ClosedPipe"}
    BY <2>1 DEF ReadErr, PipeInv, Closed
  <2>5. PICK err \in {"EOF", "ClosedPipe"} : ServerReadFails(err)
    BY <1>1, <2>3, <2>4 DEF ServerReadError
  <2>6. spc # "request" /\ (spc = "args" => result = "TooLarge")
    BY <1>0, <2>2 DEF Parked
  <2>7. \/ ServerReturn("nil") \/ ServerReturn("ClosedPipe")
        \/ ServerReturn("UnexpectedEOF") /\ result = "TooLarge"
    BY <2>5, <2>6 DEF ServerReadFails, ServerReading
  <2> QED
    BY <2>1, <2>2, <2>7, ReturnKeeps
<1>2. CASE ServerWriteError
  <2>1. Live /\ Closed(s2c) /\ UNCHANGED <<clientVars, closeVars>> /\ ServerReturn(WriteErr(s2c))
    BY <1>2 DEF ServerWriteError, ServerWriteFails, ServerWriting, Live
  <2>2. WriteErr(s2c) = "ClosedPipe"
    BY <2>1 DEF WriteErr, PipeInv, Closed
  <2> QED
    BY <2>1, <2>2, ReturnKeeps
<1>3. CASE StoreFails
  <2>1. Live /\ UNCHANGED <<clientVars, closeVars>> /\ ServerReturn("Store")
    BY <1>3 DEF StoreFails, ServerStoreFails, ServerWriting, Live
  <2> QED
    BY <2>1, ReturnKeeps
<1>4. CASE ServerCheckCtx \/ ServerFinishes
  <2>0. UNCHANGED <<clientVars, closeVars>> /\ Live
    <3>1. ServerStep \/ StoreFails
      OBVIOUS
    <3>2. spc \in {"loop", "write"} /\ (spc = "write" => sout = << >>)
      BY <1>4 DEF ServerCheckCtx, ServerFinishes
    <3> QED
      BY <3>1, <3>2 DEF ServerStep, StoreFails, ServerInternal, ServerReadError, ServerWriteError,
         ServerClosesWriter, ServerClosesReader, ServerDone, Live, ServerStoreFails, ServerWriting,
         ServerReadFails, ServerReading, ServerWriteFails
  <2>1. CASE \E err \in {"nil", "Canceled", "DeadlineExceeded", "Refused"} : ServerReturn(err)
    BY <2>0, <2>1, ReturnKeeps
  <2>2. CASE spc = "loop" /\ spc' = "first" /\ UNCHANGED <<version, sreq, sout, snext, serr>>
    BY <1>0, <2>0, <2>2
       DEF clientVars, closeVars, StreamInv, InStep, Resting, Parked, CallInv, Closer, Faults, RefsComplete
  <2>3. CASE spc = "write" /\ sout = << >> /\ spc' = "loop" /\ UNCHANGED <<version, sreq, sout, snext, serr>>
    <3>1. ~FlushEnds(sout)
      BY <2>3 DEF FlushEnds
    <3>2. InStep'
      BY <1>0, <2>0, <2>3, <3>1 DEF clientVars, InStep, Resting
    <3>3. Parked' /\ CallInv' /\ Closer' /\ Faults' /\ RefsComplete'
      BY <1>0, <2>0, <2>3 DEF clientVars, closeVars, Parked, CallInv, Closer, Faults, RefsComplete
    <3> QED
      BY <3>2, <3>3 DEF StreamInv
  <2> QED
    BY <1>0, <1>4, <2>1, <2>2, <2>3
       DEF ServerCheckCtx, ServerFinishes, Parked, TypeOK, PipesTypeOK, CtxErrs
<1>5. CASE ServerInternal /\ (ServerClosesWriter \/ ServerClosesReader \/ ServerDone)
  <2>1. /\ UNCHANGED <<version, sreq, sout, snext, serr>> /\ ~Live' /\ spc' \notin {"request", "args"}
    BY <1>5 DEF ServerClosesWriter, ServerClosesReader, ServerDone, Live
  <2>2. UNCHANGED <<clientVars, closeVars>>
    BY <1>5 DEF ServerInternal, ServerCheckCtx, ServerFinishes, ServerClosesWriter, ServerClosesReader, ServerDone
  <2>3. InStep' /\ Parked'
    BY <1>0, <2>1 DEF InStep, Parked
  <2>4. CallInv' /\ Closer' /\ Faults' /\ RefsComplete'
    BY <1>0, <2>1, <2>2 DEF clientVars, closeVars, CallInv, Closer, Faults, RefsComplete
  <2> QED
    BY <2>3, <2>4 DEF StreamInv
<1> QED
  BY <1>1, <1>2, <1>3, <1>4, <1>5 DEF ServerStep, ServerInternal

\* The caller starts a call.
LEMMA CallKeeps ==
    ASSUME TypeOK, TeardownInv, StreamInv, cpc = "idle", UNCHANGED <<serverVars, closeVars>>,
           NEW c, c \in Calls,
           c.op = "ls-refs" => ~c.size /\ c.args \in Seq({"prefix", "big"}),
           c.op = "object-info" => c.args \in Seq(OidKinds \cup {"big"}),
           \/ Answer(c, << >>, "SessionDead")
           \/ version = "v0" /\ Answer(c, refs, "ok")
           \/ Answer(c, << >>, "Unsupported")
           \/ Command(c)
    PROVE  StreamInv'
<1>0. InStep /\ Parked /\ CallInv /\ Closer /\ Faults /\ RefsComplete
  BY DEF StreamInv
<1>1. UNCHANGED <<version, spc, sreq, sout, snext, serr, kpc, closeErr>>
  BY DEF serverVars, closeVars
<1>2. /\ call' = c /\ cpc' \in {"idle", "write", "failed"}
      /\ pos' = 1
      /\ cpc' \in {"write", "failed"} => got' = << >> /\ result' # "ok"
      /\ version = "v2" => got' = << >> /\ result' # "ok"
  BY DEF Answer, Command
<1>3. Resting \/ ~Live
  BY <1>0 DEF InStep
<1>4. InStep'
  BY <1>1, <1>2, <1>3 DEF InStep, Resting, Live
<1>5. Parked'
  BY <1>0, <1>1, <1>3 DEF Parked, Resting, Live
<1>6. CallInv'
  BY <1>2 DEF CallInv
<1>7. Closer' /\ Faults'
  BY <1>0, <1>1, <1>2 DEF Closer, Faults
<1>8. RefsComplete'
  <2>1. ASSUME version = "v2" PROVE got' = Lines(c.id, Len(got'))
    <3>1. Lines(c.id, 0) \in Seq(RespPackets) /\ Len(Lines(c.id, 0)) = 0
      BY LinesType DEF Calls
    <3>2. Lines(c.id, 0) = << >>
      BY <3>1, EmptySeq
    <3> QED
      BY <1>2, <2>1, <3>2
  <2> QED
    BY <1>1, <1>2, <2>1 DEF RefsComplete
<1> QED
  BY <1>4, <1>5, <1>6, <1>7, <1>8 DEF StreamInv

\* What the caller does by itself.
LEMMA CallerKeeps ==
    ASSUME Disciplined, TypeOK, TeardownInv, StreamInv, CallerStep
    PROVE  StreamInv'
<1>0. InStep /\ Parked /\ CallInv /\ Closer /\ Faults /\ RefsComplete
  BY DEF StreamInv
<1>1. UNCHANGED <<serverVars, closeVars>>
  BY DEF CallerStep
<1>2. CASE CallRefs
  <2>1. PICK args \in ArgsOver({"prefix", "big"}) :
           LET c == NewCall("ls-refs", FALSE, args) IN
              \/ Answer(c, << >>, "SessionDead")
              \/ version = "v0" /\ Answer(c, refs, "ok")
              \/ Command(c)
    BY <1>2 DEF CallRefs
  <2>2. args \in Seq({"prefix", "big"})
    BY <2>1, ArgsOverType
  <2>3. args \in Seq(ArgKinds \cup {"big"})
    BY <2>2 DEF ArgKinds
  <2>4. PICK c : c = NewCall("ls-refs", FALSE, args)
    OBVIOUS
  <2>5. c \in Calls /\ c.op = "ls-refs" /\ ~c.size /\ c.args = args
    BY <2>3, <2>4 DEF NewCall, Calls, Ops, TypeOK, ClientTypeOK
  <2>6. cpc = "idle"
    BY <1>2 DEF CallRefs
  <2> QED
    BY <1>1, <2>1, <2>2, <2>4, <2>5, <2>6, CallKeeps
<1>3. CASE CallObjectInfo
  <2>1. PICK size \in BOOLEAN, args \in ArgsOver(OidKinds \cup {"big"}) :
           LET c == NewCall("object-info", size, args) IN
              \/ Answer(c, << >>, "SessionDead")
              \/ Answer(c, << >>, "Unsupported")
              \/ Command(c)
    BY <1>3 DEF CallObjectInfo
  <2>2. args \in Seq(OidKinds \cup {"big"})
    BY <2>1, ArgsOverType
  <2>3. args \in Seq(ArgKinds \cup {"big"})
    BY <2>2 DEF ArgKinds
  <2>4. PICK c : c = NewCall("object-info", size, args)
    OBVIOUS
  <2>5. c \in Calls /\ c.op = "object-info" /\ c.args = args
    BY <2>3, <2>4 DEF NewCall, Calls, Ops, TypeOK, ClientTypeOK
  <2>6. cpc = "idle"
    BY <1>3 DEF CallObjectInfo
  <2> QED
    BY <1>1, <2>1, <2>2, <2>4, <2>5, <2>6, CallKeeps
<1>4. CASE RangeOver \/ Continue \/ Break
  <2>1. UNCHANGED <<version, spc, sreq, sout, snext, serr, kpc, closeErr>>
    BY <1>1 DEF serverVars, closeVars
  <2>2. /\ UNCHANGED <<call, pos, got, result, cret>>
        /\ cpc \in {"iter", "yield"} /\ cpc' \in {"read", "drain"}
    BY <1>4 DEF RangeOver, Continue, Break
  <2>3. InStep'
    BY <1>0, <2>1, <2>2 DEF InStep, Serving, RefsLeft, Live
  <2>4. Parked' /\ CallInv' /\ Closer' /\ Faults' /\ RefsComplete'
    BY <1>0, <2>1, <2>2 DEF Parked, CallInv, Closer, Faults, RefsComplete
  <2> QED
    BY <2>3, <2>4 DEF StreamInv
<1>5. CASE CallClose
  <2>1. UNCHANGED <<version, spc, sreq, sout, snext, serr, kpc, closeErr>>
    BY <1>1 DEF serverVars, closeVars
  <2>2. /\ UNCHANGED <<call, pos, got, result>>
        /\ cpc \in {"idle", "iter", "yield", "failed"} /\ cpc' = "close"
        /\ cret' = IF cpc = "failed" THEN "idle" ELSE cpc
    BY <1>5 DEF CallClose
  <2>3. InStep'
    BY <2>2 DEF InStep
  <2>4. Parked' /\ CallInv' /\ Closer' /\ Faults' /\ RefsComplete'
    BY <1>0, <2>1, <2>2 DEF Parked, CallInv, Closer, Faults, RefsComplete
  <2> QED
    BY <2>3, <2>4 DEF StreamInv
<1> QED
  BY <1>2, <1>3, <1>4, <1>5 DEF CallerStep, IgnoreError

\* The caller meets an error of its own, or the other side's.
LEMMA ClientKeeps ==
    ASSUME TypeOK, PipeInv, TeardownInv, StreamInv, ClientStep
    PROVE  StreamInv'
<1>0. InStep /\ Parked /\ CallInv /\ Closer /\ Faults /\ RefsComplete
  BY DEF StreamInv
<1>1. UNCHANGED <<serverVars, closeVars>>
  BY DEF ClientStep, PayloadRejected, ClientReadError, ClientWriteError
<1>2. UNCHANGED <<version, spc, sreq, sout, snext, serr, kpc, closeErr>>
  BY <1>1 DEF serverVars, closeVars
<1>3. CASE PayloadRejected
  <2>1. /\ cpc = "write" /\ cpc' = "failed" /\ result' = "TooLarge" /\ Frame(call)[pos] = "big"
        /\ UNCHANGED <<call, got, cret>>
    BY <1>3 DEF PayloadRejected, ClientTooLarge, CommandFails
  <2>2. spc # "request"
    <3>1. call \in Calls /\ call.op \in Ops
      BY <2>1 DEF TypeOK, ClientTypeOK
    <3>2. Frame(call)[2] = "cap" /\ Frame(call)[3] = "delim"
      BY <3>1, FrameFacts
    <3> QED
      BY <1>0, <2>1, <3>2 DEF InStep, Live, Resting
  <2>3. serr # "UnexpectedEOF" \/ kpc = "closed"
    BY <1>0, <2>1 DEF Faults
  <2> QED
    BY <1>0, <1>2, <2>1, <2>2, <2>3
       DEF StreamInv, InStep, Parked, CallInv, Closer, Faults, RefsComplete
<1>4. CASE ClientReadError \/ ClientWriteError
  <2>1. /\ cpc \in {"dial", "read", "drain", "decode", "write"}
        /\ Closed(c2s) \/ Closed(s2c)
        /\ cpc' \in {"idle", "failed", "close"} /\ UNCHANGED <<call, got>>
        /\ cret' = cret \/ cret' \in {"gone", "idle"}
        /\ result' # "ok" /\ (cpc' = "close" => cret' \in {"gone", "idle"})
    <3>1. CASE ClientReadError
      <4>1. Closed(s2c) /\ ReadErr(s2c) \in ServeErrs
        BY <3>1, PipeErrType DEF ClientReadError, TypeOK, PipesTypeOK
      <4>2. ReadErr(s2c) # "ok"
        BY <4>1 DEF ServeErrs, PipeErrs, CtxErrs
      <4> QED
        BY <3>1, <4>1, <4>2 DEF ClientReadError, ClientReadFails, DialFails, EndsWith, MarkDead
    <3>2. CASE ClientWriteError
      <4>1. Closed(c2s) /\ WriteErr(c2s) \in ServeErrs /\ serr \in ServeErrs \cup {"nil"}
        BY <3>2, PipeErrType DEF ClientWriteError, TypeOK, PipesTypeOK, ServerTypeOK
      <4>2. RootCause(WriteErr(c2s)) # "ok"
        BY <4>1 DEF RootCause, ServeErrs, PipeErrs, CtxErrs
      <4> QED
        BY <3>2, <4>1, <4>2 DEF ClientWriteError, ClientWriteFails, ClientWriting, CommandFails
    <3> QED
      BY <1>4, <3>1, <3>2
  <2>2. ~Live
    BY <1>0, <2>1, PipesOpen
  <2>3. serr # "UnexpectedEOF" \/ kpc = "closed"
    BY <1>0, <2>1 DEF Faults
  <2>4. kpc \in {"open", "closed"}
    BY <1>0, <2>1 DEF Closer
  <2>5. InStep' /\ Parked'
    BY <1>0, <1>2, <2>2 DEF InStep, Live, Parked
  <2>6. CallInv' /\ Closer' /\ RefsComplete'
    BY <1>0, <1>2, <2>1, <2>4 DEF CallInv, Closer, RefsComplete
  <2>7. Faults'
    BY <1>0, <1>2, <2>3 DEF Faults
  <2> QED
    BY <2>5, <2>6, <2>7 DEF StreamInv
<1> QED
  BY <1>3, <1>4 DEF ClientStep

\* Conn.Close.
LEMMA CloseKeeps ==
    ASSUME ~AsyncClose, TypeOK, PipeInv, TeardownInv, StreamInv, CloseStarts \/ CloseStep
    PROVE  StreamInv'
<1>0. InStep /\ Parked /\ CallInv /\ Closer /\ Faults /\ RefsComplete
  BY DEF StreamInv
<1>1. CASE CloseReturns
  <2>1. /\ kpc = "closed" /\ cpc = "close" /\ cpc' = cret
        /\ UNCHANGED <<version, spc, sreq, sout, snext, serr, kpc, closeErr>>
        /\ UNCHANGED <<cret, call, pos, sized, got, refs, deadErr, result>>
    BY <1>1 DEF CloseReturns, ClientClosed, serverVars, closeVars
  <2>2. spc = "done" /\ cret \in {"idle", "iter", "yield", "failed", "gone"}
    BY <2>1 DEF TeardownInv, TypeOK, ClientTypeOK, CallerStates
  <2>3. InStep' /\ Parked' /\ Closer' /\ Faults' /\ RefsComplete'
    BY <1>0, <2>1, <2>2 DEF InStep, Live, Parked, Closer, Faults, RefsComplete
  <2>4. CallInv'
    BY <1>0, <2>1, <2>2 DEF CallInv
  <2> QED
    BY <2>3, <2>4 DEF StreamInv
<1>2. CASE CloseStarts \/ CloseCancels \/ CloseClientReader \/ CloseClientWriter
           \/ CloseServerReader \/ CloseServerWriter \/ CloseWaits \/ CloseStore
  <2>1. /\ UNCHANGED <<version, spc, sreq, sout, snext, serr>>
        /\ UNCHANGED <<cpc, cret, call, pos, sized, got, refs, deadErr, result>>
    BY <1>2 DEF CloseStarts, CloseCancels, CloseClientReader, CloseClientWriter, CloseServerReader,
       CloseServerWriter, CloseWaits, CloseStore, serverVars, clientVars
  <2>2. kpc # "closed" /\ (kpc # "open" \/ cpc = "close")
    BY <1>2 DEF CloseStarts, CloseCancels, CloseClientReader, CloseClientWriter, CloseServerReader,
       CloseServerWriter, CloseWaits, CloseStore
  <2>3. InStep' /\ Parked' /\ CallInv' /\ RefsComplete'
    BY <1>0, <2>1 DEF InStep, Live, Resting, Serving, FlushEnds, RefsLeft, Parked, CallInv, RefsComplete
  <2>4. Closer'
    BY <1>0, <2>1, <2>2 DEF Closer
  <2>5. Faults'
    <3>1. CASE CloseWaits
      BY <1>0, <2>1, <2>2, <3>1 DEF CloseWaits, Faults
    <3>2. CASE CloseStore
      BY <1>0, <2>1, <2>2, <3>2 DEF CloseStore, Faults
    <3>3. CASE closeErr' = closeErr
      BY <1>0, <2>1, <2>2, <3>3 DEF Faults
    <3> QED
      BY <1>2, <3>1, <3>2, <3>3 DEF CloseStarts, CloseCancels, CloseClientReader, CloseClientWriter,
         CloseServerReader, CloseServerWriter
  <2> QED
    BY <2>3, <2>4, <2>5 DEF StreamInv
<1> QED
  BY <1>1, <1>2 DEF CloseStep

\* Every step of a session whose caller closes after a failed Command, and
\* closes itself.
LEMMA StreamNext ==
    ASSUME Disciplined, ~AsyncClose, TypeOK, PipeInv, TeardownInv, StreamInv, [Next]_vars
    PROVE  StreamInv'
<1>1. CASE Transfer
  BY <1>1, TransferKeeps
<1>2. CASE ServerStep \/ StoreFails
  BY <1>2, ServerKeeps
<1>3. CASE ClientStep
  BY <1>3, ClientKeeps
<1>4. CASE CallerStep
  BY <1>4, CallerKeeps
<1>5. CASE CloseStarts \/ CloseStep
  BY <1>5, CloseKeeps
<1>6. CASE DialContextEnds \/ Terminated \/ UNCHANGED vars
  <2>1. UNCHANGED <<serverVars, clientVars, closeVars>>
    BY <1>6 DEF DialContextEnds, Terminated, vars
  <2> QED
    BY <2>1 DEF serverVars, clientVars, closeVars, StreamInv, InStep, Live, Resting, Serving, FlushEnds,
       RefsLeft, Parked, CallInv, Closer, Faults, RefsComplete
<1> QED
  BY <1>1, <1>2, <1>3, <1>4, <1>5, <1>6 DEF Next

(***************************************************************************)
(* The first states.                                                       *)
(***************************************************************************)
\* A session begins in step.
LEMMA StreamInit == Init => PipeInv /\ StreamInv
<1> SUFFICES ASSUME Init PROVE PipeInv /\ StreamInv
  OBVIOUS
<1>1. /\ spc = "write" /\ serr = "nil" /\ kpc = "open" /\ closeErr = {}
      /\ cpc = "dial" /\ cret = "idle" /\ call = NoCall /\ got = << >> /\ result = "none"
      /\ snext # "args" /\ c2s = NewPipe /\ s2c = NewPipe
  BY DEF Init, PipesInit, ServerInit, ClientInit
<1>2. FlushEnds(sout)
  <2>1. PICK n \in 0..MaxLines : sout = IF version = "v0" THEN V0Advertisement(n) ELSE V2Advertisement
    BY DEF Init, ServerInit
  <2>2. n \in Nat
    BY <2>1, MaxLinesAssumption
  <2> QED
    BY <2>1, <2>2, AdvertisementFlush
<1>3. PipeInv
  BY <1>1 DEF PipeInv, NewPipe, Live
<1>4. InStep /\ Parked /\ Closer /\ Faults
  BY <1>1, <1>2 DEF InStep, Parked, Closer, Faults
<1>5. call.op = "none"
  BY <1>1 DEF NoCall
<1>6. CallInv /\ RefsComplete
  BY <1>1, <1>5 DEF CallInv, RefsComplete
<1> QED
  BY <1>3, <1>4, <1>6 DEF StreamInv

(***************************************************************************)
(* The theorems.                                                           *)
(***************************************************************************)
\* The pipes of every session, whatever its caller does.
LEMMA PipesInvariant == Spec => []PipeInv
<1>1. Init => PipeInv
  BY StreamInit
<1>2. TypeOK /\ PipeInv /\ [Next]_vars => PipeInv'
  BY PipeInvNext
<1> QED
  BY <1>1, <1>2, TypeCorrect, PTL DEF Spec

\* Client and server stay in step as long as the caller closes the session
\* after a failed Command and no other goroutine closes it.
THEOREM ConversationInStep ==
    ASSUME Disciplined, ~AsyncClose
    PROVE  Spec => []StreamInv
<1>1. Init => StreamInv
  BY StreamInit
<1>2. TypeOK /\ PipeInv /\ TeardownInv /\ StreamInv /\ [Next]_vars => StreamInv'
  BY StreamNext
<1> QED
  BY <1>1, <1>2, TypeCorrect, PipesInvariant, TeardownInvariant, PTL DEF Spec

\* Refs yields the response to its own call, in order, without a gap, and
\* the whole of it when it reports no error.
THEOREM RefsCompleteHolds ==
    ASSUME Disciplined, ~AsyncClose
    PROVE  Spec => []RefsComplete
<1>1. StreamInv => RefsComplete
  BY DEF StreamInv
<1> QED
  BY <1>1, ConversationInStep, PTL

\* Between two calls the server has nothing left to say.
THEOREM StreamDrainedHolds ==
    ASSUME Disciplined, ~AsyncClose
    PROVE  Spec => []StreamDrained
<1>1. StreamInv => StreamDrained
  BY DEF StreamInv, InStep, Live, Resting, StreamDrained, ServerWriting
<1> QED
  BY <1>1, ConversationInStep, PTL

\* Conn.Close reports the faults of the server and the store, the caller's
\* deadline, or a request the caller's own argument cut short.
THEOREM CloseReportsFaultsOnlyHolds ==
    ASSUME Disciplined, ~AsyncClose
    PROVE  Spec => []CloseReportsFaultsOnly
<1>1. StreamInv => CloseReportsFaultsOnly
  BY DEF StreamInv, Faults, CloseReportsFaultsOnly
<1> QED
  BY <1>1, ConversationInStep, PTL

(***************************************************************************)
(* Causes.  Nothing is assumed of the caller here.                         *)
(***************************************************************************)
\* Before anyone closes, no error of a pipe can have ended Serve.
OwnError == kpc = "open" => serr \notin PipeErrs

\* The error Serve returns while nobody closes is its own.
LEMMA OwnErrorNext ==
    ASSUME TypeOK, PipeInv, OwnError, [Next]_vars
    PROVE  OwnError'
<1>0. kpc' = "open" => kpc = "open"
  BY DEF Next, vars, Transfer, SendRequest, SendResponse, ServerStep, ServerInternal, ServerReadError,
     ServerWriteError, StoreFails, ClientStep, PayloadRejected, ClientReadError, ClientWriteError,
     CallerStep, DialContextEnds, CloseStarts, CloseStep, CloseCancels, CloseClientReader,
     CloseClientWriter, CloseServerReader, CloseServerWriter, CloseWaits, CloseStore, CloseReturns,
     Terminated, closeVars
<1>1. CASE serr' = serr
  BY <1>0, <1>1 DEF OwnError
<1>2. CASE ServerReadError \/ ServerWriteError
  <2>1. Live /\ (Closed(c2s) \/ Closed(s2c)) /\ kpc' = kpc
    BY <1>2 DEF ServerReadError, ServerReadFails, ServerReading, ServerWriteError, ServerWriteFails,
       ServerWriting, Live, closeVars
  <2>2. kpc # "open"
    BY <2>1 DEF PipeInv, Live, Closed
  <2> QED
    BY <2>1, <2>2 DEF OwnError
<1>3. CASE SendRequest
  <2>1. serr' \in {serr, "nil", "Protocol"}
    <3>1. CASE ServerReadsHead(Frame(call)[pos], call.id)
      BY <3>1 DEF ServerReadsHead, Dispatch, Respond, Refuse, ServerReturn
    <3>2. CASE ServerReadsArg(Frame(call)[pos])
      BY <3>2 DEF ServerReadsArg, Respond, Refuse, ServerReturn
    <3> QED
      BY <1>3, <3>1, <3>2 DEF SendRequest, ServerReads
  <2> QED
    BY <1>0, <2>1 DEF OwnError, PipeErrs
<1>4. CASE ServerInternal \/ StoreFails
  <2>1. serr' \in {serr, "nil", "Store", "Refused", "Canceled", "DeadlineExceeded"}
    BY <1>4 DEF ServerInternal, ServerCheckCtx, ServerFinishes, ServerClosesWriter, ServerClosesReader,
       ServerDone, StoreFails, ServerStoreFails, ServerReturn, TypeOK, PipesTypeOK, CtxErrs
  <2> QED
    BY <1>0, <2>1 DEF OwnError, PipeErrs
<1> QED
  BY <1>1, <1>2, <1>3, <1>4
     DEF Next, vars, Transfer, SendResponse, ServerWrote, ServerStep, ClientStep, PayloadRejected,
         ClientReadError, ClientWriteError, CallerStep, DialContextEnds, CloseStarts, CloseStep,
         CloseCancels, CloseClientReader, CloseClientWriter, CloseServerReader, CloseServerWriter,
         CloseWaits, CloseStore, CloseReturns, Terminated, serverVars

\* A step that reports an error of the stream reports what Serve returned.
LEMMA CauseNext ==
    ASSUME TypeOK, PipeInv, OwnError, [Next]_vars
    PROVE  CauseStep
<1> SUFFICES ASSUME kpc = "open", serr # "nil", result' # result, result' \in ServeErrs
             PROVE  result' = serr
  BY DEF CauseStep
<1>0. ~Live /\ serr \notin PipeErrs /\ serr # "EOF" /\ serr # "ClosedPipe"
  BY DEF PipeInv, OwnError, PipeErrs
<1>1. CASE ClientReadError
  <2>1. ReadErr(s2c) = serr
    BY <1>1 DEF ClientReadError, ReadErr, PipeInv, Closed
  <2> QED
    BY <1>0, <1>1, <2>1 DEF ClientReadError, ClientReadFails, DialFails, EndsWith, MarkDead,
       ServeErrs, PipeErrs, CtxErrs
<1>2. CASE ClientWriteError
  <2>1. WriteErr(c2s) = serr
    BY <1>2 DEF ClientWriteError, WriteErr, PipeInv, Closed
  <2> QED
    BY <1>0, <1>2, <2>1 DEF ClientWriteError, ClientWriteFails, CommandFails, RootCause
<1>3. CASE PayloadRejected \/ CallerStep
  BY <1>3 DEF PayloadRejected, ClientTooLarge, CommandFails, CallerStep, CallRefs, CallObjectInfo, Answer,
     Command, RangeOver, Continue, Break, CallClose, IgnoreError, ServeErrs, PipeErrs, CtxErrs
<1>4. CASE Transfer
  BY <1>0, <1>4 DEF Transfer, SendRequest, SendResponse, ServerReading, ServerWriting, Live
<1> QED
  BY <1>1, <1>2, <1>3, <1>4
     DEF Next, vars, ServerStep, ServerInternal, ServerReadError, ServerWriteError, StoreFails, ClientStep,
         DialContextEnds, CloseStarts, CloseStep, CloseCancels, CloseClientReader, CloseClientWriter,
         CloseServerReader, CloseServerWriter, CloseWaits, CloseStore, CloseReturns, ClientClosed,
         Terminated, clientVars

\* When the goroutine has failed by itself, the failure the caller is told is
\* the goroutine's own error: for every caller, disciplined or not, and with
\* or without a concurrent Close (which is what kpc = "open" excludes).
THEOREM CauseReportedHolds == Spec => CauseReported
<1>1. Init => OwnError
  BY DEF Init, ServerInit, OwnError, PipeErrs
<1>2. TypeOK /\ PipeInv /\ OwnError /\ [Next]_vars => OwnError'
  BY OwnErrorNext
<1>3. TypeOK /\ PipeInv /\ OwnError /\ [Next]_vars => [CauseStep]_vars
  BY CauseNext
<1> QED
  BY <1>1, <1>2, <1>3, TypeCorrect, PipesInvariant, PTL DEF Spec, CauseReported

(***************************************************************************)
(* The refinement of AbstractSession.  Being in step (StreamInv) says how  *)
(* much of a response is where; the refinement also needs to know what it  *)
(* says, which is ContentInv.  From the two, each step of the goroutine,   *)
(* the pipes, the calls and Conn.Close is shown to be a step of the        *)
(* promise or none.                                                        *)
(***************************************************************************)

(***************************************************************************)
(* Induction over the natural numbers, as a fact about sets.               *)
(***************************************************************************)
\* A set of numbers that is not empty has a least one.
LEMMA LeastNumber ==
    ASSUME NEW T, T \subseteq Nat, T # {}
    PROVE  \E m \in T : \A k \in T : m <= k
<1>r. PICK R : R = {ss \in Nat \X Nat : ss[1] < ss[2]}
  OBVIOUS
<1>1. IsWellFoundedOn({ss \in Nat \X Nat : ss[1] < ss[2]}, Nat)
  BY NatLessThanWellFounded, Zenon DEF OpToRel
<1>2. \E x \in T : \A y \in T : ~ (<<y, x>> \in R)
  BY <1>r, <1>1, WFMin
<1>3. \A x \in T, y \in T : <<y, x>> \in R <=> y < x
  BY <1>r
<1>4. PICK x \in T : \A y \in T : ~ (<<y, x>> \in R)
  BY <1>2
<1>5. ASSUME NEW y \in T PROVE x <= y
  <2>1. <<y, x>> \notin R
    BY <1>4
  <2>2. ~(y < x)
    BY <1>3, <2>1
  <2>3. x \in Nat /\ y \in Nat
    OBVIOUS
  <2> QED
    BY <2>2, <2>3
<1> QED
  BY <1>5

\* A set that has 0, and with every number the next, has them all.
LEMMA SetInduction ==
    ASSUME NEW S, 0 \in S, \A n \in Nat : n \in S => n + 1 \in S
    PROVE  Nat \subseteq S
<1> SUFFICES ASSUME ~(Nat \subseteq S) PROVE FALSE
  OBVIOUS
<1>1. PICK m \in Nat \ S : \A k \in Nat \ S : m <= k
  <2>1. Nat \ S \subseteq Nat /\ Nat \ S # {}
    OBVIOUS
  <2> QED
    BY <2>1, LeastNumber
<1>2. m # 0
  OBVIOUS
<1>3. m - 1 \in Nat
  BY <1>2
<1>4. m - 1 \in S
  <2>1. ~(m <= m - 1)
    BY <1>3
  <2> QED
    BY <1>1, <1>3, <2>1
<1>5. (m - 1) + 1 \in S /\ (m - 1) + 1 = m
  BY <1>3, <1>4
<1> QED
  BY <1>5

(***************************************************************************)
(* The invariant: what has been read of a request or a response, and what  *)
(* is still to be read, are two parts of one whole.                        *)
(***************************************************************************)
\* The caller is inside a call.
InCall == Place \in {"write", "iter", "read", "yield", "drain", "decode"}

\* Who is in a call, and of what kind.
CallState ==
    /\ InCall => deadErr = "nil" /\ version = "v2" /\ result = "none"
    /\ Place \in {"iter", "read", "yield", "drain"} => call.op = "ls-refs"
    /\ sreq.id <= call.id
    /\ cpc = "dial" => call = NoCall /\ got = <<>> /\ result = "none" /\ deadErr = "nil"

\* No response exists before its request is complete.
NothingSaid ==
    /\ spc \in {"loop", "first", "request", "args"} => sout = <<>>
    /\ cpc = "write" => ~sized
    /\ cpc = "write" /\ pos = 1 => sreq.id < call.id
    /\ cpc = "write" /\ pos # 1 => sout = <<>>

\* Dial has read the beginning of what the server lists; what is left is the rest.
ListingLeft ==
    cpc = "dial" /\ Live =>
        /\ refs = Lines(0, Len(refs))
        /\ \/ refs = <<>> /\ sreq.n = 0 /\ \A i \in 1..Len(sout) : sout[i].kind # "line"
           \/ /\ Len(refs) + Len(sout) = sreq.n + 1
              /\ \A i \in 1..(Len(sout) - 1) : sout[i] = Resp("line", 0, Len(refs) + i)

\* The size line of a request, if it has one.
SizeLines == IF call.size THEN 1 ELSE 0

\* The server has read the arguments written so far.
ArgsRead ==
    cpc = "write" /\ Live /\ pos # 1 =>
        /\ sreq.size = (call.size /\ pos > 4)
        /\ pos > 4 + SizeLines => Len(sreq.args) = pos - 4 - SizeLines
        /\ pos <= 4 + SizeLines => sreq.args = <<>>
        /\ \A j \in 1..Len(sreq.args) : sreq.args[j] = call.args[j]

\* DecodeObjectInfo has the replies about the first k objects; those about the
\* others, up to the last one that is answered, are still to be read.
RepliesLeft(k, last) ==
    /\ Len(sout) = (last - k) + 1
    /\ \A i \in 1..(last - k) : sout[i] = Resp(ReplyKind(call.args[k + i]), call.id, k + i)
    /\ \A i \in 1..k : ReplyKind(call.args[i]) # "ERR"
    /\ sized = (call.size /\ call.args # <<>>)
    /\ got = ToldUpTo(call)[k]

\* An object-info response is read in parts, the size line first if there is one.
InfoLeft ==
    cpc = "decode" /\ Live =>
       \E last \in LastEmitted(call.args) :
          \/ /\ call.size /\ call.args # <<>> /\ ~sized /\ got = <<>>
             /\ Len(sout) = last + 2 /\ sout[1].kind = "size"
             /\ \A i \in 1..last : sout[i + 1] = Resp(ReplyKind(call.args[i]), call.id, i)
          \/ \E k \in 0..last : RepliesLeft(k, last)

\* All of it.
ContentInv == CallState /\ NothingSaid /\ ListingLeft /\ ArgsRead /\ InfoLeft

(***************************************************************************)
(* What a call is told, as a recursive function.                           *)
(***************************************************************************)
\* f answers the first n arguments of c.
IsTold(f, c, n) ==
    f = [k \in 0..n |->
            IF k = 0 THEN <<>>
            ELSE IF Reply(c, k).kind = "info" \/ ~c.size THEN Append(f[k - 1], Reply(c, k))
            ELSE f[k - 1]]

\* The recursive function that ToldUpTo defines exists.
LEMMA ToldExists ==
    ASSUME NEW c, NEW L \in Nat
    PROVE  \E f : IsTold(f, c, L)
<1> DEFINE St(f, k) == IF k = 0 THEN <<>>
              ELSE IF Reply(c, k).kind = "info" \/ ~c.size THEN Append(f[k - 1], Reply(c, k))
              ELSE f[k - 1]
<1> DEFINE S == {l \in Nat : \E f : f = [k \in 0..l |-> St(f, k)]}
<1>1. 0 \in S
  <2>1. PICK f : f = [k \in 0..0 |-> <<>>]
    OBVIOUS
  <2>2. f = [k \in 0..0 |-> St(f, k)]
    BY <2>1
  <2> QED
    BY <2>2
<1>2. ASSUME NEW n \in Nat, n \in S PROVE n + 1 \in S
  <2>1. PICK f : f = [k \in 0..n |-> St(f, k)]
    BY <1>2
  <2>2. PICK g : g = [k \in 0..(n + 1) |-> IF k = n + 1 THEN St(f, k) ELSE f[k]]
    OBVIOUS
  <2>3. ASSUME NEW k \in 0..(n + 1) PROVE g[k] = St(g, k)
    <3>1. CASE k = n + 1
      <4>1. k # 0 /\ k - 1 = n /\ n # n + 1 /\ n \in 0..(n + 1)
        BY <3>1
      <4>2. g[n] = f[n] /\ g[k] = St(f, k)
        BY <2>2, <3>1, <4>1
      <4> QED
        BY <4>1, <4>2
    <3>2. CASE k # n + 1
      <4>1. k \in 0..n
        BY <3>2
      <4>2. g[k] = f[k]
        BY <2>2, <3>2
      <4>3. f[k] = St(f, k)
        BY <2>1, <4>1
      <4>4. CASE k = 0
        BY <4>2, <4>3, <4>4
      <4>5. CASE k # 0
        <5>1. k - 1 \in 0..(n + 1) /\ k - 1 # n + 1
          BY <4>1, <4>5
        <5>2. g[k - 1] = f[k - 1]
          BY <2>2, <5>1
        <5> QED
          BY <4>2, <4>3, <4>5, <5>2
      <4> QED
        BY <4>4, <4>5
    <3> QED
      BY <3>1, <3>2
  <2>4. g = [k \in 0..(n + 1) |-> St(g, k)]
    <3> HIDE DEF St
    <3> QED
      BY <2>2, <2>3
  <2> HIDE DEF St
  <2> QED
    BY <2>4
<1>3. Nat \subseteq S
  <2> HIDE DEF S
  <2> QED
    BY <1>1, <1>2, SetInduction
<1>4. PICK f : f = [k \in 0..L |-> St(f, k)]
  BY <1>3
<1> QED
  BY <1>4, Zenon DEF IsTold

\* What a call is told of its first k objects.
LEMMA ToldSteps ==
    ASSUME NEW c, c.args \in Seq(ArgKinds \cup {"big"})
    PROVE  /\ ToldUpTo(c)[0] = <<>>
           /\ \A k \in 1..Len(c.args) : ToldUpTo(c)[k] =
                 IF Reply(c, k).kind = "info" \/ ~c.size THEN Append(ToldUpTo(c)[k - 1], Reply(c, k))
                 ELSE ToldUpTo(c)[k - 1]
<1>L. PICK L \in Nat : L = Len(c.args)
  BY LenProperties
<1>1. \E f : IsTold(f, c, L)
  BY <1>L, ToldExists
<1>2. PICK t : t = ToldUpTo(c)
  OBVIOUS
<1>3. IsTold(t, c, L)
  <2> DEFINE upTo[k \in 0..Len(c.args)] ==
            IF k = 0 THEN <<>>
            ELSE IF Reply(c, k).kind = "info" \/ ~c.size THEN Append(upTo[k - 1], Reply(c, k))
            ELSE upTo[k - 1]
  <2>1. IsTold(upTo, c, Len(c.args))
    BY <1>1, <1>L, Zenon DEF upTo, IsTold
  <2>2. ToldUpTo(c) = upTo
    BY Zenon DEF ToldUpTo, upTo
  <2> HIDE DEF upTo
  <2> QED
    BY <1>2, <1>L, <2>1, <2>2
<1>4. t[0] = <<>>
  <2>1. 0 \in 0..L
    OBVIOUS
  <2> QED
    BY <1>3, <2>1 DEF IsTold
<1>5. ASSUME NEW k \in 1..L
      PROVE  t[k] = IF Reply(c, k).kind = "info" \/ ~c.size THEN Append(t[k - 1], Reply(c, k))
                    ELSE t[k - 1]
  <2>1. k \in 0..L /\ k # 0
    OBVIOUS
  <2> QED
    BY <1>3, <2>1 DEF IsTold
<1> QED
  BY <1>2, <1>4, <1>5, <1>L

\* What a call is told is about the call.
LEMMA ToldType ==
    ASSUME NEW c, c.args \in Seq(ArgKinds \cup {"big"}), c.id \in Nat
    PROVE  \A k \in 0..Len(c.args) : ToldUpTo(c)[k] \in Seq({p \in RespPackets : p.id = c.id})
<1>p. PICK P : P = {p \in RespPackets : p.id = c.id}
  OBVIOUS
<1>L. PICK L \in Nat : L = Len(c.args)
  BY LenProperties
<1>t. PICK t : t = ToldUpTo(c)
  OBVIOUS
<1>r. ASSUME NEW k \in 1..L PROVE Reply(c, k) \in P
  <2>1. k \in Nat
    BY <1>L
  <2>2. Reply(c, k) \in RespPackets /\ Reply(c, k).id = c.id
    BY <2>1 DEF Reply, Resp, RespPackets, RespKinds
  <2> QED
    BY <1>p, <2>2
<1>s. /\ t[0] = <<>>
      /\ \A k \in 1..L : t[k] = Append(t[k - 1], Reply(c, k)) \/ t[k] = t[k - 1]
  BY <1>L, <1>t, ToldSteps
<1> DEFINE S == {k \in Nat : k <= L => t[k] \in Seq(P)}
<1>1. 0 \in S
  BY <1>s, EmptySeq
<1>2. ASSUME NEW n \in Nat, n \in S PROVE n + 1 \in S
  <2>1. CASE n + 1 <= L
    <3>1. n + 1 \in 1..L /\ n <= L /\ (n + 1) - 1 = n
      BY <2>1
    <3>2. t[n] \in Seq(P) /\ Reply(c, n + 1) \in P
      BY <1>2, <1>r, <3>1
    <3>3. Append(t[n], Reply(c, n + 1)) \in Seq(P)
      BY <3>2, AppendProperties
    <3>4. t[n + 1] \in Seq(P)
      BY <1>s, <3>1, <3>2, <3>3
    <3> QED
      BY <3>4
  <2> QED
    BY <2>1
<1>3. Nat \subseteq S
  <2> HIDE DEF S
  <2> QED
    BY <1>1, <1>2, SetInduction
<1> QED
  BY <1>3, <1>L, <1>p, <1>t

(***************************************************************************)
(* The packets of a request and of a response, one by one.                 *)
(***************************************************************************)
\* s is a sequence of m elements of S.
Sized(s, S, m) == s \in Seq(S) /\ m \in Nat /\ Len(s) = m

\* u is s, of length m, followed by t, of length n.
Joined(u, s, t, S, m, n) ==
    /\ u \in Seq(S) /\ Len(u) = m + n
    /\ \A i \in 1..m : u[i] = s[i]
    /\ \A i \in 1..n : u[m + i] = t[i]

\* Two sequences joined.
LEMMA JoinFacts ==
    ASSUME NEW S, NEW s, NEW t, NEW m, NEW n, Sized(s, S, m), Sized(t, S, n)
    PROVE  Joined(s \o t, s, t, S, m, n)
<1>0. s \in Seq(S) /\ t \in Seq(S) /\ m \in Nat /\ n \in Nat /\ m = Len(s) /\ n = Len(t)
  BY DEF Sized
<1>u. PICK u : u = s \o t
  OBVIOUS
<1>1. u \in Seq(S)
  BY <1>0, <1>u, ConcatProperties
<1>2. Len(u) = m + n
  <2>1. Len(s \o t) = Len(s) + Len(t)
    BY <1>0, ConcatProperties, Zenon
  <2> QED
    BY <1>0, <1>u, <2>1
<1>3. \A i \in 1..(m + n) : u[i] = IF i <= m THEN s[i] ELSE t[i - m]
  <2>1. \A i \in 1..(Len(s) + Len(t)) : (s \o t)[i] = IF i <= Len(s) THEN s[i] ELSE t[i - Len(s)]
    BY <1>0, ConcatProperties
  <2> QED
    BY <1>0, <1>u, <2>1
<1>4. ASSUME NEW i \in 1..m PROVE u[i] = s[i]
  <2>1. i \in 1..(m + n) /\ i <= m
    BY <1>0
  <2> QED
    BY <1>3, <2>1
<1>5. ASSUME NEW i \in 1..n PROVE u[m + i] = t[i]
  <2>1. m + i \in 1..(m + n) /\ ~(m + i <= m) /\ (m + i) - m = i
    BY <1>0
  <2> QED
    BY <1>3, <2>1
<1> QED
  BY <1>1, <1>2, <1>4, <1>5, <1>u DEF Joined

\* Where a frame has its arguments: behind the size line, if there is one.
SizeCount(c) == IF c.size THEN 1 ELSE 0

\* The lines of a request, one by one.
LEMMA FrameExact ==
    ASSUME NEW c \in Calls, c.op \in Ops
    PROVE  /\ Len(c.args) \in Nat
           /\ Len(Frame(c)) = 4 + SizeCount(c) + Len(c.args)
           /\ c.size => Frame(c)[4] = "size"
           /\ \A j \in 1..Len(c.args) : Frame(c)[3 + SizeCount(c) + j] = c.args[j]
<1>r. PICK R : R = ReqKinds \cup {"big"}
  OBVIOUS
<1>h. PICK h : h = << c.op, "cap", "delim" >>
  OBVIOUS
<1>a. PICK a : a = Arguments(c)
  OBVIOUS
<1>f. PICK f : f = << "flush" >>
  OBVIOUS
<1>1. h \in Seq(R) /\ Len(h) = 3
  BY <1>r, <1>h DEF ReqKinds, CommandLines, ControlKinds
<1>2. a \in Seq(R)
  BY <1>r, <1>a, ArgumentsFacts
<1>3. f \in Seq(R) /\ Len(f) = 1
  BY <1>r, <1>f DEF ReqKinds, ControlKinds
<1>n. PICK n \in Nat : n = Len(c.args)
  BY LenProperties DEF Calls
<1>z. PICK z \in Nat : z = SizeCount(c)
  BY DEF SizeCount
<1>4. /\ Len(a) = z + n
      /\ c.size => a[1] = "size"
      /\ \A j \in 1..n : a[z + j] = c.args[j]
  <2>0. c.args \in Seq(ArgKinds \cup {"big"}) /\ c.size \in BOOLEAN
    BY DEF Calls
  <2>1. CASE c.size
    <3>1. PICK s : s = << "size" >>
      OBVIOUS
    <3>2. s \in Seq({"size"} \cup ArgKinds \cup {"big"}) /\ Len(s) = 1 /\ s[1] = "size"
      BY <3>1
    <3>3. a = s \o c.args /\ z = 1
      BY <1>a, <1>z, <2>1, <3>1 DEF Arguments, SizeCount
    <3>4. c.args \in Seq({"size"} \cup ArgKinds \cup {"big"})
      BY <2>0
    <3>5. /\ Len(a) = 1 + n
          /\ \A j \in 1..1 : a[j] = s[j]
          /\ \A j \in 1..n : a[1 + j] = c.args[j]
      <4>r. PICK A : A = {"size"} \cup ArgKinds \cup {"big"}
        OBVIOUS
      <4>1. Sized(s, A, 1) /\ Sized(c.args, A, n)
        BY <1>n, <3>2, <3>4, <4>r DEF Sized
      <4>2. Joined(a, s, c.args, A, 1, n)
        BY <3>3, <4>1, JoinFacts
      <4> QED
        BY <4>2 DEF Joined
    <3>6. Len(a) = z + n
      BY <3>3, <3>5
    <3>7. a[1] = "size"
      <4>1. 1 \in 1..1
        OBVIOUS
      <4> QED
        BY <3>2, <3>5, <4>1
    <3>8. \A j \in 1..n : a[z + j] = c.args[j]
      BY <3>3, <3>5
    <3> QED
      BY <3>6, <3>7, <3>8
  <2>2. CASE ~c.size
    <3>1. a = << >> \o c.args /\ z = 0
      BY <1>a, <1>z, <2>2 DEF Arguments, SizeCount
    <3>2. << >> \o c.args = c.args
      BY <2>0
    <3> QED
      BY <1>n, <2>2, <3>1, <3>2
  <2> QED
    BY <2>1, <2>2
<1>x. PICK x : x = h \o a
  OBVIOUS
<1>5. x \in Seq(R) /\ Len(x) = 3 + (z + n) /\ \A i \in 1..(z + n) : x[3 + i] = a[i]
  <2>1. z + n \in Nat
    OBVIOUS
  <2>k. PICK k \in Nat : k = z + n
    BY <2>1
  <2>2. Sized(h, R, 3) /\ Sized(a, R, k)
    BY <1>1, <1>2, <1>4, <2>k DEF Sized
  <2>3. Joined(x, h, a, R, 3, k)
    BY <1>x, <2>2, JoinFacts
  <2> QED
    BY <2>3, <2>k DEF Joined
<1>6. Len(x) = 3 + z + n /\ 3 + z + n \in Nat
  BY <1>5
<1>7. ASSUME NEW i \in 1..(z + n) PROVE x[3 + i] = a[i]
  BY <1>5
<1>8. Frame(c) = x \o f
  BY <1>h, <1>a, <1>f, <1>x DEF Frame
<1>m. PICK m \in Nat : m = 3 + z + n
  BY <1>6
<1>F. Len(Frame(c)) = m + 1 /\ \A i \in 1..m : Frame(c)[i] = x[i]
  <2>1. Sized(x, R, m) /\ Sized(f, R, 1)
    BY <1>3, <1>5, <1>6, <1>m DEF Sized
  <2>2. Joined(Frame(c), x, f, R, m, 1)
    BY <1>8, <2>1, JoinFacts
  <2> QED
    BY <2>2 DEF Joined
<1>9. Len(Frame(c)) = 4 + z + n
  BY <1>F, <1>m
<1>10. ASSUME NEW i \in 1..(3 + z + n) PROVE Frame(c)[i] = x[i]
  BY <1>F, <1>m
<1>11. c.size => Frame(c)[4] = "size"
  <2> SUFFICES ASSUME c.size PROVE Frame(c)[4] = "size"
    OBVIOUS
  <2>1. z = 1 /\ 1 \in 1..(z + n) /\ 3 + 1 = 4 /\ 4 \in 1..(3 + z + n)
    BY <1>z DEF SizeCount
  <2>2. x[3 + 1] = a[1]
    BY <1>7, <2>1
  <2> QED
    BY <1>4, <1>10, <2>1, <2>2
<1>12. ASSUME NEW j \in 1..n PROVE Frame(c)[3 + z + j] = c.args[j]
  <2>1. z + j \in 1..(z + n) /\ 3 + (z + j) = 3 + z + j /\ 3 + z + j \in 1..(3 + z + n)
    OBVIOUS
  <2>2. x[3 + (z + j)] = a[z + j]
    BY <1>7, <2>1
  <2> QED
    BY <1>4, <1>10, <2>1, <2>2
<1> QED
  BY <1>9, <1>11, <1>12, <1>n, <1>z

\* The answer to object-info, packet by packet.
LEMMA ObjectInfoContent ==
    ASSUME NEW req \in Requests, NEW last \in LastEmitted(req.args),
           NEW out, out = ObjectInfoResponse(req, last)
    PROVE  /\ last \in Nat /\ last <= Len(req.args)
           /\ req.size /\ req.args # <<>> =>
                 /\ Len(out) = last + 2 /\ out[1].kind = "size"
                 /\ \A i \in 1..last : out[i + 1] = Resp(ReplyKind(req.args[i]), req.id, i)
           /\ ~(req.size /\ req.args # <<>>) =>
                 /\ Len(out) = last + 1
                 /\ \A i \in 1..last : out[i] = Resp(ReplyKind(req.args[i]), req.id, i)
<1>1. req.id \in Nat /\ req.args \in Seq(ArgKinds) /\ Len(req.args) \in Nat
  BY DEF Requests
<1>2. last \in Nat /\ last <= Len(req.args)
  BY <1>1 DEF LastEmitted, Corrupt
<1>r. PICK r : r = Replies(req, last)
  OBVIOUS
<1>3. /\ r \in Seq(RespPackets) /\ Len(r) = last
      /\ \A i \in 1..last : r[i] = Resp(ReplyKind(req.args[i]), req.id, i)
  <2>1. \A i \in 1..last : Resp(ReplyKind(req.args[i]), req.id, i) \in RespPackets
    BY <1>1, <1>2 DEF Resp, RespPackets, RespKinds, ReplyKind
  <2> QED
    BY <1>2, <1>r, <2>1 DEF Replies
<1>f. PICK f : f = << Resp("flush", req.id, 0) >>
  OBVIOUS
<1>4. f \in Seq(RespPackets) /\ Len(f) = 1
  <2>1. PICK p : p = Resp("flush", req.id, 0)
    OBVIOUS
  <2>2. p \in RespPackets
    BY <1>1, <2>1 DEF Resp, RespPackets, RespKinds
  <2> QED
    BY <1>f, <2>1, <2>2
<1>5. CASE req.size /\ req.args # <<>>
  <2>s. PICK s : s = Resp("size", req.id, 0)
    OBVIOUS
  <2>1. s \in RespPackets /\ s.kind = "size"
    BY <1>1, <2>s DEF Resp, RespPackets, RespKinds
  <2>u. PICK u : u = << s >> \o r
    OBVIOUS
  <2>2. << s >> \in Seq(RespPackets) /\ Len(<< s >>) = 1 /\ << s >>[1] = s
    BY <2>1
  <2>h. PICK h : h = << s >>
    OBVIOUS
  <2>3. u \in Seq(RespPackets) /\ Len(u) = last + 1 /\ u[1] = s /\ \A i \in 1..last : u[i + 1] = r[i]
    <3>1. /\ u \in Seq(RespPackets) /\ Len(u) = 1 + last
          /\ \A i \in 1..1 : u[i] = h[i]
          /\ \A i \in 1..last : u[1 + i] = r[i]
      <4>1. h \in Seq(RespPackets) /\ Len(h) = 1
        BY <2>2, <2>h
      <4>2. Sized(h, RespPackets, 1) /\ Sized(r, RespPackets, last)
        BY <1>2, <1>3, <4>1 DEF Sized
      <4>3. Joined(u, h, r, RespPackets, 1, last)
        BY <2>h, <2>u, <4>2, JoinFacts
      <4> QED
        BY <4>3 DEF Joined
    <3>2. 1 + last = last + 1 /\ h[1] = s /\ \A i \in 1..last : 1 + i = i + 1
      BY <1>2, <2>2, <2>h
    <3> QED
      BY <3>1, <3>2
  <2>4. out = u \o f
    BY <1>5, <1>f, <1>r, <2>s, <2>u DEF ObjectInfoResponse
  <2>m. PICK m \in Nat : m = last + 1
    BY <1>2
  <2>o. Len(out) = m + 1 /\ \A i \in 1..m : out[i] = u[i]
    <3>1. Sized(u, RespPackets, m) /\ Sized(f, RespPackets, 1)
      BY <1>4, <2>3, <2>m DEF Sized
    <3>2. Joined(out, u, f, RespPackets, m, 1)
      BY <2>4, <3>1, JoinFacts
    <3> QED
      BY <3>2 DEF Joined
  <2>5. Len(out) = last + 2
    BY <1>2, <2>m, <2>o
  <2>6. ASSUME NEW i \in 1..(last + 1) PROVE out[i] = u[i]
    BY <2>m, <2>o
  <2>7. out[1] = s
    BY <1>2, <2>3, <2>6
  <2>8. ASSUME NEW i \in 1..last PROVE out[i + 1] = Resp(ReplyKind(req.args[i]), req.id, i)
    <3>1. i + 1 \in 1..(last + 1)
      BY <1>2
    <3> QED
      BY <1>3, <2>3, <2>6, <3>1
  <2> QED
    BY <1>2, <1>5, <2>1, <2>5, <2>7, <2>8
<1>6. CASE ~(req.size /\ req.args # <<>>)
  <2>1. << >> \o r = r
    BY <1>3
  <2>2. out = (<< >> \o r) \o f
    BY <1>6, <1>f, <1>r DEF ObjectInfoResponse
  <2>3. out = r \o f
    BY <2>1, <2>2
  <2>4. Len(out) = last + 1 /\ \A i \in 1..last : out[i] = r[i]
    <3>1. Sized(r, RespPackets, last) /\ Sized(f, RespPackets, 1)
      BY <1>2, <1>3, <1>4 DEF Sized
    <3>2. Joined(out, r, f, RespPackets, last, 1)
      BY <2>3, <3>1, JoinFacts
    <3> QED
      BY <3>2 DEF Joined
  <2> QED
    BY <1>2, <1>3, <1>6, <2>4
<1> QED
  BY <1>5, <1>6

(***************************************************************************)
(* Steps that leave the request, the response and the caller alone.        *)
(***************************************************************************)
\* What the invariant says depends on these variables only.
LEMMA ContentSame ==
    ASSUME ContentInv, UNCHANGED <<version, sreq, sout, clientVars>>, Live' => Live,
           spc' \in {"loop", "first", "request", "args"} =>
              spc \in {"loop", "first", "request", "args"} \/ sout = <<>>
    PROVE  ContentInv'
<1>1. UNCHANGED <<cpc, cret, call, pos, sized, got, refs, deadErr, result>>
  BY DEF clientVars
<1>2. CallState'
  BY <1>1 DEF ContentInv, CallState, InCall, Place
<1>3. NothingSaid'
  BY <1>1 DEF ContentInv, NothingSaid
<1>4. ListingLeft'
  BY <1>1 DEF ContentInv, ListingLeft
<1>5. ArgsRead'
  BY <1>1 DEF ContentInv, ArgsRead, SizeLines
<1>6. InfoLeft'
  <2> SUFFICES ASSUME cpc' = "decode", Live' PROVE InfoLeft'
    BY DEF InfoLeft
  <2>1. PICK last \in LastEmitted(call.args) :
          \/ /\ call.size /\ call.args # <<>> /\ ~sized /\ got = <<>>
             /\ Len(sout) = last + 2 /\ sout[1].kind = "size"
             /\ \A i \in 1..last : sout[i + 1] = Resp(ReplyKind(call.args[i]), call.id, i)
          \/ \E k \in 0..last : RepliesLeft(k, last)
    BY <1>1 DEF ContentInv, InfoLeft
  <2>2. \A k : RepliesLeft(k, last) => RepliesLeft(k, last)'
    BY <1>1 DEF RepliesLeft
  <2> QED
    BY <1>1, <2>1, <2>2 DEF InfoLeft
<1> QED
  BY <1>2, <1>3, <1>4, <1>5, <1>6 DEF ContentInv

\* The goroutine's own steps.
LEMMA ServerContent ==
    ASSUME ContentInv, Parked, ServerStep \/ StoreFails
    PROVE  ContentInv'
<1>1. CASE ServerReadError \/ ServerWriteError \/ StoreFails
  <2>1. Live /\ ~Live' /\ UNCHANGED <<version, sreq, sout, clientVars>>
    BY <1>1 DEF ServerReadError, ServerReadFails, ServerReading, ServerWriteError, ServerWriteFails,
       ServerWriting, StoreFails, ServerStoreFails, ServerReturn, Live
  <2>2. spc' \notin {"loop", "first", "request", "args"}
    BY <2>1 DEF Live
  <2> QED
    BY <2>1, <2>2, ContentSame
<1>2. CASE ServerInternal
  <2>1. UNCHANGED <<version, sreq, sout, clientVars>> /\ (Live' => Live)
    BY <1>2 DEF ServerInternal, ServerCheckCtx, ServerFinishes, ServerClosesWriter, ServerClosesReader,
       ServerDone, ServerReturn, Live
  <2>2. spc' \in {"loop", "first", "request", "args"} => spc = "loop" \/ sout = <<>>
    BY <1>2 DEF ServerInternal, ServerCheckCtx, ServerFinishes, ServerClosesWriter, ServerClosesReader,
       ServerDone, ServerReturn
  <2> QED
    BY <2>1, <2>2, ContentSame
<1> QED
  BY <1>1, <1>2 DEF ServerStep

\* Conn.Close.
LEMMA CloseContent ==
    ASSUME TypeOK, TeardownInv, ContentInv, CloseStarts \/ CloseStep
    PROVE  ContentInv'
<1>1. CASE CloseReturns
  <2>1. /\ kpc = "closed" /\ cpc = "close" /\ cpc' = cret /\ spc' = spc /\ UNCHANGED <<version, sreq, sout>>
        /\ UNCHANGED <<cret, call, pos, sized, got, refs, deadErr, result>>
    BY <1>1 DEF CloseReturns, ClientClosed, serverVars
  <2>2. spc = "done" /\ cret \in {"idle", "iter", "yield", "failed", "gone"}
    BY <2>1 DEF TeardownInv, TypeOK, ClientTypeOK, CallerStates
  <2>3. Place' = Place
    BY <2>1, <2>2 DEF Place
  <2>4. CallState'
    BY <2>1, <2>2, <2>3 DEF ContentInv, CallState, InCall
  <2>5. NothingSaid' /\ ListingLeft' /\ ArgsRead' /\ InfoLeft'
    BY <2>1, <2>2 DEF NothingSaid, ListingLeft, ArgsRead, InfoLeft
  <2> QED
    BY <2>4, <2>5 DEF ContentInv
<1>2. CASE UNCHANGED <<serverVars, clientVars>>
  BY <1>2, ContentSame DEF serverVars, Live
<1> QED
  BY <1>1, <1>2 DEF CloseStarts, CloseStep, CloseCancels, CloseClientReader, CloseClientWriter,
     CloseServerReader, CloseServerWriter, CloseWaits, CloseStore

\* A call begins, with a number of its own.
LEMMA CallContent ==
    ASSUME TypeOK, ContentInv, cpc = "idle", UNCHANGED serverVars,
           NEW c, c.id = call.id + 1,
           \/ \E delivered, res : Answer(c, delivered, res)
           \/ deadErr = "nil" /\ version = "v2" /\ Command(c)
    PROVE  ContentInv'
<1>0. call.id \in Nat /\ sreq.id \in Nat
  BY DEF TypeOK, ClientTypeOK, ServerTypeOK, Calls, Requests
<1>1. UNCHANGED <<version, spc, sreq, sout>>
  BY DEF serverVars
<1>2. /\ call' = c /\ pos' = 1 /\ sized' = FALSE /\ UNCHANGED <<cret, deadErr>>
      /\ cpc' \in {"idle", "failed"} \/ (cpc' = "write" /\ result' = "none" /\ deadErr = "nil" /\ version = "v2")
  BY DEF Answer, Command
<1>3. sreq.id < c.id
  BY <1>0 DEF ContentInv, CallState
<1>4. CallState'
  BY <1>0, <1>1, <1>2, <1>3 DEF CallState, InCall, Place
<1>5. NothingSaid'
  BY <1>1, <1>2, <1>3 DEF ContentInv, NothingSaid
<1>6. ListingLeft' /\ ArgsRead' /\ InfoLeft'
  BY <1>2 DEF ListingLeft, ArgsRead, InfoLeft
<1> QED
  BY <1>4, <1>5, <1>6 DEF ContentInv

\* What the caller does by itself.
LEMMA CallerContent ==
    ASSUME TypeOK, ContentInv, CallerStep
    PROVE  ContentInv'
<1>1. UNCHANGED serverVars
  BY DEF CallerStep
<1>2. CASE CallRefs
  <2>1. PICK args : LET c == NewCall("ls-refs", FALSE, args) IN
              \/ Answer(c, << >>, "SessionDead")
              \/ Answer(c, refs, "ok")
              \/ deadErr = "nil" /\ version = "v2" /\ Command(c)
    BY <1>2 DEF CallRefs
  <2>2. cpc = "idle" /\ NewCall("ls-refs", FALSE, args).id = call.id + 1
    BY <1>2 DEF CallRefs, NewCall
  <2> QED
    BY <1>1, <2>1, <2>2, CallContent
<1>3. CASE CallObjectInfo
  <2>1. PICK size, args : LET c == NewCall("object-info", size, args) IN
              \/ Answer(c, << >>, "SessionDead")
              \/ Answer(c, << >>, "Unsupported")
              \/ deadErr = "nil" /\ version = "v2" /\ Command(c)
    BY <1>3 DEF CallObjectInfo
  <2>2. cpc = "idle" /\ NewCall("object-info", size, args).id = call.id + 1
    BY <1>3 DEF CallObjectInfo, NewCall
  <2> QED
    BY <1>1, <2>1, <2>2, CallContent
<1>4. CASE RangeOver \/ Continue \/ Break \/ CallClose \/ IgnoreError
  <2>1. UNCHANGED <<version, spc, sreq, sout>>
    BY <1>1 DEF serverVars
  <2>2. /\ UNCHANGED <<call, pos, sized, got, refs, deadErr, result>>
        /\ \/ cpc \in {"iter", "yield"} /\ cpc' \in {"read", "drain"}
           \/ cpc' = "close" /\ cpc \in {"idle", "iter", "yield", "failed"} /\ cret' \in {"idle", cpc}
           \/ cpc' = "idle"
    BY <1>4 DEF RangeOver, Continue, Break, CallClose, IgnoreError
  <2>3. CallState'
    BY <2>1, <2>2 DEF ContentInv, CallState, InCall, Place
  <2>4. NothingSaid' /\ ListingLeft' /\ ArgsRead' /\ InfoLeft'
    BY <2>1, <2>2 DEF ContentInv, NothingSaid, ListingLeft, ArgsRead, InfoLeft
  <2> QED
    BY <2>3, <2>4 DEF ContentInv
<1> QED
  BY <1>2, <1>3, <1>4 DEF CallerStep

\* The caller meets an error: it is out of the call.
LEMMA ClientContent ==
    ASSUME TypeOK, ContentInv, ClientStep
    PROVE  ContentInv'
<1>1. UNCHANGED <<version, spc, sreq, sout>>
  BY DEF ClientStep, PayloadRejected, ClientReadError, ClientWriteError, serverVars
<1>2. /\ UNCHANGED call /\ cpc' \in {"idle", "failed", "close"}
      /\ cpc' = "close" => cret' \in {"gone", "idle"}
  <2>1. CASE PayloadRejected
    BY <2>1 DEF PayloadRejected, ClientTooLarge, CommandFails
  <2>2. CASE ClientReadError
    BY <2>2 DEF ClientReadError, ClientReadFails, DialFails, EndsWith, MarkDead
  <2>3. CASE ClientWriteError
    BY <2>3 DEF ClientWriteError, ClientWriteFails, CommandFails
  <2> QED
    BY <2>1, <2>2, <2>3 DEF ClientStep
<1>3. CallState'
  BY <1>1, <1>2 DEF ContentInv, CallState, InCall, Place
<1>4. NothingSaid' /\ ListingLeft' /\ ArgsRead' /\ InfoLeft'
  BY <1>1, <1>2 DEF ContentInv, NothingSaid, ListingLeft, ArgsRead, InfoLeft
<1> QED
  BY <1>3, <1>4 DEF ContentInv

(***************************************************************************)
(* A request packet changes hands.                                         *)
(***************************************************************************)
\* The server has read the whole request: what it holds is the call.
LEMMA RequestRead ==
    ASSUME TypeOK, ArgsRead, Live, cpc = "write", pos = Len(Frame(call)), Serving
    PROVE  sreq.args = call.args /\ sreq.size = call.size
<1>1. /\ call \in Calls /\ call.op \in Ops /\ pos \in Nat /\ sreq \in Requests
      /\ call.args \in Seq(ArgKinds \cup {"big"}) /\ call.size \in BOOLEAN /\ sreq.args \in Seq(ArgKinds)
  BY DEF TypeOK, ClientTypeOK, ServerTypeOK, Calls, Requests
<1>n. PICK n \in Nat : n = Len(call.args)
  BY <1>1, LenProperties
<1>z. PICK z \in Nat : z = SizeCount(call) /\ z = SizeLines /\ (call.size <=> z = 1)
  BY DEF SizeCount, SizeLines
<1>2. pos = 4 + z + n
  BY <1>1, <1>n, <1>z, FrameExact
<1>3. /\ pos # 1 /\ sreq.size = (call.size /\ pos > 4)
      /\ pos > 4 + z => Len(sreq.args) = pos - 4 - z
      /\ pos <= 4 + z => sreq.args = <<>>
      /\ \A j \in 1..Len(sreq.args) : sreq.args[j] = call.args[j]
  BY <1>2, <1>z DEF ArgsRead
<1>4. Len(sreq.args) = n
  <2>1. CASE n = 0
    BY <1>2, <1>3, <2>1
  <2>2. CASE n # 0
    <3>1. pos > 4 + z /\ pos - 4 - z = n
      BY <1>2, <2>2
    <3> QED
      BY <1>3, <3>1
  <2> QED
    BY <2>1, <2>2
<1>5. sreq.args \in Seq(ArgKinds \cup {"big"})
  BY <1>1
<1>6. sreq.args = call.args
  BY <1>1, <1>3, <1>4, <1>5, <1>n, SeqEqual
<1>7. sreq.size = call.size
  BY <1>1, <1>2, <1>3, <1>z
<1> QED
  BY <1>6, <1>7

\* One more argument line of a request has been read.
LEMMA ArgumentRead ==
    ASSUME TypeOK, CallInv, ArgsRead, Live, cpc = "write", Serving, UNCHANGED call, pos' = pos + 1,
           pos >= 4, pos < Len(Frame(call)), spc = "args", ServerReadsArg(Frame(call)[pos]),
           \/ call.op = "ls-refs" /\ Frame(call)[pos] = "prefix"
           \/ call.op = "object-info" /\ Frame(call)[pos] \in OidKinds \cup {"size"}
    PROVE  ArgsRead' /\ sout' = sout /\ sreq'.id = sreq.id
<1>1. /\ call \in Calls /\ call.op \in Ops /\ pos \in Nat /\ sreq \in Requests
      /\ call.args \in Seq(ArgKinds \cup {"big"}) /\ call.size \in BOOLEAN /\ sreq.args \in Seq(ArgKinds)
  BY DEF TypeOK, ClientTypeOK, ServerTypeOK, Calls, Requests
<1>n. PICK n \in Nat : n = Len(call.args)
  BY <1>1, LenProperties
<1>m. PICK m \in Nat : m = Len(sreq.args)
  BY <1>1, LenProperties
<1>z. PICK z \in Nat : /\ z = SizeCount(call) /\ z = SizeLines /\ z = SizeLines'
  BY DEF SizeCount, SizeLines
<1>p. (call.size /\ z = 1) \/ (~call.size /\ z = 0)
  BY <1>z DEF SizeCount
<1>2. /\ pos < 4 + z + n
      /\ call.size => Frame(call)[4] = "size"
      /\ \A j \in 1..n : Frame(call)[3 + z + j] = call.args[j]
  BY <1>1, <1>n, <1>z, FrameExact
<1>3. /\ sreq.size = (call.size /\ pos > 4)
      /\ pos > 4 + z => m = pos - 4 - z
      /\ pos <= 4 + z => sreq.args = <<>>
      /\ \A j \in 1..m : sreq.args[j] = call.args[j]
  BY <1>m, <1>z DEF ArgsRead
<1>4. CASE call.size /\ pos = 4
  <2>1. z = 1 /\ Frame(call)[pos] = "size" /\ call.op = "object-info"
    BY <1>1, <1>2, <1>4, <1>p DEF CallInv, Ops
  <2>2. sreq' = [sreq EXCEPT !.size = TRUE] /\ sout' = sout
    BY <1>1, <2>1 DEF ServerReadsArg, Serving, OidKinds
  <2>3. sreq'.size = TRUE /\ sreq'.args = sreq.args /\ sreq'.id = sreq.id
    BY <1>1, <2>2 DEF Requests
  <2>4. pos' = 5 /\ sreq.args = <<>>
    BY <1>3, <1>4, <2>1
  <2>5. SizeLines' = 1 /\ call'.size /\ Len(<<>>) = 0
    BY <1>4, <1>z, <2>1
  <2>6. sreq'.size = (call'.size /\ pos' > 4)
    <3>1. (call'.size /\ pos' > 4) = TRUE
      BY <2>4, <2>5
    <3> QED
      BY <2>3, <3>1
  <2>7. ArgsRead'
    BY <2>3, <2>4, <2>5, <2>6 DEF ArgsRead
  <2> QED
    BY <2>2, <2>3, <2>7
<1>5. CASE ~(call.size /\ pos = 4)
  <2>j. PICK j \in Nat : j = pos - 3 - z
    <3>0. pos >= 4 + z
      BY <1>1, <1>5, <1>p
    <3>1. pos - 3 - z \in Nat
      BY <1>1, <3>0
    <3> QED
      BY <3>1
  <2>1. j \in 1..n /\ 3 + z + j = pos /\ pos >= 4 + z
    BY <1>1, <1>2, <1>5, <1>p, <2>j
  <2>2. Frame(call)[pos] = call.args[j] /\ call.args[j] # "size"
    <3>1. Frame(call)[pos] = call.args[j]
      BY <1>2, <2>1
    <3>2. call.args[j] \in ArgKinds \cup {"big"}
      BY <1>1, <1>n, <2>1
    <3> QED
      BY <3>1, <3>2 DEF ArgKinds, OidKinds
  <2>3. sreq' = [sreq EXCEPT !.args = Append(@, call.args[j])] /\ sout' = sout
    BY <1>1, <2>2 DEF ServerReadsArg, Serving, OidKinds
  <2>4. /\ sreq'.args = Append(sreq.args, call.args[j]) /\ sreq'.size = sreq.size /\ sreq'.id = sreq.id
    BY <1>1, <2>3 DEF Requests
  <2>5. m = j - 1
    <3>1. CASE pos = 4 + z
      <4>1. Len(sreq.args) = 0
        BY <1>3, <3>1
      <4> QED
        BY <1>m, <2>j, <3>1, <4>1
    <3>2. CASE pos # 4 + z
      BY <1>1, <1>3, <2>1, <2>j, <3>2
    <3> QED
      BY <3>1, <3>2
  <2>a. PICK a : a = sreq'.args
    OBVIOUS
  <2>6. Len(a) = j /\ a[j] = call.args[j] /\ \A i \in 1..(j - 1) : a[i] = sreq.args[i]
    <3>1. call.args[j] \in ArgKinds \cup {"big"} /\ sreq.args \in Seq(ArgKinds \cup {"big"})
      BY <1>1, <1>n, <2>1
    <3>b. PICK b : b = sreq.args
      OBVIOUS
    <3>2. Len(a) = m + 1 /\ a[m + 1] = call.args[j] /\ \A i \in 1..m : a[i] = b[i]
      BY <1>m, <2>4, <2>a, <3>1, <3>b, AppendProperties
    <3>3. m + 1 = j
      BY <2>5
    <3> QED
      BY <2>5, <3>2, <3>3, <3>b
  <2>7. ASSUME NEW i \in 1..j PROVE a[i] = call.args[i]
    <3>1. CASE i = j
      BY <2>6, <3>1
    <3>2. CASE i # j
      <4>1. i \in 1..(j - 1)
        BY <3>2
      <4> QED
        BY <1>3, <2>5, <2>6, <4>1
    <3> QED
      BY <3>1, <3>2
  <2>8. pos' > 4 + z /\ pos' - 4 - z = j
    BY <1>1, <2>1, <2>j
  <2>9. sreq'.size = (call.size /\ pos' > 4)
    BY <1>1, <1>3, <1>5, <1>p, <2>4, <2>8
  <2>10. ArgsRead'
    BY SMTT(30), <1>z, <2>6, <2>7, <2>8, <2>9, <2>a DEF ArgsRead
  <2> QED
    BY <2>3, <2>4, <2>10
<1> QED
  BY <1>4, <1>5

\* The response to object-info begins: nothing of it has been read.
LEMMA InfoBegins ==
    ASSUME TypeOK, call.op = "object-info", call.id = sreq.id, sreq.args = call.args, sreq.size = call.size,
           ~sized, got = <<>>, Respond(sreq), sreq.op = call.op, UNCHANGED <<call, sized, got>>
    PROVE  InfoLeft'
<1>1. sreq \in Requests /\ call.args \in Seq(ArgKinds \cup {"big"}) /\ call.size \in BOOLEAN
  BY DEF TypeOK, ServerTypeOK, ClientTypeOK, Calls
<1>2. PICK last \in LastEmitted(sreq.args) : sout' = ObjectInfoResponse(sreq, last)
  BY DEF Respond
<1>3. /\ last \in Nat
      /\ sreq.size /\ sreq.args # <<>> =>
            /\ Len(sout') = last + 2 /\ sout'[1].kind = "size"
            /\ \A i \in 1..last : sout'[i + 1] = Resp(ReplyKind(sreq.args[i]), sreq.id, i)
      /\ ~(sreq.size /\ sreq.args # <<>>) =>
            /\ Len(sout') = last + 1
            /\ \A i \in 1..last : sout'[i] = Resp(ReplyKind(sreq.args[i]), sreq.id, i)
  BY <1>1, <1>2, ObjectInfoContent
<1>4. CASE call.size /\ call.args # <<>>
  BY <1>2, <1>3, <1>4 DEF InfoLeft
<1>5. CASE ~(call.size /\ call.args # <<>>)
  <2>1. ToldUpTo(call)[0] = <<>>
    BY <1>1, ToldSteps
  <2>2. got' = ToldUpTo(call')[0]
    BY <2>1
  <2>3. last - 0 = last /\ \A i \in 1..last : 0 + i = i
    BY <1>3
  <2>4. /\ Len(sout') = (last - 0) + 1
        /\ \A i \in 1..(last - 0) : sout'[i] = Resp(ReplyKind(call'.args[0 + i]), call'.id, 0 + i)
    <3>1. Len(sout') = last + 1 /\ \A i \in 1..last : sout'[i] = Resp(ReplyKind(call.args[i]), call.id, i)
      BY <1>3, <1>5
    <3> QED
      BY <2>3, <3>1
  <2>6. sized' = (call'.size /\ call'.args # <<>>)
    <3>1. (call'.size /\ call'.args # <<>>) = FALSE
      BY <1>5
    <3>2. sized' = FALSE
      BY DEF TypeOK, ClientTypeOK
    <3> QED
      BY <3>1, <3>2
  <2>7. \A i \in 1..0 : ReplyKind(call'.args[i]) # "ERR"
    OBVIOUS
  <2>8. RepliesLeft(0, last)'
    BY <2>2, <2>4, <2>6, <2>7 DEF RepliesLeft
  <2>5. 0 \in 0..last
    BY <1>3
  <2> QED
    BY <1>2, <2>5, <2>8 DEF InfoLeft
<1> QED
  BY <1>4, <1>5

\* A request packet taken by the server.
LEMMA RequestContent ==
    ASSUME TypeOK, InStep, Parked, CallInv, ContentInv, SendRequest
    PROVE  ContentInv'
<1>0. /\ cpc = "write" /\ ServerReading /\ Live /\ Frame(call)[pos] # "big"
      /\ UNCHANGED <<call, cret, sized, got, refs, result, deadErr>> /\ pos' = pos + 1
      /\ cpc' = IF pos < Len(Frame(call)) THEN "write"
                ELSE IF call.op = "ls-refs" THEN "iter" ELSE "decode"
      /\ ServerReads(Frame(call)[pos], call.id)
  BY DEF SendRequest, ClientWriting, ClientWrote, ServerReading, Live
<1>c. CallState /\ NothingSaid /\ ArgsRead
  BY DEF ContentInv
<1>1. /\ call \in Calls /\ call.op \in Ops /\ pos \in 1..Len(Frame(call)) /\ pos \in Nat
      /\ sreq \in Requests /\ call.id \in Nat /\ call.size \in BOOLEAN /\ got = <<>> /\ ~sized
  BY <1>0, <1>c DEF TypeOK, ClientTypeOK, ServerTypeOK, Calls, CallInv, NothingSaid
<1>2. /\ Len(Frame(call)) \in Nat /\ Len(Frame(call)) >= 4
      /\ Frame(call)[1] = call.op /\ Frame(call)[2] = "cap" /\ Frame(call)[3] = "delim"
  BY <1>1, FrameFacts
<1>3. \/ pos = 1 /\ spc = "first"
      \/ pos \in {2, 3} /\ spc = "request" /\ Serving
      \/ pos >= 4 /\ spc = "args" /\ Serving
  BY <1>0 DEF InStep, Resting, ServerReading
<1>4. sout = <<>> /\ deadErr = "nil" /\ version = "v2" /\ result = "none"
  BY <1>0, <1>3, <1>c DEF NothingSaid, CallState, InCall, Place
<1>5. version' = version /\ sreq'.id = call.id
  <2>1. Serving' /\ version' = version
    BY RequestInStep
  <2> QED
    BY <1>0, <2>1 DEF Serving
<1>6. CallState'
  <2>1. CASE cpc' = "write"
    BY <1>0, <1>1, <1>4, <1>5, <2>1 DEF CallState, InCall, Place
  <2>2. CASE cpc' = "iter" /\ call.op = "ls-refs"
    BY <1>0, <1>1, <1>4, <1>5, <2>2 DEF CallState, InCall, Place
  <2>3. CASE cpc' = "decode"
    BY <1>0, <1>1, <1>4, <1>5, <2>3 DEF CallState, InCall, Place
  <2> QED
    BY <1>0, <2>1, <2>2, <2>3
<1>7. ListingLeft'
  BY <1>0 DEF ListingLeft
<1>8. CASE pos \in {1, 2, 3}
  <2>1. cpc' = "write" /\ pos' \in {2, 3, 4}
    BY <1>0, <1>2, <1>8
  <2>2. sout' = sout /\ sreq'.args = <<>> /\ sreq'.size = FALSE
    <3>1. CASE pos = 1 /\ spc = "first"
      <4>1. /\ sreq' = [NoRequest EXCEPT !.op = call.op, !.id = call.id, !.seen = TRUE]
            /\ sout' = sout
        BY <1>0, <1>1, <1>2, <3>1
           DEF ServerReads, ServerReadsHead, ServerReadsArg, Fresh, Ops, CommandLines, ControlKinds, NoRequest
      <4> QED
        BY <4>1 DEF NoRequest
    <3>2. CASE pos \in {2, 3} /\ spc = "request" /\ Serving
      <4>1. (sreq' = [sreq EXCEPT !.seen = TRUE] \/ sreq' = sreq) /\ sout' = sout
        <5>1. CASE pos = 2
          BY <1>0, <1>1, <1>2, <3>2, <5>1
             DEF ServerReads, ServerReadsHead, ServerReadsArg, Fresh, Ops, CommandLines, ControlKinds
        <5>2. CASE pos = 3
          <6>1. Dispatch(sreq, "delim")
            BY <1>0, <1>1, <1>2, <3>2, <5>2
               DEF ServerReads, ServerReadsHead, ServerReadsArg, Fresh, Ops, CommandLines, ControlKinds
          <6> QED
            BY <1>1, <3>2, <6>1 DEF Dispatch, Serving, Ops
        <5> QED
          BY <3>2, <5>1, <5>2
      <4>2. sreq'.args = sreq.args /\ sreq'.size = sreq.size
        BY <1>1, <4>1 DEF Requests
      <4>3. sreq.args = <<>> /\ sreq.size = FALSE
        <5>1. pos # 1 /\ ~(pos > 4) /\ pos <= 4 + SizeLines
          BY <3>2 DEF SizeLines
        <5>2. sreq.args = <<>> /\ ~sreq.size
          BY <1>0, <1>c, <5>1 DEF ArgsRead
        <5> QED
          BY <1>1, <5>2 DEF Requests
      <4> QED
        BY <4>1, <4>2, <4>3
    <3>3. ~(pos >= 4)
      BY <1>8
    <3> QED
      BY <1>3, <3>1, <3>2, <3>3, Zenon
  <2>3. NothingSaid'
    BY <1>0, <1>1, <1>4, <2>1, <2>2 DEF NothingSaid
  <2>4. ArgsRead'
    <3>1. SizeLines' \in {0, 1} /\ ~(pos' > 4 + SizeLines') /\ ~(pos' > 4)
      BY <2>1 DEF SizeLines
    <3>2. (call'.size /\ pos' > 4) = FALSE
      BY <3>1
    <3>3. 1..Len(<<>>) = {}
      OBVIOUS
    <3> QED
      BY <2>2, <3>1, <3>2, <3>3 DEF ArgsRead
  <2>5. InfoLeft'
    BY <2>1 DEF InfoLeft
  <2> QED
    BY <1>6, <1>7, <2>3, <2>4, <2>5 DEF ContentInv
<1>9. CASE pos >= 4 /\ spc = "args" /\ Serving
  <2>0. ServerReadsArg(Frame(call)[pos])
    BY <1>0, <1>9 DEF ServerReads, ServerReadsHead
  <2>1. CASE pos = Len(Frame(call)) /\ Frame(call)[pos] = "flush"
    <3>1. Respond(sreq)
      BY <1>0, <2>0, <2>1 DEF ServerReadsArg, OidKinds
    <3>2. cpc' = (IF call.op = "ls-refs" THEN "iter" ELSE "decode") /\ cpc' # "write"
      BY <1>0, <1>2, <2>1
    <3>3. sreq.args = call.args /\ sreq.size = call.size /\ sreq.id = call.id /\ sreq.op = call.op
      BY <1>0, <1>9, <1>c, <2>1, RequestRead DEF Serving
    <3>4. NothingSaid' /\ ArgsRead'
      BY <3>1, <3>2 DEF NothingSaid, ArgsRead, Respond
    <3>5. InfoLeft'
      <4>1. CASE call.op = "object-info"
        BY <1>0, <1>1, <3>1, <3>3, <4>1, InfoBegins
      <4>2. CASE call.op = "ls-refs"
        BY <3>2, <4>2 DEF InfoLeft
      <4> QED
        BY <1>1, <4>1, <4>2 DEF Ops
    <3> QED
      BY <1>6, <1>7, <3>4, <3>5 DEF ContentInv
  <2>2. CASE /\ pos < Len(Frame(call))
             /\ \/ call.op = "ls-refs" /\ Frame(call)[pos] = "prefix"
                \/ call.op = "object-info" /\ Frame(call)[pos] \in OidKinds \cup {"size"}
    <3>1. ArgsRead' /\ sout' = sout
      BY <1>0, <1>9, <1>c, <2>0, <2>2, ArgumentRead
    <3>2. cpc' = "write" /\ pos' # 1
      BY <1>0, <1>1, <2>2
    <3>3. NothingSaid'
      BY <1>0, <1>1, <1>4, <3>1, <3>2 DEF NothingSaid
    <3>4. InfoLeft'
      BY <3>2 DEF InfoLeft
    <3> QED
      BY <1>6, <1>7, <3>1, <3>3, <3>4 DEF ContentInv
  <2> QED
    BY <1>0, <1>9, <2>1, <2>2, ArgumentKnown
<1> QED
  BY <1>3, <1>8, <1>9

(***************************************************************************)
(* A response packet changes hands.                                        *)
(***************************************************************************)
\* Dial reads one more packet of the advertisement.
LEMMA ListingContent ==
    ASSUME TypeOK, ListingLeft, FlushEnds(sout), Live, sout' = Tail(sout), UNCHANGED sreq,
           ClientReadsAdvertisement(Head(sout))
    PROVE  /\ ListingLeft'
           /\ Head(sout).kind = "flush" => refs = Lines(0, sreq.n)
<1>0. /\ cpc = "dial" /\ cpc' = IF Head(sout).kind = "flush" THEN "idle" ELSE "dial"
      /\ refs' = IF Head(sout).kind = "line" THEN Append(refs, Head(sout)) ELSE refs
  BY DEF ClientReadsAdvertisement
<1>1. sout \in Seq(RespPackets) /\ sreq.n \in Nat /\ refs \in Seq(RespPackets)
  BY DEF TypeOK, ServerTypeOK, ClientTypeOK, Requests
<1>m. PICK m \in Nat : m = Len(sout)
  BY <1>1, LenProperties
<1>k. PICK k \in Nat : k = Len(refs)
  BY <1>1, LenProperties
<1>2. /\ Head(sout) \in RespPackets /\ Head(sout) = sout[1]
      /\ Head(sout).kind = "flush" => m = 1
      /\ Len(sout') = m - 1 /\ m >= 1
      /\ \A i \in 1..(m - 1) : sout'[i] = sout[i + 1]
  BY <1>1, <1>m, FlushAfterTail
<1>3. CASE refs = <<>> /\ sreq.n = 0 /\ \A i \in 1..m : sout[i].kind # "line"
  <2>1. Head(sout).kind # "line"
    BY <1>2, <1>3
  <2>2. refs' = <<>> /\ Len(<<>>) = 0
    BY <1>0, <1>3, <2>1
  <2>3. \A i \in 1..(m - 1) : sout'[i].kind # "line"
    <3>1. ASSUME NEW i \in 1..(m - 1) PROVE sout'[i].kind # "line"
      <4>1. i + 1 \in 1..m
        OBVIOUS
      <4> QED
        BY <1>2, <1>3, <4>1
    <3> QED
      BY <3>1
  <2>4. Lines(0, 0) = <<>>
    <3>1. Lines(0, 0) \in Seq(RespPackets) /\ Len(Lines(0, 0)) = 0
      BY LinesType
    <3> QED
      BY <3>1, EmptySeq
  <2>5. ListingLeft'
    BY <1>2, <1>3, <2>2, <2>3, <2>4 DEF ListingLeft
  <2> QED
    BY <1>3, <2>4, <2>5
<1>4. CASE k + m = sreq.n + 1 /\ \A i \in 1..(m - 1) : sout[i] = Resp("line", 0, k + i)
  <2>0. refs = Lines(0, k)
    BY <1>0, <1>k DEF ListingLeft
  <2>1. CASE m = 1
    <3>1. Head(sout).kind = "flush"
      BY <1>2, <1>m, <2>1 DEF FlushEnds
    <3>2. k = sreq.n
      BY <1>1, <1>4, <2>1
    <3> QED
      BY <1>0, <2>0, <3>1, <3>2 DEF ListingLeft
  <2>2. CASE m # 1
    <3>1. 1 \in 1..(m - 1) /\ m > 1
      BY <1>2, <2>2
    <3>2. Head(sout) = Resp("line", 0, k + 1)
      BY <1>2, <1>4, <3>1
    <3>3. Head(sout).kind = "line"
      BY <3>2 DEF Resp
    <3>4. refs' = Lines(0, k + 1)
      BY <1>0, <2>0, <3>2, <3>3, LinesAppend
    <3>5. Len(refs') = k + 1
      BY <1>0, <1>1, <1>2, <1>k, <3>3, AppendProperties
    <3>6. k + 1 + (m - 1) = sreq.n + 1
      BY <1>1, <1>4
    <3>7. ASSUME NEW i \in 1..(m - 1 - 1) PROVE sout'[i] = Resp("line", 0, k + 1 + i)
      <4>1. i \in 1..(m - 1) /\ i + 1 \in 1..(m - 1) /\ k + (i + 1) = k + 1 + i
        BY <3>1
      <4> QED
        BY <1>2, <1>4, <4>1
    <3>8. ListingLeft'
      BY <1>2, <3>4, <3>5, <3>6, <3>7 DEF ListingLeft
    <3> QED
      BY <3>3, <3>8
  <2> QED
    BY <2>1, <2>2
<1> QED
  BY <1>0, <1>3, <1>4, <1>k, <1>m DEF ListingLeft

\* The packets of an object-info response that the caller has not read yet.
LEMMA InfoAtHand ==
    ASSUME TypeOK, FlushEnds(sout), Live, cpc = "decode", InfoLeft
    PROVE  \/ Head(sout).kind = "size" /\ call.size /\ call.args # <<>> /\ ~sized /\ got = <<>>
           \/ \E last \in LastEmitted(call.args) : RepliesLeft(last, last) /\ Head(sout).kind = "flush"
           \/ \E last \in LastEmitted(call.args) : \E k \in 0..last :
                 /\ RepliesLeft(k, last) /\ k < last
                 /\ Head(sout) = Resp(ReplyKind(call.args[k + 1]), call.id, k + 1)
<1>1. sout \in Seq(RespPackets) /\ call.args \in Seq(ArgKinds \cup {"big"})
  BY DEF TypeOK, ServerTypeOK, ClientTypeOK, Calls
<1>2. PICK last \in LastEmitted(call.args) :
          \/ /\ call.size /\ call.args # <<>> /\ ~sized /\ got = <<>>
             /\ Len(sout) = last + 2 /\ sout[1].kind = "size"
             /\ \A i \in 1..last : sout[i + 1] = Resp(ReplyKind(call.args[i]), call.id, i)
          \/ \E k \in 0..last : RepliesLeft(k, last)
  BY DEF InfoLeft
<1>3. Head(sout) = sout[1]
  BY <1>1, FlushAfterTail
<1>4. last \in Nat
  BY <1>1, <1>2, LenProperties DEF LastEmitted, Corrupt
<1>5. ASSUME NEW k \in 0..last, RepliesLeft(k, last)
      PROVE  \/ k = last /\ Head(sout).kind = "flush"
             \/ k < last /\ Head(sout) = Resp(ReplyKind(call.args[k + 1]), call.id, k + 1)
  <2>1. /\ Len(sout) = (last - k) + 1
        /\ \A i \in 1..(last - k) : sout[i] = Resp(ReplyKind(call.args[k + i]), call.id, k + i)
    BY <1>5 DEF RepliesLeft
  <2>2. CASE k = last
    <3>1. Len(sout) = 1
      BY <1>4, <2>1, <2>2
    <3>2. sout[1].kind = "flush"
      BY <3>1 DEF FlushEnds
    <3> QED
      BY <1>3, <2>2, <3>2
  <2>3. CASE k # last
    <3>1. k < last /\ 1 \in 1..(last - k)
      BY <1>4, <2>3
    <3> QED
      BY <1>3, <2>1, <3>1
  <2> QED
    BY <2>2, <2>3
<1>6. CASE \E k \in 0..last : RepliesLeft(k, last)
  <2>1. PICK k \in 0..last : RepliesLeft(k, last)
    BY <1>6
  <2>2. CASE k = last /\ Head(sout).kind = "flush"
    BY <1>2, <2>1, <2>2
  <2>3. CASE k < last /\ Head(sout) = Resp(ReplyKind(call.args[k + 1]), call.id, k + 1)
    BY <1>2, <2>1, <2>3
  <2> QED
    BY <1>5, <2>1, <2>2, <2>3
<1> QED
  BY <1>2, <1>3, <1>6

\* One more answer is read, and it is not a refusal.
LEMMA ReplyTaken ==
    ASSUME TypeOK, FlushEnds(sout), NEW last \in LastEmitted(call.args), NEW k \in 0..last, k < last,
           RepliesLeft(k, last), sout' = Tail(sout), UNCHANGED <<call, sized>>,
           ReplyKind(call.args[k + 1]) # "ERR",
           got' = IF ReplyKind(call.args[k + 1]) = "info" \/ ~sized THEN Append(got, Head(sout)) ELSE got,
           Head(sout) = Resp(ReplyKind(call.args[k + 1]), call.id, k + 1)
    PROVE  RepliesLeft(k + 1, last)'
<1>1. sout \in Seq(RespPackets) /\ call.args \in Seq(ArgKinds \cup {"big"})
      /\ call.size \in BOOLEAN /\ sized \in BOOLEAN
  BY DEF TypeOK, ServerTypeOK, ClientTypeOK, Calls
<1>n. PICK n \in Nat : n = Len(call.args)
  BY <1>1, LenProperties
<1>2. last \in 0..n
  BY <1>1, <1>n DEF LastEmitted, Corrupt
<1>3. k \in Nat /\ last \in Nat /\ k + 1 \in 1..n /\ (k + 1) - 1 = k /\ last - k \in Nat
  BY <1>2
<1>m. PICK m \in Nat : m = last - k
  BY <1>3
<1>4. /\ Len(sout) = m + 1
      /\ \A i \in 1..m : sout[i] = Resp(ReplyKind(call.args[k + i]), call.id, k + i)
      /\ \A i \in 1..k : ReplyKind(call.args[i]) # "ERR"
      /\ sized = (call.size /\ call.args # <<>>)
      /\ got = ToldUpTo(call)[k]
  BY <1>m DEF RepliesLeft
<1>5. m >= 1 /\ Len(sout') = m /\ \A i \in 1..m : sout'[i] = sout[i + 1]
  <2>1. /\ Len(Tail(sout)) = Len(sout) - 1
        /\ \A i \in 1..(Len(sout) - 1) : Tail(sout)[i] = sout[i + 1]
    BY <1>1, FlushAfterTail
  <2>2. Len(sout) - 1 = m /\ m >= 1
    BY <1>3, <1>4, <1>m
  <2> QED
    BY <2>1, <2>2
<1>6. last - (k + 1) = m - 1 /\ (last - (k + 1)) + 1 = m
  BY <1>3, <1>m
<1>7. ASSUME NEW i \in 1..(m - 1)
      PROVE  sout'[i] = Resp(ReplyKind(call.args[(k + 1) + i]), call.id, (k + 1) + i)
  <2>0. k \in Nat
    BY <1>3
  <2>1. i \in 1..m /\ i + 1 \in 1..m /\ k + (i + 1) = (k + 1) + i
    BY <2>0
  <2> QED
    BY <1>4, <1>5, <2>1
<1>8. ASSUME NEW i \in 1..(k + 1) PROVE ReplyKind(call.args[i]) # "ERR"
  <2>1. CASE i = k + 1
    BY <2>1
  <2>2. CASE i # k + 1
    <3>1. i \in 1..k
      BY <1>3, <2>2
    <3> QED
      BY <1>4, <3>1
  <2> QED
    BY <2>1, <2>2
<1>9. got' = ToldUpTo(call)[k + 1]
  <2>1. ToldUpTo(call)[k + 1] =
           IF Reply(call, k + 1).kind = "info" \/ ~call.size
           THEN Append(ToldUpTo(call)[(k + 1) - 1], Reply(call, k + 1))
           ELSE ToldUpTo(call)[(k + 1) - 1]
    BY <1>1, <1>3, <1>n, ToldSteps
  <2>2. ToldUpTo(call)[(k + 1) - 1] = got
    BY <1>3, <1>4
  <2>3. ReplyKind(call.args[k + 1]) = IF call.args[k + 1] = "present" THEN "info" ELSE "missing"
    BY DEF ReplyKind
  <2>4. Reply(call, k + 1) = Head(sout)
    BY <2>3 DEF Reply
  <2>5. Reply(call, k + 1).kind = ReplyKind(call.args[k + 1])
    BY <2>3 DEF Reply, Resp
  <2>6. call.args # <<>>
    BY <1>3, <1>n
  <2>7. sized <=> call.size
    BY <1>4, <2>6
  <2> QED
    BY <2>1, <2>2, <2>4, <2>5, <2>7
<1> QED
  BY <1>4, <1>5, <1>6, <1>7, <1>8, <1>9 DEF RepliesLeft

\* DecodeObjectInfo reads one more packet: it is told of one more object, or
\* the call is over.
LEMMA InfoContent ==
    ASSUME TypeOK, FlushEnds(sout), Live, InfoLeft, sout' = Tail(sout), deadErr = "nil",
           ClientReadsObjectInfo(Head(sout))
    PROVE  InfoLeft'
<1>0. cpc = "decode"
  BY DEF ClientReadsObjectInfo
<1>s. sized \in BOOLEAN /\ call.args \in Seq(ArgKinds \cup {"big"}) /\ sout \in Seq(RespPackets)
  BY DEF TypeOK, ClientTypeOK, ServerTypeOK, Calls
<1>1. CASE Head(sout).kind = "size" /\ call.size /\ call.args # <<>> /\ ~sized /\ got = <<>>
  <2>1. sized' = TRUE /\ UNCHANGED <<cpc, call, got>>
    BY <1>1 DEF ClientReadsObjectInfo
  <2>2. PICK last \in LastEmitted(call.args) :
             /\ Len(sout) = last + 2
             /\ \A i \in 1..last : sout[i + 1] = Resp(ReplyKind(call.args[i]), call.id, i)
    <3>1. ASSUME NEW last \in LastEmitted(call.args), NEW k \in 0..last, RepliesLeft(k, last)
          PROVE  FALSE
      <4>1. sized = (call.size /\ call.args # <<>>)
        BY <3>1 DEF RepliesLeft
      <4> QED
        BY <1>1, <4>1
    <3> QED
      BY <1>0, <3>1 DEF InfoLeft
  <2>3. last \in Nat
    BY <1>s, <2>2, LenProperties DEF LastEmitted, Corrupt
  <2>4. /\ Len(sout') = last + 1
        /\ \A i \in 1..(last + 1) : sout'[i] = sout[i + 1]
    <3>1. /\ Len(Tail(sout)) = Len(sout) - 1
          /\ \A i \in 1..(Len(sout) - 1) : Tail(sout)[i] = sout[i + 1]
      BY <1>s, FlushAfterTail
    <3>2. Len(sout) - 1 = last + 1
      BY <2>2, <2>3
    <3> QED
      BY <3>1, <3>2
  <2>5. (last - 0) + 1 = last + 1 /\ last - 0 = last /\ 0 \in 0..last /\ \A i \in 1..last : 0 + i = i
    BY <2>3
  <2>6. \A i \in 1..(last - 0) : sout'[i] = Resp(ReplyKind(call'.args[0 + i]), call'.id, 0 + i)
    <3>1. ASSUME NEW i \in 1..last PROVE sout'[i] = Resp(ReplyKind(call'.args[i]), call'.id, i)
      <4>1. i \in 1..(last + 1)
        BY <2>3
      <4> QED
        BY <2>1, <2>2, <2>4, <4>1
    <3> QED
      BY <2>5, <3>1
  <2>7. got' = ToldUpTo(call')[0]
    BY <1>1, <1>s, <2>1, ToldSteps
  <2>8. sized' = (call'.size /\ call'.args # <<>>)
    <3>1. (call'.size /\ call'.args # <<>>) = TRUE
      BY <1>1, <2>1
    <3> QED
      BY <2>1, <3>1
  <2>9. \A i \in 1..0 : ReplyKind(call'.args[i]) # "ERR"
    OBVIOUS
  <2>10. RepliesLeft(0, last)'
    BY <2>4, <2>5, <2>6, <2>7, <2>8, <2>9 DEF RepliesLeft
  <2> QED
    BY <2>1, <2>2, <2>5, <2>10 DEF InfoLeft
<1>2. CASE Head(sout).kind = "flush"
  BY <1>2 DEF ClientReadsObjectInfo, EndsWith, InfoLeft
<1>3. ASSUME NEW last \in LastEmitted(call.args), NEW k \in 0..last, RepliesLeft(k, last), k < last,
             Head(sout) = Resp(ReplyKind(call.args[k + 1]), call.id, k + 1)
      PROVE  InfoLeft'
  <2>1. Head(sout).kind = ReplyKind(call.args[k + 1]) /\ ReplyKind(call.args[k + 1]) \in {"info", "missing", "ERR"}
    BY <1>3 DEF Resp, ReplyKind
  <2>2. CASE ReplyKind(call.args[k + 1]) = "ERR"
    <3>1. cpc' # "decode"
      BY <2>1, <2>2 DEF ClientReadsObjectInfo, MarkDead
    <3> QED
      BY <3>1 DEF InfoLeft
  <2>3. CASE ReplyKind(call.args[k + 1]) # "ERR"
    <3>1. /\ UNCHANGED <<cpc, call, sized>>
          /\ got' = IF ReplyKind(call.args[k + 1]) = "info" \/ ~sized THEN Append(got, Head(sout)) ELSE got
      BY <1>0, <1>s, <2>1, <2>3 DEF ClientReadsObjectInfo, Deliver, clientVars
    <3>2. RepliesLeft(k + 1, last)'
      BY <1>3, <2>3, <3>1, ReplyTaken
    <3>3. k + 1 \in 0..last
      <4>1. last \in Nat
        BY <1>s, LenProperties DEF LastEmitted, Corrupt
      <4> QED
        BY <1>3, <4>1
    <3> QED
      BY <3>1, <3>2, <3>3 DEF InfoLeft
  <2> QED
    BY <2>2, <2>3
<1> QED
  BY <1>0, <1>1, <1>2, <1>3, InfoAtHand

\* A response packet taken by the caller.
LEMMA ResponseContent ==
    ASSUME TypeOK, InStep, CallInv, TeardownInv, ContentInv, SendResponse
    PROVE  ContentInv'
<1>0. /\ spc = "write" /\ Live /\ sout # << >> /\ sout' = Tail(sout)
      /\ UNCHANGED <<version, spc, sreq, snext, serr>>
      /\ ClientReads(Head(sout)) /\ ClientReading
  BY DEF SendResponse, ServerWriting, ServerWrote, Live
<1>c. CallState /\ NothingSaid /\ ListingLeft /\ ArgsRead /\ InfoLeft
  BY DEF ContentInv
<1>1. FlushEnds(sout)
  BY <1>0 DEF InStep, ClientReading
<1>2. CASE ClientReadsAdvertisement(Head(sout))
  <2>1. /\ cpc = "dial" /\ cpc' \in {"dial", "idle"}
        /\ UNCHANGED <<cret, call, pos, sized, got, deadErr, result>>
    BY <1>2 DEF ClientReadsAdvertisement
  <2>2. ListingLeft'
    BY <1>0, <1>1, <1>2, <1>c, ListingContent
  <2>3. CallState'
    BY <1>0, <1>c, <2>1 DEF CallState, InCall, Place
  <2>4. NothingSaid' /\ ArgsRead' /\ InfoLeft'
    BY <1>0, <2>1 DEF NothingSaid, ArgsRead, InfoLeft
  <2> QED
    BY <2>2, <2>3, <2>4 DEF ContentInv
<1>3. CASE ClientReadsRef(Head(sout)) \/ ClientDrains(Head(sout))
  <2>1. /\ cpc \in {"read", "drain"} /\ UNCHANGED call
        /\ \/ cpc' \in {"yield", "drain"} /\ UNCHANGED <<deadErr, result>>
           \/ cpc' = "idle"
           \/ cpc' = "close" /\ cret' = "idle"
    BY <1>3 DEF ClientReadsRef, ClientDrains, Deliver, EndsWith, MarkDead, clientVars
  <2>2. CallState'
    BY <1>0, <1>c, <2>1 DEF CallState, InCall, Place
  <2>3. NothingSaid' /\ ListingLeft' /\ ArgsRead' /\ InfoLeft'
    BY <1>0, <2>1 DEF NothingSaid, ListingLeft, ArgsRead, InfoLeft
  <2> QED
    BY <2>2, <2>3 DEF ContentInv
<1>4. CASE ClientReadsObjectInfo(Head(sout))
  <2>1. /\ cpc = "decode" /\ UNCHANGED call
        /\ \/ cpc' = "decode" /\ UNCHANGED <<deadErr, result>>
           \/ cpc' = "idle"
           \/ cpc' = "close" /\ cret' = "idle"
    BY <1>4 DEF ClientReadsObjectInfo, Deliver, EndsWith, MarkDead, clientVars
  <2>2. CallState'
    BY <1>0, <1>c, <2>1 DEF CallState, InCall, Place
  <2>3. NothingSaid' /\ ListingLeft' /\ ArgsRead'
    BY <1>0, <2>1 DEF NothingSaid, ListingLeft, ArgsRead
  <2>4. deadErr = "nil"
    BY <1>c, <2>1 DEF CallState, InCall, Place
  <2>5. InfoLeft'
    BY <1>0, <1>1, <1>4, <1>c, <2>4, InfoContent
  <2> QED
    BY <2>2, <2>3, <2>5 DEF ContentInv
<1> QED
  BY <1>0, <1>2, <1>3, <1>4 DEF ClientReads

\* Every step.
LEMMA ContentNext ==
    ASSUME TypeOK, TeardownInv, StreamInv, ContentInv, [Next]_vars
    PROVE  ContentInv'
<1>0. InStep /\ Parked /\ CallInv
  BY DEF StreamInv
<1>1. CASE Transfer
  BY <1>0, <1>1, RequestContent, ResponseContent DEF Transfer
<1>2. CASE ServerStep \/ StoreFails
  BY <1>0, <1>2, ServerContent
<1>3. CASE ClientStep
  BY <1>3, ClientContent
<1>4. CASE CallerStep
  BY <1>4, CallerContent
<1>5. CASE CloseStarts \/ CloseStep
  BY <1>5, CloseContent
<1>6. CASE DialContextEnds \/ Terminated \/ UNCHANGED vars
  <2>1. UNCHANGED <<serverVars, clientVars>>
    BY <1>6 DEF DialContextEnds, Terminated, vars
  <2> QED
    BY <2>1, ContentSame DEF serverVars, Live
<1> QED
  BY <1>1, <1>2, <1>3, <1>4, <1>5, <1>6 DEF Next

\* The first states: the advertisement is there to be read.
LEMMA ContentInit == Init => ContentInv
<1> SUFFICES ASSUME Init PROVE ContentInv
  OBVIOUS
<1>1. /\ spc = "write" /\ cpc = "dial" /\ call = NoCall /\ got = <<>> /\ refs = <<>>
      /\ deadErr = "nil" /\ result = "none"
  BY DEF Init, ServerInit, ClientInit
<1>2. PICK n \in 0..MaxLines :
          /\ sreq = [NoRequest EXCEPT !.n = IF version = "v0" THEN n ELSE 0]
          /\ sout = IF version = "v0" THEN V0Advertisement(n) ELSE V2Advertisement
  BY DEF Init, ServerInit
<1>n. n \in Nat
  BY <1>2, MaxLinesAssumption
<1>3. sreq.id = 0 /\ sreq.n = IF version = "v0" THEN n ELSE 0
  BY <1>2 DEF NoRequest
<1>4. CallState
  BY <1>1, <1>3 DEF CallState, InCall, Place, NoCall
<1>5. NothingSaid /\ ArgsRead /\ InfoLeft
  BY <1>1 DEF NothingSaid, ArgsRead, InfoLeft
<1>6. ListingLeft
  <2>1. refs = Lines(0, Len(refs)) /\ Len(refs) = 0
    <3>1. Lines(0, 0) \in Seq(RespPackets) /\ Len(Lines(0, 0)) = 0
      BY LinesType
    <3>2. Lines(0, 0) = <<>>
      BY <3>1, EmptySeq
    <3> QED
      BY <1>1, <3>2
  <2>2. CASE version # "v0"
    <3>v. PICK v : v = Resp("version", 0, 0)
      OBVIOUS
    <3>c. PICK c : c = Resp("cap", 0, 0)
      OBVIOUS
    <3>f. PICK f : f = Resp("flush", 0, 0)
      OBVIOUS
    <3>1. v.kind = "version" /\ c.kind = "cap" /\ f.kind = "flush"
      BY <3>v, <3>c, <3>f DEF Resp
    <3>2. sout = << v, c, f >>
      BY <1>2, <2>2, <3>v, <3>c, <3>f DEF V2Advertisement
    <3>3. \A i \in 1..Len(sout) : sout[i].kind # "line"
      BY <3>1, <3>2
    <3> QED
      BY <1>1, <1>3, <2>1, <2>2, <3>3 DEF ListingLeft
  <2>3. CASE version = "v0" /\ n = 0
    <3>c. PICK c : c = Resp("caps^{}", 0, 0)
      OBVIOUS
    <3>f. PICK f : f = Resp("flush", 0, 0)
      OBVIOUS
    <3>0. c \in RespPackets /\ f \in RespPackets
      BY <3>c, <3>f DEF Resp, RespPackets, RespKinds
    <3>1. c.kind # "line" /\ f.kind # "line"
      BY <3>c, <3>f DEF Resp
    <3>p. PICK p : p = << c >>
      OBVIOUS
    <3>q. PICK q : q = << f >>
      OBVIOUS
    <3>2. Sized(p, RespPackets, 1) /\ Sized(q, RespPackets, 1) /\ p[1] = c /\ q[1] = f
      <4>1. p \in Seq(RespPackets) /\ Len(p) = 1 /\ p[1] = c
        BY <3>0, <3>p
      <4>2. q \in Seq(RespPackets) /\ Len(q) = 1 /\ q[1] = f
        BY <3>0, <3>q
      <4> QED
        BY <4>1, <4>2 DEF Sized
    <3>3. sout = p \o q
      BY <1>2, <2>3, <3>c, <3>f, <3>p, <3>q DEF V0Advertisement
    <3>4. Joined(sout, p, q, RespPackets, 1, 1)
      BY <3>2, <3>3, JoinFacts
    <3>5. \A i \in 1..Len(sout) : sout[i].kind # "line"
      <4>1. Len(sout) = 2 /\ sout[1] = c /\ sout[2] = f
        BY <3>2, <3>4 DEF Joined
      <4>2. 1..2 = {1, 2}
        OBVIOUS
      <4> QED
        BY <3>1, <4>1, <4>2
    <3> QED
      BY <1>1, <1>3, <2>1, <2>3, <3>5 DEF ListingLeft
  <2>4. CASE version = "v0" /\ n # 0
    <3>1. sout = Lines(0, n) \o << Resp("flush", 0, 0) >>
      BY <1>2, <2>4 DEF V0Advertisement
    <3>2. Len(sout) = n + 1 /\ \A i \in 1..n : sout[i] = Resp("line", 0, i)
      BY <1>n, <3>1, LSRefsFlush
    <3>3. sreq.n = n /\ (n + 1) - 1 = n /\ 0 + (n + 1) = n + 1 /\ \A i \in 1..n : 0 + i = i
      BY <1>3, <1>n, <2>4
    <3>4. \A i \in 1..((n + 1) - 1) : sout[i] = Resp("line", 0, 0 + i)
      BY <3>2, <3>3
    <3> QED
      BY <2>1, <3>2, <3>3, <3>4 DEF ListingLeft
  <2> QED
    BY <2>2, <2>3, <2>4
<1> QED
  BY <1>4, <1>5, <1>6 DEF ContentInv

\* What the server holds of a request and what the caller holds of a response
\* are the two parts of one whole, at every moment.
THEOREM ContentInvariant ==
    ASSUME Disciplined, ~AsyncClose
    PROVE  Spec => []ContentInv
<1>1. Init => ContentInv
  BY ContentInit
<1>2. TypeOK /\ TeardownInv /\ StreamInv /\ ContentInv /\ [Next]_vars => ContentInv'
  BY ContentNext
<1> QED
  BY <1>1, <1>2, TypeCorrect, TeardownInvariant, ConversationInStep, PTL DEF Spec

(***************************************************************************)
(* Steps the promise does not tell apart.                                  *)
(***************************************************************************)
\* Nothing the promise speaks of changes.
LEMMA Stutters ==
    ASSUME UNCHANGED <<Phase, Kept, Whole, Given, Outcome>>, call'.id = call.id, deadErr' = deadErr
    PROVE  UNCHANGED Promise!vars
BY DEF Promise!vars

\* The caller stays where it is, and so do the call and whether there is a
\* response to it.
LEMMA MapSame ==
    ASSUME Phase' = Phase, UNCHANGED <<call, sreq, result, deadErr>>,
           Phase = "dialing" \/ refs' = refs, Given' = Given,
           Phase # "calling" \/ (sout = <<>> <=> sout' = <<>>)
    PROVE  UNCHANGED Promise!vars
<1>1. Kept' = Kept
  BY DEF Kept
<1>2. Whole' = Whole
  <2>1. CASE Phase = "dialing"
    BY <2>1 DEF Whole
  <2>2. CASE Phase # "dialing" /\ Phase # "calling"
    BY <2>2 DEF Whole, Deciding
  <2>3. CASE Phase = "calling"
    <3>1. Deciding' <=> Deciding
      BY <2>3 DEF Deciding
    <3>2. Responses(call)' = Responses(call)
      BY DEF Responses
    <3> QED
      BY <2>3, <3>1, <3>2 DEF Whole
  <2> QED
    BY <2>1, <2>2, <2>3
<1>3. Outcome' = Outcome
  BY DEF Outcome
<1> QED
  BY <1>1, <1>2, <1>3, Stutters

\* The goroutine by itself, Conn.Close, and the surroundings.
LEMMA QuietMaps ==
    ASSUME TypeOK, [Next]_vars,
           ServerStep \/ StoreFails \/ CloseStarts \/ CloseStep \/ DialContextEnds \/ Terminated
             \/ UNCHANGED vars
    PROVE  UNCHANGED Promise!vars
<1>1. CASE UNCHANGED <<sreq, sout, clientVars>>
  <2>1. UNCHANGED <<Phase, Given>>
    BY <1>1 DEF clientVars, Phase, Place, Given
  <2> QED
    BY <1>1, <2>1, MapSame DEF clientVars
<1>2. CASE ServerStep \/ StoreFails
  <2>1. UNCHANGED <<sreq, sout, clientVars>>
    <3>1. CASE ServerInternal
      BY <3>1 DEF ServerInternal, ServerCheckCtx, ServerFinishes, ServerClosesWriter, ServerClosesReader,
         ServerDone, ServerReturn
    <3>2. CASE ServerReadError \/ ServerWriteError \/ StoreFails
      BY <3>2 DEF ServerReadError, ServerReadFails, ServerWriteError, ServerWriteFails, StoreFails,
         ServerStoreFails, ServerReturn
    <3> QED
      BY <1>2, <3>1, <3>2 DEF ServerStep
  <2> QED
    BY <1>1, <2>1
<1>3. CASE CloseReturns
  <2>1. /\ cpc = "close" /\ cpc' = cret /\ UNCHANGED <<sreq, sout>>
        /\ UNCHANGED <<cret, call, pos, sized, got, refs, deadErr, result>>
    BY <1>3 DEF CloseReturns, ClientClosed, serverVars
  <2>2. Place' = Place
    BY <2>1 DEF Place, TypeOK, ClientTypeOK, CallerStates
  <2>3. Phase' = Phase /\ Given' = Given
    BY <2>1, <2>2 DEF Phase, Given
  <2> QED
    BY <2>1, <2>3, MapSame
<1>4. CASE CloseStarts \/ (CloseStep /\ ~CloseReturns) \/ DialContextEnds \/ Terminated \/ UNCHANGED vars
  <2>1. UNCHANGED <<sreq, sout, clientVars>>
    BY <1>4 DEF CloseStarts, CloseStep, CloseCancels, CloseClientReader, CloseClientWriter,
       CloseServerReader, CloseServerWriter, CloseWaits, CloseStore, DialContextEnds, Terminated, vars,
       serverVars
  <2> QED
    BY <1>1, <2>1
<1> QED
  BY <1>2, <1>3, <1>4 DEF CloseStep

(***************************************************************************)
(* The caller's own steps.                                                 *)
(***************************************************************************)
\* A call begins, or is answered without a request.
LEMMA CallMaps ==
    ASSUME TypeOK, ContentInv, cpc = "idle", UNCHANGED serverVars, NEW c, c.id = call.id + 1,
           c.op \in Ops,
           \/ Answer(c, <<>>, "SessionDead")
           \/ c.op = "ls-refs" /\ deadErr = "nil" /\ Answer(c, refs, "ok")
           \/ Answer(c, <<>>, "Unsupported")
           \/ deadErr = "nil" /\ version = "v2" /\ Command(c)
    PROVE  Promise!Next
<1>0. /\ call.id \in Nat /\ sreq.id \in Nat /\ sreq.id < c.id /\ c.id # sreq.id
      /\ UNCHANGED <<sreq, sout>>
  BY DEF TypeOK, ClientTypeOK, ServerTypeOK, Calls, Requests, ContentInv, CallState, serverVars
<1>1. Phase = "ready" /\ Kept = refs /\ Whole = {}
  BY DEF Phase, Place, Kept, Whole, Deciding
<1>2. UNCHANGED <<refs, deadErr>> /\ call' = c
  BY DEF Answer, Command
<1>3. CASE Answer(c, <<>>, "SessionDead") \/ Answer(c, <<>>, "Unsupported")
  <2>1. cpc' = "idle" /\ got' = <<>> /\ result' \in {"SessionDead", "Unsupported"}
    BY <1>3 DEF Answer
  <2>2. Phase' = "ready" /\ Kept' = refs /\ Whole' = {} /\ Given' = <<>> /\ Outcome' = "error"
    BY <1>2, <2>1 DEF Phase, Place, Kept, Whole, Deciding, Given, Outcome
  <2> QED
    BY <1>1, <1>2, <2>2 DEF Promise!Next, Promise!AnswerWithError, Promise!NextCall
<1>4. CASE c.op = "ls-refs" /\ deadErr = "nil" /\ Answer(c, refs, "ok")
  <2>1. cpc' = "idle" /\ got' = refs /\ result' = "ok"
    BY <1>4 DEF Answer
  <2>2. Phase' = "ready" /\ Kept' = refs /\ Whole' = {} /\ Given' = refs /\ Outcome' = "ok"
    BY <1>2, <2>1 DEF Phase, Place, Kept, Whole, Deciding, Given, Outcome
  <2> QED
    BY <1>1, <1>2, <1>4, <2>2 DEF Promise!Next, Promise!AnswerFromDial, Promise!NextCall
<1>5. CASE deadErr = "nil" /\ Command(c)
  <2>0. got' = <<>>
    BY <1>5 DEF Command
  <2>1. CASE cpc' = "write" /\ result' = "none"
    <3>1. Phase' = "calling" /\ Kept' = refs /\ Whole' = {} /\ Given' = <<>> /\ Outcome' = "none"
      BY <1>0, <1>2, <2>0, <2>1 DEF Phase, Place, Kept, Whole, Deciding, Given, Outcome
    <3> QED
      BY <1>1, <1>2, <1>5, <3>1 DEF Promise!Next, Promise!Begin, Promise!NextCall
  <2>2. CASE cpc' = "failed" /\ result' = "Ctx"
    <3>1. Phase' = "ready" /\ Kept' = refs /\ Whole' = {} /\ Given' = <<>> /\ Outcome' = "error"
      BY <1>2, <2>0, <2>2 DEF Phase, Place, Kept, Whole, Deciding, Given, Outcome
    <3> QED
      BY <1>1, <1>2, <3>1 DEF Promise!Next, Promise!AnswerWithError, Promise!NextCall
  <2> QED
    BY <1>5, <2>1, <2>2 DEF Command
<1> QED
  BY <1>3, <1>4, <1>5

\* What the caller does by itself.
LEMMA CallerMaps ==
    ASSUME TypeOK, ContentInv, CallerStep
    PROVE  Promise!Next \/ UNCHANGED Promise!vars
<1>1. UNCHANGED serverVars
  BY DEF CallerStep
<1>2. CASE CallRefs
  <2>1. PICK args : LET c == NewCall("ls-refs", FALSE, args) IN
              \/ Answer(c, << >>, "SessionDead")
              \/ deadErr = "nil" /\ Answer(c, refs, "ok")
              \/ deadErr = "nil" /\ version = "v2" /\ Command(c)
    BY <1>2 DEF CallRefs
  <2>c. PICK c : c = NewCall("ls-refs", FALSE, args)
    OBVIOUS
  <2>2. cpc = "idle" /\ c.id = call.id + 1 /\ c.op = "ls-refs" /\ c.op \in Ops
    BY <1>2, <2>c DEF CallRefs, NewCall, Ops
  <2> QED
    BY <1>1, <2>1, <2>2, <2>c, CallMaps
<1>3. CASE CallObjectInfo
  <2>1. PICK size, args : LET c == NewCall("object-info", size, args) IN
              \/ Answer(c, << >>, "SessionDead")
              \/ Answer(c, << >>, "Unsupported")
              \/ deadErr = "nil" /\ version = "v2" /\ Command(c)
    BY <1>3 DEF CallObjectInfo
  <2>c. PICK c : c = NewCall("object-info", size, args)
    OBVIOUS
  <2>2. cpc = "idle" /\ c.id = call.id + 1 /\ c.op \in Ops
    BY <1>3, <2>c DEF CallObjectInfo, NewCall, Ops
  <2> QED
    BY <1>1, <2>1, <2>2, <2>c, CallMaps
<1>4. CASE RangeOver \/ Continue \/ Break \/ CallClose \/ IgnoreError
  <2>1. UNCHANGED <<sreq, sout>>
    BY <1>1 DEF serverVars
  <2>2. /\ UNCHANGED <<call, got, refs, deadErr, result>>
        /\ \/ cpc \in {"iter", "yield"} /\ cpc' \in {"read", "drain"}
           \/ /\ cpc' = "close" /\ cpc \in {"idle", "iter", "yield", "failed"}
              /\ cret' = IF cpc = "failed" THEN "idle" ELSE cpc
           \/ cpc = "failed" /\ cpc' = "idle"
    BY <1>4 DEF RangeOver, Continue, Break, CallClose, IgnoreError
  <2>3. Phase' = Phase
    BY <2>2 DEF Phase, Place
  <2>4. Given' = Given
    BY <2>2 DEF Given
  <2> QED
    BY <2>1, <2>2, <2>3, <2>4, MapSame
<1> QED
  BY <1>2, <1>3, <1>4 DEF CallerStep

\* The caller meets an error of its own, or the other side's.
LEMMA ClientMaps ==
    ASSUME TypeOK, CallInv, ContentInv, ClientStep
    PROVE  Promise!Next
<1>0. UNCHANGED <<sreq, sout>> /\ CallState /\ NothingSaid
  BY DEF ClientStep, PayloadRejected, ClientReadError, ClientWriteError, serverVars, ContentInv
<1>1. CASE PayloadRejected \/ ClientWriteError
  <2>1. PICK err : cpc = "write" /\ CommandFails(err) /\ err \in Errs
    <3>1. CASE PayloadRejected
      BY <3>1 DEF PayloadRejected, ClientTooLarge, Errs
    <3>2. CASE ClientWriteError
      <4>1. WriteErr(c2s) \in ServeErrs /\ serr \in ServeErrs \cup {"nil"}
        BY <3>2, PipeErrType DEF ClientWriteError, TypeOK, PipesTypeOK, ServerTypeOK
      <4>2. RootCause(WriteErr(c2s)) \in Errs
        BY <4>1 DEF RootCause, Errs
      <4> QED
        BY <3>2, <4>2 DEF ClientWriteError, ClientWriteFails, ClientWriting
    <3> QED
      BY <1>1, <3>1, <3>2
  <2>2. cpc' = "failed" /\ result' = err /\ UNCHANGED <<call, got, refs, deadErr>>
    BY <2>1 DEF CommandFails
  <2>3. err \notin {"none", "ok", "broke"}
    BY <2>1 DEF Errs, ServeErrs, PipeErrs, CtxErrs
  <2>4. call.id \in Nat /\ sreq.id \in Nat
    BY DEF TypeOK, ClientTypeOK, ServerTypeOK, Calls, Requests
  <2>5. ~Deciding
    BY <1>0, <2>1, <2>4 DEF Deciding, NothingSaid
  <2>6. Phase = "calling" /\ Kept = refs /\ Whole = {} /\ Given = <<>>
    BY <2>1, <2>5 DEF Phase, Place, Kept, Whole, Given, CallInv
  <2>7. Phase' = "ready" /\ Kept' = refs /\ Whole' = {} /\ Given' = <<>> /\ Outcome' = "error"
    BY <2>1, <2>2, <2>3 DEF Phase, Place, Kept, Whole, Deciding, Given, Outcome, CallInv
  <2> QED
    BY <2>2, <2>6, <2>7 DEF Promise!Next, Promise!Unanswered, Promise!Ends
<1>2. CASE ClientReadError
  <2>1. PICK err \in ServeErrs : ClientReadFails(err)
    BY <1>2, PipeErrType DEF ClientReadError, TypeOK, PipesTypeOK
  <2>2. CASE DialFails(err)
    <3>1. /\ cpc = "dial" /\ cpc' = "close" /\ cret' = "gone" /\ UNCHANGED <<call, got, refs, deadErr>>
          /\ result' \in ServeErrs
      BY <2>1, <2>2 DEF DialFails, ServeErrs, PipeErrs
    <3>2. Phase = "dialing" /\ Kept = <<>>
      BY <3>1 DEF Phase, Place, Kept
    <3>3. Phase' = "over" /\ Kept' = <<>> /\ Whole' = {} /\ Outcome' = "error"
      BY <3>1 DEF Phase, Place, Kept, Whole, Deciding, Outcome, ServeErrs, PipeErrs, CtxErrs
    <3>4. Given = got /\ Given' = got
      BY <1>0, <3>1 DEF Given, CallState, NoCall
    <3> QED
      BY <3>1, <3>2, <3>3, <3>4 DEF Promise!Next, Promise!DialFails
  <2>3. CASE cpc = "drain" /\ EndsWith("broke")
    <3>1. cpc' = "idle" /\ result' = "broke" /\ UNCHANGED <<call, got, refs, deadErr>>
      BY <2>3 DEF EndsWith
    <3>2. call.op = "ls-refs" /\ Phase = "calling" /\ Kept = refs /\ Given = got
      BY <1>0, <2>3 DEF CallState, Phase, Place, Kept, Given
    <3>3. Phase' = "ready" /\ Kept' = refs /\ Whole' = {} /\ Given' = got /\ Outcome' = "broke"
      BY <3>1, <3>2 DEF Phase, Place, Kept, Whole, Deciding, Given, Outcome
    <3> QED
      BY <3>1, <3>2, <3>3 DEF Promise!Next, Promise!Leave, Promise!Ends
  <2>4. CASE cpc \in {"read", "decode"} /\ MarkDead(IF err = "EOF" THEN "UnexpectedEOF" ELSE err)
    <3>1. /\ deadErr = "nil" /\ result = "none"
      BY <1>0, <2>4 DEF CallState, InCall, Place
    <3>2. /\ deadErr' = result' /\ result' \in ServeErrs /\ cpc' = "close" /\ cret' = "idle"
          /\ UNCHANGED <<call, got, refs>>
      BY <2>1, <2>4, <3>1 DEF MarkDead, ServeErrs, PipeErrs
    <3>3. deadErr' # "nil" /\ result' \notin {"none", "ok", "broke"}
      BY <3>2 DEF ServeErrs, PipeErrs, CtxErrs
    <3>4. Phase = "calling" /\ Kept = refs
      BY <2>4 DEF Phase, Place, Kept
    <3>5. Phase' = "ready" /\ Kept' = refs /\ Whole' = {} /\ Outcome' = "error"
      BY <3>2, <3>3 DEF Phase, Place, Kept, Whole, Deciding, Outcome
    <3>6. Given' = Given
      BY <3>1, <3>2, <3>3 DEF Given
    <3> QED
      BY <3>1, <3>2, <3>3, <3>4, <3>5, <3>6 DEF Promise!Next, Promise!Die, Promise!Ends
  <2> QED
    BY <2>1, <2>2, <2>3, <2>4 DEF ClientReadFails
<1> QED
  BY <1>1, <1>2 DEF ClientStep

(***************************************************************************)
(* A packet changes hands.                                                 *)
(***************************************************************************)
\* Every response the server may decide on is about the call.
LEMMA ResponsesOwn ==
    ASSUME NEW c \in Calls, NEW n \in Nat, NEW w, w \in {Lines(c.id, n), Told(c)}
    PROVE  \A i \in DOMAIN w : w[i].id = c.id
<1>1. c.id \in Nat /\ c.args \in Seq(ArgKinds \cup {"big"}) /\ Len(c.args) \in Nat
  BY LenProperties DEF Calls
<1>2. CASE w = Lines(c.id, n)
  BY <1>2 DEF Lines, Resp
<1>3. CASE w = Told(c)
  <2>p. PICK P : P = {p \in RespPackets : p.id = c.id}
    OBVIOUS
  <2>2. w \in Seq(P)
    <3>1. Len(c.args) \in 0..Len(c.args)
      BY <1>1
    <3>2. ToldUpTo(c)[Len(c.args)] \in Seq({p \in RespPackets : p.id = c.id})
      BY <1>1, <3>1, ToldType, Zenon
    <3> QED
      BY <1>3, <2>p, <3>2 DEF Told
  <2>3. \A i \in DOMAIN w : w[i] \in P
    BY <2>2
  <2> QED
    BY <2>3, <2>p
<1> QED
  BY <1>2, <1>3

\* The request is written packet by packet; with the last one the server
\* decides on its response.
LEMMA RequestMaps ==
    ASSUME TypeOK, TypeOK', InStep, Parked, CallInv, ContentInv, NothingSaid', SendRequest
    PROVE  Promise!Next \/ UNCHANGED Promise!vars
<1>0. cpc = "write" /\ UNCHANGED <<call, cret, got, refs, result, deadErr>> /\ got = <<>> /\ pos' = pos + 1
      /\ pos \in Nat /\ pos # 0
  BY DEF SendRequest, ClientWriting, ClientWrote, CallInv, TypeOK, ClientTypeOK
<1>1. call.id \in Nat /\ sreq.id \in Nat
  BY DEF TypeOK, ClientTypeOK, ServerTypeOK, Calls, Requests
<1>2. Phase = "calling" /\ ~Deciding
  BY <1>0, <1>1 DEF ContentInv, NothingSaid, Deciding, Phase, Place
<1>3. Kept = refs /\ Whole = {}
  BY <1>2 DEF Kept, Whole
<1>4. /\ Serving'
      /\ \/ cpc' = "write"
         \/ cpc' \in {"iter", "decode"} /\ FlushEnds(sout')
  BY RequestInStep
<1>5. Phase' = "calling"
  BY <1>4 DEF Phase, Place
<1>6. Kept' = refs /\ Given' = Given /\ Outcome' = Outcome
  BY <1>0, <1>5 DEF Kept, Given, Outcome
<1>7. CASE cpc' = "write"
  <2>1. sout' = <<>>
    BY <1>0, <1>7 DEF NothingSaid
  <2>2. Whole' = {}
    BY <1>5, <2>1 DEF Whole, Deciding
  <2> QED
    BY <1>0, <1>2, <1>3, <1>5, <1>6, <2>2, Stutters
<1>8. CASE cpc' \in {"iter", "decode"} /\ FlushEnds(sout')
  <2>1. Deciding'
    BY <1>4, <1>5, <1>8 DEF Deciding, Serving, FlushEnds
  <2>2. Whole' = Responses(call)'
    BY <1>5, <2>1 DEF Whole
  <2>3. CASE Responses(call)' = {}
    BY <1>0, <1>2, <1>3, <1>5, <1>6, <2>2, <2>3, Stutters
  <2>4. CASE Responses(call)' # {}
    <3>1. PICK w : w \in Responses(call)'
      BY <2>4
    <3>2. Responses(call)' = {w} /\ \A i \in DOMAIN w : w[i].id = call.id
      <4>1. w \in {Lines(call'.id, sreq'.n), Told(call')} /\ Responses(call)' = {w}
        BY <3>1 DEF Responses
      <4>2. call' \in Calls /\ sreq'.n \in Nat
        BY DEF TypeOK, ClientTypeOK, ServerTypeOK, Requests
      <4>3. \A i \in DOMAIN w : w[i].id = call'.id
        BY <4>1, <4>2, ResponsesOwn
      <4> QED
        BY <1>0, <4>1, <4>3
    <3> QED
      BY <1>0, <1>2, <1>3, <1>5, <1>6, <2>2, <3>2 DEF Promise!Next, Promise!Decide
  <2> QED
    BY <2>3, <2>4
<1> QED
  BY <1>4, <1>7, <1>8

\* Dial reads on, or has read all there was.
LEMMA DialMaps ==
    ASSUME TypeOK, ContentInv, FlushEnds(sout), Live, sout' = Tail(sout), UNCHANGED sreq,
           ClientReadsAdvertisement(Head(sout))
    PROVE  Promise!Next \/ UNCHANGED Promise!vars
<1>0. /\ cpc = "dial" /\ cpc' = IF Head(sout).kind = "flush" THEN "idle" ELSE "dial"
      /\ refs' = IF Head(sout).kind = "line" THEN Append(refs, Head(sout)) ELSE refs
      /\ UNCHANGED <<call, got, deadErr, result>>
  BY DEF ClientReadsAdvertisement
<1>1. Phase = "dialing" /\ Whole = {Lines(0, sreq.n)} /\ Given' = Given /\ Outcome' = Outcome
  BY <1>0 DEF Phase, Place, Whole, Given, Outcome
<1>2. CASE Head(sout).kind = "flush"
  <2>1. refs = Lines(0, sreq.n)
    BY <1>2, ListingContent DEF ContentInv
  <2>2. Phase' = "ready" /\ Kept' = refs /\ Whole' = {}
    BY <1>0, <1>2 DEF Phase, Place, Kept, Whole, Deciding
  <2> QED
    BY <1>0, <1>1, <2>1, <2>2 DEF Promise!Next, Promise!Connect
<1>3. CASE Head(sout).kind # "flush"
  <2>1. Phase' = Phase
    BY <1>0, <1>3 DEF Phase, Place
  <2> QED
    BY <1>0, <1>1, <2>1, MapSame
<1> QED
  BY <1>2, <1>3

\* The caller is given the next ref of its response, or has been given all.
LEMMA RefMaps ==
    ASSUME TypeOK, InStep, RefsComplete, ContentInv, FlushEnds(sout), Live, sout' = Tail(sout), UNCHANGED sreq,
           ClientReadsRef(Head(sout))
    PROVE  Promise!Next
<1>0. /\ cpc = "read" /\ call.op = "ls-refs" /\ version = "v2" /\ result = "none"
      /\ RefsLeft /\ Serving /\ sout # <<>>
  BY DEF ClientReadsRef, ContentInv, CallState, InCall, Place, InStep, FlushEnds
<1>1. sout \in Seq(RespPackets) /\ got \in Seq(RespPackets) /\ call.id \in Nat /\ sreq.n \in Nat
  BY DEF TypeOK, ServerTypeOK, ClientTypeOK, Calls, Requests
<1>k. PICK k \in Nat : k = Len(got)
  BY <1>1, LenProperties
<1>2. got = Lines(call.id, k)
  BY <1>0, <1>k DEF RefsComplete
<1>3. /\ Phase = "calling" /\ Kept = refs /\ Whole = {Lines(call.id, sreq.n)}
      /\ Given = got /\ Outcome = "none"
  BY <1>0 DEF Phase, Place, Kept, Whole, Deciding, Serving, Responses, Given, Outcome
<1>4. CASE Head(sout).kind = "flush"
  <2>1. cpc' = "idle" /\ result' = "ok" /\ UNCHANGED <<call, got, refs, deadErr>>
    BY <1>4 DEF ClientReadsRef, EndsWith
  <2>2. k = sreq.n
    BY <1>0, <1>4, <1>k, RefAtHand DEF Resp
  <2>3. Phase' = "ready" /\ Kept' = refs /\ Whole' = {} /\ Given' = got /\ Outcome' = "ok"
    BY <1>0, <2>1 DEF Phase, Place, Kept, Whole, Deciding, Given, Outcome
  <2> QED
    BY <1>2, <1>3, <2>1, <2>2, <2>3 DEF Promise!Next, Promise!Complete, Promise!Ends
<1>5. CASE Head(sout) = Resp("line", call.id, k + 1) /\ Len(sout) > 1
  <2>1. Head(sout).kind = "line"
    BY <1>5 DEF Resp
  <2>2. cpc' = "yield" /\ got' = Append(got, Head(sout)) /\ UNCHANGED <<call, refs, deadErr, result>>
    BY <2>1 DEF ClientReadsRef, Deliver
  <2>3. FlushEnds(sout')
    BY <1>1, <2>1, FlushAfterTail
  <2>4. /\ Phase' = "calling" /\ Kept' = refs /\ Given' = Append(got, Head(sout)) /\ Outcome' = "none"
    BY <1>0, <2>2 DEF Phase, Place, Kept, Given, Outcome
  <2>5. Whole' = Whole
    <3>1. Deciding' /\ Deciding
      BY <1>0, <1>3, <2>2, <2>3, <2>4 DEF Deciding, Serving, FlushEnds
    <3>2. Responses(call)' = Responses(call)
      BY <2>2 DEF Responses
    <3> QED
      BY <1>3, <2>4, <3>1, <3>2 DEF Whole
  <2>w. PICK w : w = Lines(call.id, sreq.n)
    OBVIOUS
  <2>6. Len(w) = sreq.n /\ \A i \in 1..sreq.n : w[i] = Resp("line", call.id, i)
    BY <1>1, <2>w, LinesType
  <2>7. k < sreq.n
    BY <1>1, <1>5, <1>0, <1>k, LenProperties DEF RefsLeft
  <2>8. k + 1 \in 1..sreq.n
    BY <1>1, <2>7
  <2>9. Len(got) < Len(w) /\ Head(sout) = w[Len(got) + 1]
    BY <1>5, <1>k, <2>6, <2>7, <2>8
  <2> QED
    BY <1>3, <2>2, <2>4, <2>5, <2>9, <2>w DEF Promise!Next, Promise!Deliver
<1> QED
  BY <1>0, <1>4, <1>5, <1>k, RefAtHand

\* A drain reads on, or has come to the end.
LEMMA DrainMaps ==
    ASSUME TypeOK, ContentInv, FlushEnds(sout), Live, sout' = Tail(sout), UNCHANGED sreq,
           ClientDrains(Head(sout))
    PROVE  Promise!Next \/ UNCHANGED Promise!vars
<1>0. cpc = "drain" /\ call.op = "ls-refs" /\ sout # <<>> /\ sout \in Seq(RespPackets)
  BY DEF ClientDrains, ContentInv, CallState, Place, FlushEnds, TypeOK, ServerTypeOK
<1>1. CASE Head(sout).kind = "flush"
  <2>1. cpc' = "idle" /\ result' = "broke" /\ UNCHANGED <<call, got, refs, deadErr>>
    BY <1>1 DEF ClientDrains, EndsWith
  <2>2. Phase = "calling" /\ Kept = refs /\ Given = got
    BY <1>0 DEF Phase, Place, Kept, Given
  <2>3. Phase' = "ready" /\ Kept' = refs /\ Whole' = {} /\ Given' = got /\ Outcome' = "broke"
    BY <1>0, <2>1 DEF Phase, Place, Kept, Whole, Deciding, Given, Outcome
  <2> QED
    BY <2>1, <2>2, <2>3 DEF Promise!Next, Promise!Leave, Promise!Ends
<1>2. CASE Head(sout).kind # "flush"
  <2>1. UNCHANGED clientVars
    BY <1>2 DEF ClientDrains
  <2>2. FlushEnds(sout')
    BY <1>0, <1>2, FlushAfterTail
  <2>3. sout' # <<>>
    BY <2>2 DEF FlushEnds
  <2>4. Phase' = Phase /\ Given' = Given /\ UNCHANGED <<call, result, deadErr, refs>>
    BY <2>1 DEF clientVars, Phase, Place, Given
  <2> QED
    BY <1>0, <2>3, <2>4, MapSame
<1> QED
  BY <1>1, <1>2

\* DecodeObjectInfo reads on, or has been told of every object, or finds that
\* the server refuses.
LEMMA InfoMaps ==
    ASSUME TypeOK, InStep, CallInv, ContentInv, FlushEnds(sout), Live, sout' = Tail(sout), UNCHANGED sreq,
           ClientReadsObjectInfo(Head(sout))
    PROVE  Promise!Next \/ UNCHANGED Promise!vars
<1>0. /\ cpc = "decode" /\ call.op = "object-info" /\ result = "none" /\ deadErr = "nil"
      /\ sout # <<>> /\ Serving /\ InfoLeft
  BY DEF ClientReadsObjectInfo, ContentInv, CallState, InCall, Place, FlushEnds, CallInv, InStep
<1>1. sout \in Seq(RespPackets) /\ call.args \in Seq(ArgKinds \cup {"big"})
  BY DEF TypeOK, ServerTypeOK, ClientTypeOK, Calls
<1>2. Phase = "calling" /\ Kept = refs /\ Given = <<>> /\ Whole = Responses(call)
  BY <1>0 DEF Phase, Place, Kept, Given, Whole, Deciding, Serving
<1>3. CASE Head(sout).kind = "flush"
  <2>1. cpc' = "idle" /\ result' = "ok" /\ UNCHANGED <<call, got, refs, deadErr>>
    BY <1>3 DEF ClientReadsObjectInfo, EndsWith
  <2>2. PICK last \in LastEmitted(call.args) : RepliesLeft(last, last)
    <3>1. \A last, k : Resp(ReplyKind(call.args[k + 1]), call.id, k + 1).kind # "flush"
      BY DEF Resp, ReplyKind
    <3> QED
      BY <1>0, <1>3, <3>1, InfoAtHand
  <2>3. \A i \in 1..last : ReplyKind(call.args[i]) # "ERR"
    BY <2>2 DEF RepliesLeft
  <2>4. got = ToldUpTo(call)[last]
    BY <2>2 DEF RepliesLeft
  <2>n. PICK n \in Nat : n = Len(call.args) /\ DOMAIN call.args = 1..n
    BY <1>1, LenProperties
  <2>5. Corrupt(call.args) = {}
    <3> SUFFICES ASSUME Corrupt(call.args) # {} PROVE FALSE
      OBVIOUS
    <3>1. last \in 1..n /\ call.args[last] = "corrupt"
      BY <2>2, <2>n DEF LastEmitted, Corrupt
    <3>2. last \in 1..last /\ ReplyKind(call.args[last]) = "ERR"
      BY <3>1 DEF ReplyKind
    <3> QED
      BY <2>3, <3>2
  <2>6. last = n
    BY <2>2, <2>5, <2>n DEF LastEmitted
  <2>7. ~\E i \in DOMAIN call.args : call.args[i] \in {"malformed", "corrupt"}
    BY <2>3, <2>6, <2>n DEF ReplyKind
  <2>8. Responses(call) = {Told(call)}
    BY <1>0, <2>7 DEF Responses
  <2>9. got = Told(call)
    BY <2>4, <2>6, <2>n DEF Told
  <2>10. Phase' = "ready" /\ Kept' = refs /\ Whole' = {} /\ Given' = got /\ Outcome' = "ok"
    BY <1>0, <2>1 DEF Phase, Place, Kept, Whole, Deciding, Given, Outcome
  <2> QED
    BY <1>2, <2>1, <2>8, <2>9, <2>10 DEF Promise!Next, Promise!Complete, Promise!Ends
<1>4. CASE Head(sout).kind \in {"size", "info", "missing"}
  <2>1. cpc' = "decode" /\ UNCHANGED <<call, refs, deadErr, result>>
    BY <1>0, <1>4 DEF ClientReadsObjectInfo, Deliver, clientVars
  <2>2. FlushEnds(sout')
    BY <1>1, <1>4, FlushAfterTail
  <2>3. sout' # <<>>
    BY <2>2 DEF FlushEnds
  <2>4. Phase' = Phase /\ Given' = Given
    BY <1>0, <2>1 DEF Phase, Place, Given
  <2> QED
    BY <1>0, <2>1, <2>3, <2>4, MapSame
<1>5. CASE Head(sout).kind \notin {"size", "info", "missing", "flush"}
  <2>1. MarkDead(DecodeError(Head(sout))) /\ DecodeError(Head(sout)) \in {"Refused", "Protocol"}
    BY <1>5 DEF ClientReadsObjectInfo, DecodeError
  <2>2. /\ deadErr' \in {"Refused", "Protocol"} /\ result' = deadErr' /\ cpc' = "close" /\ cret' = "idle"
        /\ UNCHANGED <<call, got, refs>>
    BY <1>0, <2>1 DEF MarkDead
  <2>3. Phase' = "ready" /\ Kept' = refs /\ Whole' = {} /\ Given' = <<>> /\ Outcome' = "error"
    BY <1>0, <2>2 DEF Phase, Place, Kept, Whole, Deciding, Given, Outcome
  <2>4. deadErr' # "nil"
    BY <2>2
  <2> QED
    BY <1>0, <1>2, <2>2, <2>3, <2>4 DEF Promise!Next, Promise!Die, Promise!Ends
<1> QED
  BY <1>3, <1>4, <1>5

(***************************************************************************)
(* The refinement.                                                         *)
(***************************************************************************)
\* The first states of a session are first states of the promise.
LEMMA PromiseInit == Init => Promise!Init
<1> SUFFICES ASSUME Init PROVE Promise!Init
  OBVIOUS
<1>1. /\ cpc = "dial" /\ call = NoCall /\ got = <<>> /\ deadErr = "nil" /\ result = "none"
  BY DEF Init, ClientInit
<1>2. Phase = "dialing" /\ Kept = <<>> /\ Whole = {Lines(0, sreq.n)} /\ Outcome = "none"
  BY <1>1 DEF Phase, Place, Kept, Whole, Outcome
<1>3. Given = <<>> /\ call.id = 0
  BY <1>1 DEF Given, NoCall
<1> QED
  BY <1>1, <1>2, <1>3 DEF Promise!Init

\* Every step of a session is a step of the promise, or none.
LEMMA PromiseNext ==
    ASSUME TypeOK, TypeOK', PipeInv, TeardownInv, StreamInv, ContentInv, ContentInv', [Next]_vars
    PROVE  [Promise!Next]_(Promise!vars)
<1>0. InStep /\ Parked /\ CallInv /\ RefsComplete /\ NothingSaid'
  BY DEF StreamInv, ContentInv
<1>1. CASE SendRequest
  BY <1>0, <1>1, RequestMaps
<1>2. CASE SendResponse
  <2>1. /\ Live /\ sout' = Tail(sout) /\ UNCHANGED sreq /\ ClientReads(Head(sout)) /\ ClientReading
    BY <1>2 DEF SendResponse, ServerWriting, ServerWrote, Live
  <2>2. FlushEnds(sout)
    BY <1>0, <2>1 DEF InStep, ClientReading
  <2>3. CASE ClientReadsAdvertisement(Head(sout))
    BY <2>1, <2>2, <2>3, DialMaps
  <2>4. CASE ClientReadsRef(Head(sout))
    BY <1>0, <2>1, <2>2, <2>4, RefMaps
  <2>5. CASE ClientDrains(Head(sout))
    BY <2>1, <2>2, <2>5, DrainMaps
  <2>6. CASE ClientReadsObjectInfo(Head(sout))
    BY <1>0, <2>1, <2>2, <2>6, InfoMaps
  <2> QED
    BY <2>1, <2>3, <2>4, <2>5, <2>6 DEF ClientReads
<1>3. CASE ServerStep \/ StoreFails \/ CloseStarts \/ CloseStep \/ DialContextEnds \/ Terminated
           \/ UNCHANGED vars
  BY <1>3, QuietMaps
<1>4. CASE ClientStep
  BY <1>0, <1>4, ClientMaps
<1>5. CASE CallerStep
  BY <1>5, CallerMaps
<1> QED
  BY <1>1, <1>2, <1>3, <1>4, <1>5 DEF Next, Transfer

\* A file:// session whose caller closes it after a failed Command, and closes
\* it itself, keeps the promise of a Session: every step of the goroutine, the
\* pipes, the calls and Conn.Close is a step of AbstractSession or none.
THEOREM KeepsPromiseHolds ==
    ASSUME Disciplined, ~AsyncClose
    PROVE  Spec => KeepsPromise
<1>1. Init => Promise!Init
  BY PromiseInit
<1>2. /\ TypeOK /\ TypeOK' /\ PipeInv /\ TeardownInv /\ StreamInv /\ ContentInv /\ ContentInv' /\ [Next]_vars
      => [Promise!Next]_(Promise!vars)
  BY PromiseNext
<1> QED
  BY <1>1, <1>2, TypeCorrect, PipesInvariant, TeardownInvariant, ConversationInStep, ContentInvariant, PTL
     DEF Spec, KeepsPromise, Promise!Spec

===========================================================================
