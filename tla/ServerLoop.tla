----------------------------- MODULE ServerLoop -----------------------------
(***************************************************************************)
(* The in-process Git server behind file:// URLs: the goroutine            *)
(* transport/file/open.go starts (runServer), running internal/server's    *)
(* Serve: the advertisement, then for protocol v2 the command loop with    *)
(* its two handlers, ls-refs and object-info.                              *)
(*                                                                         *)
(* The goroutine is always at one blocking operation: a read of the next   *)
(* request packet, a write of the next response packet, or the check of    *)
(* its context between two commands.  The operators named Server... are    *)
(* its half of a step; FileSession joins a read or a write of the server   *)
(* with the client's write or read of the same packet.                     *)
(***************************************************************************)
EXTENDS FilePipes, Naturals, Sequences

CONSTANTS
    Versions,   \* the protocol versions a caller may pin, of {"v0", "v2"}
    MaxLines    \* bound: most ref lines one response carries

ASSUME VersionsAssumption == Versions \subseteq {"v0", "v2"}
ASSUME MaxLinesAssumption == MaxLines \in Nat

VARIABLES
    version,    \* opts.PreferredProtocol, what the server speaks
    spc,        \* where the goroutine is
    sreq,       \* the request it has read so far
    sout,       \* the packets the current writer still has to write
    snext,      \* what follows the last of them
    serr        \* conn.serverErr: what Serve returned

serverVars == <<version, spc, sreq, sout, snext, serr>>

(***************************************************************************)
(* Packets.  A request packet is a command line (by the command's name), a *)
(* capability echo, a control packet or an argument line.  The id says     *)
(* which call of the client wrote a request packet, and which request a    *)
(* response packet answers: it is not on the wire.                         *)
(***************************************************************************)
Ops == {"ls-refs", "object-info"}
OidKinds == {"present", "missing", "malformed", "corrupt"}
ArgKinds == OidKinds \cup {"prefix"}
CommandLines == Ops \cup {"fetch"}
ControlKinds == {"flush", "delim", "response-end"}
ReqKinds == CommandLines \cup ControlKinds \cup {"cap", "size"} \cup ArgKinds
RespKinds == {"version", "cap", "caps^{}", "line", "size", "info", "missing", "ERR", "flush"}

Resp(kind, id, n) == [kind |-> kind, id |-> id, n |-> n]
RespPackets == [kind : RespKinds, id : Nat, n : Nat]

NoRequest == [op |-> "none", id |-> 0, seen |-> FALSE, size |-> FALSE, args |-> <<>>, n |-> 0]
Requests == [op : CommandLines \cup {"none"}, id : Nat, seen : BOOLEAN, size : BOOLEAN,
             args : Seq(ArgKinds), n : Nat]

Lines(id, n) == [i \in 1..n |-> Resp("line", id, i)]

(***************************************************************************)
(* writeV2Advertisement; writeV0Advertisement with n lines, or with the    *)
(* capabilities^{} placeholder of a repository that has nothing to list.   *)
(***************************************************************************)
V2Advertisement == << Resp("version", 0, 0), Resp("cap", 0, 0), Resp("flush", 0, 0) >>
V0Advertisement(n) ==
    (IF n = 0 THEN << Resp("caps^{}", 0, 0) >> ELSE Lines(0, n)) \o << Resp("flush", 0, 0) >>

ServerInit ==
    /\ version \in Versions
    /\ \E n \in 0..MaxLines :
          /\ sreq = [NoRequest EXCEPT !.n = IF version = "v0" THEN n ELSE 0]
          /\ sout = IF version = "v0" THEN V0Advertisement(n) ELSE V2Advertisement
    /\ snext = IF version = "v0" THEN "finish" ELSE "loop"
    /\ spc = "write"
    /\ serr = "nil"

\* Serve returns: runServer records the error before it closes anything.
ServerReturn(err) ==
    /\ spc' = "returned"
    /\ serr' = err
    /\ UNCHANGED <<version, sreq, sout, snext>>

(***************************************************************************)
(* runV2CommandLoop looks at the context between two commands only.        *)
(***************************************************************************)
ServerCheckCtx ==
    /\ spc = "loop"
    /\ \/ /\ ctx # "nil"
          /\ ServerReturn(ctx)
       \/ /\ ctx = "nil"
          /\ spc' = "first"
          /\ UNCHANGED <<version, sreq, sout, snext, serr>>

ServerReading == spc \in {"first", "request", "args"}

(***************************************************************************)
(* processV2Request on one packet of the request head, id being the call   *)
(* that sent it.  dispatchV2 runs at the delim, or at a flush that follows *)
(* data; that flush is handed on to the handler (argsReader.pending).      *)
(***************************************************************************)
Fresh == IF spc = "first" THEN NoRequest ELSE sreq

(***************************************************************************)
(* writeObjectInfoResponse: the attribute line, then one line per oid in   *)
(* the order asked; a malformed oid is answered ERR and skipped, a corrupt *)
(* object ends the response with ERR and a flush of its own.               *)
(***************************************************************************)
Corrupt(args) == {i \in DOMAIN args : args[i] = "corrupt"}
LastEmitted(args) ==
    IF Corrupt(args) = {} THEN {Len(args)}
    ELSE {i \in Corrupt(args) : \A j \in Corrupt(args) : i <= j}
\* Mutant: an object that is not there is reported like one that is.
ReplyKindForAll(arg) == IF arg \in {"present", "missing"} THEN "info" ELSE "ERR"

ReplyKind(arg) ==
    IF arg = "present" THEN "info" ELSE IF arg = "missing" THEN "missing" ELSE "ERR"
Replies(req, last) == [i \in 1..last |-> Resp(ReplyKind(req.args[i]), req.id, i)]
\* Mutant: no closing flush.
ObjectInfoResponseOpen(req, last) ==
    (IF req.size /\ req.args # <<>> THEN << Resp("size", req.id, 0) >> ELSE <<>>)
    \o Replies(req, last)

ObjectInfoResponse(req, last) ==
    (IF req.size /\ req.args # <<>> THEN << Resp("size", req.id, 0) >> ELSE <<>>)
    \o Replies(req, last) \o << Resp("flush", req.id, 0) >>

(***************************************************************************)
(* The request is complete: its handler starts writing.  How many lines    *)
(* ls-refs has (n) is up to the repository and the prefixes.               *)
(***************************************************************************)
Respond(req) ==
    /\ spc' = "write"
    /\ \/ /\ req.op = "ls-refs"
          /\ \E n \in 0..MaxLines :
                /\ sreq' = [req EXCEPT !.n = n]
                /\ sout' = Lines(req.id, n) \o << Resp("flush", req.id, 0) >>
          /\ snext' = "loop"
       \/ /\ req.op = "object-info"
          /\ sreq' = req
          /\ \E last \in LastEmitted(req.args) : sout' = ObjectInfoResponse(req, last)
          /\ snext' = IF Corrupt(req.args) = {} THEN "loop" ELSE "refused"
    /\ UNCHANGED <<version, serr>>

\* writeERRPacket with what is to follow it.
Refuse(req, packets, next) ==
    /\ spc' = "write"
    /\ sreq' = req
    /\ sout' = packets
    /\ snext' = next
    /\ UNCHANGED <<version, serr>>

\* Mutant: the flush without the reason.
OnlyFlush(id) == << Resp("flush", id, 0) >>

ErrAndFlush(id) == << Resp("ERR", id, 0), Resp("flush", id, 0) >>

(***************************************************************************)
(* dispatchV2: a request without a command line ends the session with an   *)
(* error, a command the server does not implement is refused.              *)
(***************************************************************************)
Dispatch(req, kind) ==
    \/ /\ req.op = "none"
       /\ ServerReturn("Protocol")
    \/ /\ req.op = "fetch"
       /\ Refuse(req, ErrAndFlush(req.id), "refused")
    \/ /\ req.op \in Ops /\ kind = "flush"
       /\ Respond(req)
    \/ /\ req.op \in Ops /\ kind = "delim"
       /\ spc' = "args"
       /\ sreq' = req
       /\ UNCHANGED <<version, sout, snext, serr>>

ServerReadsHead(kind, id) ==
    /\ spc \in {"first", "request"}
    /\ \/ /\ kind = "flush"
          /\ \/ Fresh.seen /\ Dispatch(Fresh, kind)
             \/ ~Fresh.seen /\ ServerReturn("nil")
       \/ /\ kind = "delim"
          /\ Dispatch(Fresh, kind)
       \/ /\ kind \in CommandLines /\ Fresh.op = "none"
          /\ spc' = "request"
          /\ sreq' = [Fresh EXCEPT !.op = kind, !.id = id, !.seen = TRUE]
          /\ UNCHANGED <<version, sout, snext, serr>>
       \/ /\ kind = "response-end" \/ (kind \in CommandLines /\ Fresh.op # "none")
          /\ ServerReturn("Protocol")
       \/ /\ kind \notin CommandLines \cup ControlKinds
          /\ spc' = "request"
          /\ sreq' = [Fresh EXCEPT !.seen = TRUE]
          /\ UNCHANGED <<version, sout, snext, serr>>

(***************************************************************************)
(* parseLSRefsArgs and parseObjectInfoArgs on one packet.  Both stop at    *)
(* the flush.  What they do not know, ls-refs refuses (ERR, flush, and the *)
(* loop ends) while object-info answers ERR and reads on.                  *)
(***************************************************************************)
ServerReadsArg(kind) ==
    /\ spc = "args"
    /\ \/ /\ kind = "flush"
          /\ Respond(sreq)
       \/ /\ \/ sreq.op = "ls-refs" /\ kind = "prefix"
             \/ sreq.op = "object-info" /\ kind \in OidKinds
          /\ sreq' = [sreq EXCEPT !.args = Append(@, kind)]
          /\ UNCHANGED <<version, spc, sout, snext, serr>>
       \/ /\ sreq.op = "object-info" /\ kind = "size"
          /\ sreq' = [sreq EXCEPT !.size = TRUE]
          /\ UNCHANGED <<version, spc, sout, snext, serr>>
       \/ /\ sreq.op = "ls-refs" /\ kind \notin {"prefix", "flush"}
          /\ Refuse(sreq, ErrAndFlush(sreq.id), "refused")
       \/ /\ sreq.op = "object-info" /\ kind \notin OidKinds \cup {"size", "flush"}
          /\ Refuse(sreq, << Resp("ERR", sreq.id, 0) >>, "args")

ServerReads(kind, id) == ServerReadsHead(kind, id) \/ ServerReadsArg(kind)

(***************************************************************************)
(* A read fails.  Only at the very start of a request is an EOF the clean  *)
(* end of the conversation; among the arguments it is ErrUnexpectedEOF.    *)
(***************************************************************************)
\* Mutant: an EOF between two requests is not the end.
ServerReadsOn(err) ==
    /\ ServerReading
    /\ \/ /\ spc = "first" /\ err = "EOF"
          /\ spc' = "loop"
          /\ UNCHANGED <<version, sreq, sout, snext, serr>>
       \/ (spc # "first" \/ err # "EOF") /\ ServerReturn(err)

ServerReadFails(err) ==
    /\ ServerReading
    /\ \/ spc = "first" /\ err = "EOF" /\ ServerReturn("nil")
       \/ spc = "args" /\ err = "EOF" /\ ServerReturn("UnexpectedEOF")
       \/ (spc = "request" \/ err # "EOF") /\ ServerReturn(err)

ServerWriting == spc = "write" /\ sout # <<>>

\* A packet has been taken by the client.
ServerWrote ==
    /\ ServerWriting
    /\ sout' = Tail(sout)
    /\ UNCHANGED <<version, spc, sreq, snext, serr>>

\* Every write error is returned as it is.
ServerWriteFails(err) ==
    /\ ServerWriting
    /\ ServerReturn(err)

\* The writer is through: back to the loop, back to the arguments, or out.
ServerFinishes ==
    /\ spc = "write" /\ sout = <<>>
    /\ \/ snext = "finish" /\ ServerReturn("nil")
       \/ snext = "refused" /\ ServerReturn("Refused")
       \/ /\ snext \in {"loop", "args"}
          /\ spc' = snext
          /\ UNCHANGED <<version, sreq, sout, snext, serr>>

(***************************************************************************)
(* The store fails under ls-refs (Head, Peel, IterRefs; also a line over   *)
(* the pkt-line limit) or under the v0 advertisement: nothing is written,  *)
(* the error is returned.  After the last ref line nothing can fail any    *)
(* more, but a lone first line may be HEAD, which is written before the    *)
(* refs are collected.                                                     *)
(***************************************************************************)
StoreMayFail ==
    /\ sreq.op = "ls-refs" \/ (sreq.op = "none" /\ snext = "finish")
    /\ Len(sout) > 1 \/ sreq.n <= 1

ServerStoreFails ==
    /\ ServerWriting /\ snext \in {"loop", "finish"} /\ StoreMayFail
    /\ ServerReturn("Store")

(***************************************************************************)
(* runServer after Serve: both server ends are closed with its error, the  *)
(* writing end first, and then done is closed.                             *)
(***************************************************************************)
\* Mutant: the pipe is closed without the error.
ServerClosesWriterPlainly ==
    /\ spc = "returned"
    /\ spc' = "closing"
    /\ s2c' = CloseWriter(s2c, "nil")
    /\ UNCHANGED <<version, sreq, sout, snext, serr, c2s, ctx>>

ServerClosesWriter ==
    /\ spc = "returned"
    /\ spc' = "closing"
    /\ s2c' = CloseWriter(s2c, serr)
    /\ UNCHANGED <<version, sreq, sout, snext, serr, c2s, ctx>>

\* Mutant: the reading end is left open.
ServerKeepsReader ==
    /\ spc = "closing"
    /\ spc' = "closed"
    /\ UNCHANGED <<version, sreq, sout, snext, serr, pipeVars>>

ServerClosesReader ==
    /\ spc = "closing"
    /\ spc' = "closed"
    /\ c2s' = CloseReader(c2s, serr)
    /\ UNCHANGED <<version, sreq, sout, snext, serr, s2c, ctx>>

ServerDone ==
    /\ spc = "closed"
    /\ spc' = "done"
    /\ UNCHANGED <<version, sreq, sout, snext, serr, pipeVars>>

ServerStates ==
    {"write", "loop", "first", "request", "args", "returned", "closing", "closed", "done"}

ServerTypeOK ==
    /\ version \in Versions
    /\ spc \in ServerStates
    /\ sreq \in Requests
    /\ sout \in Seq(RespPackets)
    /\ snext \in {"loop", "args", "finish", "refused"}
    /\ serr \in ServeErrs \cup {"nil"}
============================================================================
