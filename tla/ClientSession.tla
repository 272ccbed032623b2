--------------------------- MODULE ClientSession ---------------------------
(***************************************************************************)
(* A Session on a transport that carries every command over one stream     *)
(* (session.go, the tail of dial.go, and the decoders of internal/wire).   *)
(*                                                                         *)
(* A session on such a transport serves one caller at a time.  The caller  *)
(* is at cpc: between two calls, inside a call that writes its request or  *)
(* decodes its response, inside the body of its range loop over Refs, or   *)
(* waiting for Conn.Close.  As in ServerLoop, an operator here is the      *)
(* client's half of a step; FileSession supplies the pipes.                *)
(***************************************************************************)
EXTENDS ServerLoop

CONSTANTS
    MaxCalls,   \* bound: calls the caller makes on the session
    MaxArgs,    \* bound: argument lines of one call
    Disciplined \* whether the caller closes after a failed Command

ASSUME MaxCallsAssumption == MaxCalls \in Nat
ASSUME MaxArgsAssumption == MaxArgs \in Nat
ASSUME DisciplinedAssumption == Disciplined \in BOOLEAN

VARIABLES
    cpc,        \* where the caller is
    cret,       \* where it goes on when Conn.Close returns
    call,       \* the current, or the last, call
    pos,        \* the packet of its request frame that is written next
    sized,      \* DecodeObjectInfo: the response had a size header
    got,        \* what the call has delivered to the caller so far
    refs,       \* Session.refs: the v0 advertisement kept by Dial
    deadErr,    \* Session.deadErr
    result      \* what the last call that ended reported

clientVars == <<cpc, cret, call, pos, sized, got, refs, deadErr, result>>

(***************************************************************************)
(* A call's arguments.  "big" is a line over pktline.MaxPayload, which     *)
(* WritePacket rejects before a byte of it is written.                     *)
(***************************************************************************)
ArgsOver(kinds) == UNION {[1..k -> kinds] : k \in 0..MaxArgs}
NoCall == [op |-> "none", id |-> 0, size |-> FALSE, args |-> <<>>]
Calls == [op : Ops \cup {"none"}, id : Nat, size : BOOLEAN, args : Seq(ArgKinds \cup {"big"})]

\* EncodeLSRefs and EncodeObjectInfo: command line, capability echo, delim,
\* arguments, flush.
Arguments(c) == (IF c.size THEN << "size" >> ELSE <<>>) \o c.args
Frame(c) == << c.op, "cap", "delim" >> \o Arguments(c) \o << "flush" >>

Errs == ServeErrs \cup {"Ctx", "TooLarge"}
Results == Errs \cup {"none", "ok", "broke", "SessionDead", "Unsupported"}

ClientInit ==
    /\ cpc = "dial" /\ cret = "idle"
    /\ call = NoCall /\ pos = 1 /\ sized = FALSE
    /\ got = <<>> /\ refs = <<>>
    /\ deadErr = "nil" /\ result = "none"

(***************************************************************************)
(* Dial reads the advertisement up to its flush.  A failure closes the     *)
(* connection: no session is handed out.                                   *)
(***************************************************************************)
ClientReadsAdvertisement(pkt) ==
    /\ cpc = "dial"
    /\ cpc' = IF pkt.kind = "flush" THEN "idle" ELSE "dial"
    /\ refs' = IF pkt.kind = "line" THEN Append(refs, pkt) ELSE refs
    /\ UNCHANGED <<cret, call, pos, sized, got, deadErr, result>>

DialFails(err) ==
    /\ cpc = "dial"
    /\ cpc' = "close" /\ cret' = "gone"
    /\ result' = IF err = "EOF" THEN "UnexpectedEOF" ELSE err
    /\ UNCHANGED <<call, pos, sized, got, refs, deadErr>>

(***************************************************************************)
(* Refs and ObjectInfo up to the first byte of the request: a dead session *)
(* refuses, v0 answers from the advertisement (or cannot answer at all),   *)
(* and Command looks at its own context before it writes.  Here a v0       *)
(* caller gets all refs; Discovery has the choice by prefix (refsCached).  *)
(***************************************************************************)
NewCall(op, size, args) == [op |-> op, id |-> call.id + 1, size |-> size, args |-> args]

Answer(c, delivered, res) ==
    /\ call' = c /\ got' = delivered /\ result' = res
    /\ pos' = 1 /\ sized' = FALSE
    /\ UNCHANGED <<cpc, cret, refs, deadErr>>

Command(c) ==
    /\ call' = c /\ got' = <<>> /\ pos' = 1 /\ sized' = FALSE
    /\ \/ cpc' = "write" /\ result' = "none"
       \/ cpc' = "failed" /\ result' = "Ctx"
    /\ UNCHANGED <<cret, refs, deadErr>>

CallRefs ==
    /\ cpc = "idle" /\ call.id < MaxCalls
    /\ \E args \in ArgsOver({"prefix", "big"}) : \E c \in {NewCall("ls-refs", FALSE, args)} :
          \/ deadErr # "nil" /\ Answer(c, <<>>, "SessionDead")
          \/ deadErr = "nil" /\ version = "v0" /\ Answer(c, refs, "ok")
          \/ deadErr = "nil" /\ version = "v2" /\ Command(c)

CallObjectInfo ==
    /\ cpc = "idle" /\ call.id < MaxCalls
    /\ \E size \in BOOLEAN, args \in ArgsOver(OidKinds \cup {"big"}) :
       \E c \in {NewCall("object-info", size, args)} :
          \/ deadErr # "nil" /\ Answer(c, <<>>, "SessionDead")
          \/ deadErr = "nil" /\ version = "v0" /\ Answer(c, <<>>, "Unsupported")
          \/ deadErr = "nil" /\ version = "v2" /\ Command(c)

(***************************************************************************)
(* Writing the request.  A Command error goes back to the caller and       *)
(* leaves the session as it is: markDead is not called for it.             *)
(***************************************************************************)
ClientWriting == cpc = "write" /\ Frame(call)[pos] # "big"

\* Mutant: one packet too many.
ClientWroteOneMore ==
    /\ ClientWriting
    /\ pos' = pos + 1
    /\ cpc' = IF pos <= Len(Frame(call)) THEN "write" ELSE "iter"
    /\ UNCHANGED <<cret, call, sized, got, refs, deadErr, result>>

ClientWrote ==
    /\ ClientWriting
    /\ pos' = pos + 1
    /\ cpc' = IF pos < Len(Frame(call)) THEN "write"
              ELSE IF call.op = "ls-refs" THEN "iter" ELSE "decode"
    /\ UNCHANGED <<cret, call, sized, got, refs, deadErr, result>>

CommandFails(err) ==
    /\ cpc' = "failed" /\ result' = err
    /\ UNCHANGED <<cret, call, pos, sized, got, refs, deadErr>>

\* WritePacket's own limit.
ClientTooLarge ==
    /\ cpc = "write" /\ Frame(call)[pos] = "big"
    /\ CommandFails("TooLarge")

\* wrapWriteError: a closed pipe is reported as the server's own error once
\* the goroutine is known to be done.
RootCause(err) ==
    IF err = "ClosedPipe" /\ spc = "done" /\ serr # "nil" THEN serr ELSE err

ClientWriteFails(err) ==
    /\ ClientWriting
    /\ CommandFails(RootCause(err))

(***************************************************************************)
(* Reading the response.  An error ends the session: markDead keeps the    *)
(* first cause and closes the connection before the caller sees the error. *)
(***************************************************************************)
\* Mutant: the connection is left as it is.
MarkDeadOnly(err) ==
    /\ deadErr' = IF deadErr = "nil" THEN err ELSE deadErr
    /\ result' = err /\ cpc' = "idle"
    /\ UNCHANGED <<cret, call, pos, sized, got, refs>>

MarkDead(err) ==
    /\ deadErr' = IF deadErr = "nil" THEN err ELSE deadErr
    /\ result' = err
    /\ cpc' = IF deadErr = "nil" THEN "close" ELSE "idle"
    /\ cret' = "idle"
    /\ UNCHANGED <<call, pos, sized, got, refs>>

Deliver(pkt, pc) ==
    /\ got' = Append(got, pkt)
    /\ cpc' = pc
    /\ UNCHANGED <<cret, call, pos, sized, refs, deadErr, result>>

EndsWith(res) ==
    /\ cpc' = "idle" /\ result' = res
    /\ UNCHANGED <<cret, call, pos, sized, got, refs, deadErr>>

\* The caller starts to range over the iterator Refs gave it.
RangeOver ==
    /\ cpc = "iter"
    /\ cpc' = "read"
    /\ UNCHANGED <<cret, call, pos, sized, got, refs, deadErr, result>>

\* An ERR packet is the server's refusal; any other packet a decoder does not
\* expect is malformed.
DecodeError(pkt) == IF pkt.kind = "ERR" THEN "Refused" ELSE "Protocol"

\* DecodeLSRefs on one packet.
ClientReadsRef(pkt) ==
    /\ cpc = "read"
    /\ \/ pkt.kind = "line" /\ Deliver(pkt, "yield")
       \/ pkt.kind = "flush" /\ EndsWith("ok")
       \/ pkt.kind \notin {"line", "flush"} /\ MarkDead(DecodeError(pkt))

\* The caller's loop body goes on to the next ref, or breaks: the deferred
\* drain then reads the response to its flush.
Continue ==
    /\ cpc = "yield"
    /\ cpc' = "read"
    /\ UNCHANGED <<cret, call, pos, sized, got, refs, deadErr, result>>

\* Mutant: no drain.
BreakAway == cpc = "yield" /\ EndsWith("broke")

Break ==
    /\ cpc = "yield"
    /\ cpc' = "drain"
    /\ UNCHANGED <<cret, call, pos, sized, got, refs, deadErr, result>>

\* drainLSRefsResponse.
ClientDrains(pkt) ==
    /\ cpc = "drain"
    /\ \/ pkt.kind = "flush" /\ EndsWith("broke")
       \/ pkt.kind # "flush" /\ UNCHANGED clientVars

\* DecodeObjectInfo on one packet: a missing oid is recognised, and left
\* out, only under a size header.
ClientReadsObjectInfo(pkt) ==
    /\ cpc = "decode"
    /\ \/ /\ pkt.kind = "size"
          /\ sized' = TRUE
          /\ UNCHANGED <<cpc, cret, call, pos, got, refs, deadErr, result>>
       \/ pkt.kind = "info" /\ Deliver(pkt, "decode")
       \/ pkt.kind = "missing" /\ ~sized /\ Deliver(pkt, "decode")
       \/ pkt.kind = "missing" /\ sized /\ UNCHANGED clientVars
       \/ pkt.kind = "flush" /\ EndsWith("ok")
       \/ pkt.kind \notin {"size", "info", "missing", "flush"} /\ MarkDead(DecodeError(pkt))

ClientReading == cpc \in {"dial", "read", "drain", "decode"}

ClientReads(pkt) ==
    \/ ClientReadsAdvertisement(pkt)
    \/ ClientReadsRef(pkt)
    \/ ClientDrains(pkt)
    \/ ClientReadsObjectInfo(pkt)

\* Mutant: a response the server gave up on passes for a complete one.
ClientReadFailsLeniently(err) ==
    \/ DialFails(err)
    \/ cpc = "drain" /\ EndsWith("broke")
    \/ cpc \in {"read", "decode"} /\ err = "Store" /\ EndsWith("ok")
    \/ cpc \in {"read", "decode"} /\ err # "Store" /\ MarkDead(err)

\* A read fails: Dial gives up, a drain swallows it, a decoder reports it
\* with EOF turned into ErrUnexpectedEOF.
ClientReadFails(err) ==
    \/ DialFails(err)
    \/ cpc = "drain" /\ EndsWith("broke")
    \/ /\ cpc \in {"read", "decode"}
       /\ MarkDead(IF err = "EOF" THEN "UnexpectedEOF" ELSE err)

(***************************************************************************)
(* Session.Close, wherever the caller's code runs.                         *)
(***************************************************************************)
CallClose ==
    /\ cpc \in {"idle", "iter", "yield", "failed"}
    /\ cpc' = "close"
    /\ cret' = IF cpc = "failed" THEN "idle" ELSE cpc
    /\ UNCHANGED <<call, pos, sized, got, refs, deadErr, result>>

\* Conn.Close has returned.
ClientClosed ==
    /\ cpc = "close"
    /\ cpc' = cret
    /\ UNCHANGED <<cret, call, pos, sized, got, refs, deadErr, result>>

\* A caller that does not close after a failed Command goes on regardless.
IgnoreError ==
    /\ ~Disciplined
    /\ cpc = "failed"
    /\ cpc' = "idle"
    /\ UNCHANGED <<cret, call, pos, sized, got, refs, deadErr, result>>

CallerStates == {"idle", "iter", "yield", "failed", "gone"}
ClientStates == CallerStates \cup {"dial", "write", "read", "drain", "decode", "close"}

ClientTypeOK ==
    /\ cpc \in ClientStates /\ cret \in CallerStates
    /\ call \in Calls
    /\ pos \in Nat
    /\ cpc = "write" => call.op \in Ops /\ pos \in 1..Len(Frame(call))
    /\ sized \in BOOLEAN
    /\ got \in Seq(RespPackets) /\ refs \in Seq(RespPackets)
    /\ deadErr \in ServeErrs \cup {"nil"}
    /\ result \in Results
============================================================================
