----------------------- MODULE FileSessionRefinement -----------------------
(***************************************************************************)
(* A file:// session implements AbstractSession.  The mapping says what    *)
(* the caller can tell of pipes, goroutine and teardown: the time inside   *)
(* Conn.Close belongs to the state it returns to, and a response exists    *)
(* from the moment the server starts to write it.                          *)
(***************************************************************************)
EXTENDS FileSession

Place == IF cpc = "close" THEN cret ELSE cpc

Phase ==
    IF Place = "dial" THEN "dialing"
    ELSE IF Place = "gone" THEN "over"
    ELSE IF Place \in {"idle", "failed"} THEN "ready" ELSE "calling"

\* The objects an object-info call is to be told of, in the order asked: the
\* ones the repository has, or, when no size is asked for and the protocol
\* cannot tell, all of them.  A call with an oid that is malformed or whose
\* object is corrupt has no response, only an error.
Reply(c, i) == Resp(IF c.args[i] = "present" THEN "info" ELSE "missing", c.id, i)
ToldUpTo(c) ==
    LET upTo[k \in 0..Len(c.args)] ==
            IF k = 0 THEN <<>>
            ELSE IF Reply(c, k).kind = "info" \/ ~c.size THEN Append(upTo[k - 1], Reply(c, k))
            ELSE upTo[k - 1]
    IN upTo
Told(c) == ToldUpTo(c)[Len(c.args)]
Responses(c) ==
    IF c.op = "ls-refs" THEN {Lines(c.id, sreq.n)}
    ELSE IF \E i \in DOMAIN c.args : c.args[i] \in {"malformed", "corrupt"} THEN {}
    ELSE {Told(c)}

Deciding == Phase = "calling" /\ sreq.id = call.id /\ sout # <<>>

Kept == IF Phase \in {"ready", "calling"} THEN refs ELSE <<>>
Whole ==
    IF Phase = "dialing" THEN {Lines(0, sreq.n)} ELSE IF Deciding THEN Responses(call) ELSE {}
Given == IF call.op = "object-info" /\ result # "ok" THEN <<>> ELSE got
Outcome == IF result \in {"none", "ok", "broke"} THEN result ELSE "error"

Promise == INSTANCE AbstractSession WITH
    phase <- Phase, number <- call.id, kept <- Kept, whole <- Whole, given <- Given,
    outcome <- Outcome, dead <- deadErr # "nil"

\* Whatever the server goroutine, the pipes and Close are doing meanwhile,
\* the caller of a file:// session sees a call answered with its own whole
\* response, left, or failed, and a failed response ends the session.
KeepsPromise == Promise!Spec
============================================================================
