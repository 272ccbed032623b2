------------------------------ MODULE GitConn ------------------------------
(***************************************************************************)
(* The git:// transport (transport/git).                                   *)
(***************************************************************************)
EXTENDS StreamConn

\* The checks at the head of Open.
GitOpen ==
    /\ opc = "start"
    /\ \/ ctxEnded /\ Failed("ctx")
       \/ ~ctxEnded /\ ~ResolvePreferredProtocol /\ Failed("Unsupported")
       \/ ~ctxEnded /\ ResolvePreferredProtocol /\ Goes("dial")
    /\ UNCHANGED <<ctxEnded, preferred, tcp, issued, cmdErr>>

GitDialed ==
    /\ opc = "dial"
    /\ \/ Failed("net") /\ UNCHANGED tcp
       \/ Goes("request") /\ tcp' = "open"
    /\ UNCHANGED <<ctxEnded, preferred, issued, cmdErr>>

\* DialContext gives up; mapDialError returns the context's error as it is.
GitDialCancelled ==
    /\ opc = "dial" /\ ctxEnded
    /\ Failed("ctx")
    /\ UNCHANGED <<ctxEnded, preferred, tcp, issued, cmdErr>>

\* WriteStreamRequest, the connection closed when it fails.
GitRequest ==
    /\ opc = "request"
    /\ \/ Goes("open") /\ UNCHANGED tcp
       \/ Failed("write") /\ tcp' = "closed"
    /\ UNCHANGED <<ctxEnded, preferred, issued, cmdErr>>

\* Command: the command's context has ended, or the write fails, or not.
GitCommand ==
    /\ opc = "open"
    /\ \E err \in {"ok", "ctx", "write"} : CommandEnds(err)
    /\ UNCHANGED <<ctxEnded, preferred, opc, openErr, tcp>>

GitClose ==
    /\ opc = "open"
    /\ Goes("closed") /\ tcp' = "closed"
    /\ UNCHANGED <<ctxEnded, preferred, issued, cmdErr>>
=============================================================================
