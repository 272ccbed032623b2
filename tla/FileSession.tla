---------------------------- MODULE FileSession ----------------------------
(***************************************************************************)
(* A file:// session: the caller (ClientSession), the server goroutine     *)
(* (ServerLoop), the two pipes between them, and Conn.Close                *)
(* (transport/file/conn.go), which tears all of it down while the          *)
(* goroutine may be blocked anywhere.                                      *)
(***************************************************************************)
EXTENDS ClientSession

CONSTANT AsyncClose   \* whether another goroutine may call Session.Close
ASSUME AsyncCloseAssumption == AsyncClose \in BOOLEAN

VARIABLES
    kpc,        \* how far Conn.Close (inside closeOnce) has come
    closeErr,   \* the errors joined into Conn.closeErr
    storeOpen   \* whether the object store is open

closeVars == <<kpc, closeErr, storeOpen>>
vars == <<pipeVars, serverVars, clientVars, closeVars>>

Init ==
    /\ PipesInit /\ ServerInit /\ ClientInit
    /\ kpc = "open" /\ closeErr = {} /\ storeOpen = TRUE

(***************************************************************************)
(* A packet changes hands.                                                 *)
(***************************************************************************)
SendRequest ==
    /\ ClientWriting /\ ServerReading /\ ~Closed(c2s)
    /\ ClientWrote
    /\ ServerReads(Frame(call)[pos], call.id)
    /\ UNCHANGED <<pipeVars, closeVars>>

SendResponse ==
    /\ ServerWriting /\ ClientReading /\ ~Closed(s2c)
    /\ ServerWrote
    /\ ClientReads(Head(sout))
    /\ UNCHANGED <<pipeVars, closeVars>>

Transfer == SendRequest \/ SendResponse

(***************************************************************************)
(* One side finds its pipe closed.  When the pipe is closed between the    *)
(* header and the payload of a request packet, the server's read is torn:  *)
(* ErrUnexpectedEOF where it would have been EOF.                          *)
(***************************************************************************)
ReadErrs ==
    {ReadErr(c2s)} \cup
    (IF ReadErr(c2s) = "EOF" /\ ClientWriting THEN {"UnexpectedEOF"} ELSE {})

ServerReadError ==
    /\ Closed(c2s)
    /\ \E err \in ReadErrs : ServerReadFails(err)
    /\ UNCHANGED <<pipeVars, clientVars, closeVars>>

ServerWriteError ==
    /\ Closed(s2c)
    /\ ServerWriteFails(WriteErr(s2c))
    /\ UNCHANGED <<pipeVars, clientVars, closeVars>>

ClientReadError ==
    /\ Closed(s2c)
    /\ ClientReadFails(ReadErr(s2c))
    /\ UNCHANGED <<pipeVars, serverVars, closeVars>>

ClientWriteError ==
    /\ Closed(c2s)
    /\ ClientWriteFails(WriteErr(c2s))
    /\ UNCHANGED <<pipeVars, serverVars, closeVars>>

(***************************************************************************)
(* What the goroutine, the caller and their surroundings do on their own.  *)
(***************************************************************************)
ServerInternal ==
    \/ /\ ServerCheckCtx \/ ServerFinishes
       /\ UNCHANGED <<pipeVars, clientVars, closeVars>>
    \/ /\ ServerClosesWriter \/ ServerClosesReader \/ ServerDone
       /\ UNCHANGED <<clientVars, closeVars>>

StoreFails ==
    /\ ServerStoreFails
    /\ UNCHANGED <<pipeVars, clientVars, closeVars>>

ServerStep == ServerInternal \/ ServerReadError \/ ServerWriteError

CallerStep ==
    /\ CallRefs \/ CallObjectInfo \/ RangeOver \/ Continue \/ Break \/ CallClose \/ IgnoreError
    /\ UNCHANGED <<pipeVars, serverVars, closeVars>>

PayloadRejected ==
    /\ ClientTooLarge
    /\ UNCHANGED <<pipeVars, serverVars, closeVars>>

ClientStep == PayloadRejected \/ ClientReadError \/ ClientWriteError

\* The context given to Dial is cancelled, or its deadline passes.
DialContextEnds ==
    /\ ctx = "nil"
    /\ ctx' \in CtxErrs
    /\ UNCHANGED <<c2s, s2c, serverVars, clientVars, closeVars>>

(***************************************************************************)
(* Conn.Close, step by step.  Only the first call runs the steps; a caller *)
(* in Close waits for them (sync.Once), whoever runs them.                 *)
(***************************************************************************)
CloseStarts ==
    /\ kpc = "open"
    /\ cpc = "close" \/ AsyncClose
    /\ kpc' = "cancel"
    /\ UNCHANGED <<pipeVars, serverVars, clientVars, closeErr, storeOpen>>

\* Mutant: Close waits for the goroutine before it has closed the pipes.
CloseWaitsFirst ==
    /\ kpc = "cancel"
    /\ kpc' = "wait"
    /\ ctx' = IF ctx = "nil" THEN "Canceled" ELSE ctx
    /\ UNCHANGED <<c2s, s2c, serverVars, clientVars, closeErr, storeOpen>>

CloseCancels ==
    /\ kpc = "cancel"
    /\ kpc' = "clientReader"
    /\ ctx' = IF ctx = "nil" THEN "Canceled" ELSE ctx
    /\ UNCHANGED <<c2s, s2c, serverVars, clientVars, closeErr, storeOpen>>

CloseClientReader ==
    /\ kpc = "clientReader"
    /\ kpc' = "clientWriter"
    /\ s2c' = CloseReader(s2c, "nil")
    /\ UNCHANGED <<c2s, ctx, serverVars, clientVars, closeErr, storeOpen>>

CloseClientWriter ==
    /\ kpc = "clientWriter"
    /\ kpc' = "serverReader"
    /\ c2s' = CloseWriter(c2s, "nil")
    /\ UNCHANGED <<s2c, ctx, serverVars, clientVars, closeErr, storeOpen>>

CloseServerReader ==
    /\ kpc = "serverReader"
    /\ kpc' = "serverWriter"
    /\ c2s' = CloseReader(c2s, "nil")
    /\ UNCHANGED <<s2c, ctx, serverVars, clientVars, closeErr, storeOpen>>

CloseServerWriter ==
    /\ kpc = "serverWriter"
    /\ kpc' = "wait"
    /\ s2c' = CloseWriter(s2c, "nil")
    /\ UNCHANGED <<c2s, ctx, serverVars, clientVars, closeErr, storeOpen>>

\* Mutant: Close does not wait for the goroutine.
CloseDoesNotWait ==
    /\ kpc = "wait"
    /\ kpc' = "store"
    /\ closeErr' = {serr} \ {"nil", "Canceled", "ClosedPipe"}
    /\ UNCHANGED <<pipeVars, serverVars, clientVars, storeOpen>>

\* Mutant: the closed pipe is not filtered out.
CloseReportsPipe ==
    /\ kpc = "wait" /\ spc = "done"
    /\ kpc' = "store"
    /\ closeErr' = {serr} \ {"nil", "Canceled"}
    /\ UNCHANGED <<pipeVars, serverVars, clientVars, storeOpen>>

\* <-c.done, then the filter on the server's error.
CloseWaits ==
    /\ kpc = "wait" /\ spc = "done"
    /\ kpc' = "store"
    /\ closeErr' = {serr} \ {"nil", "Canceled", "ClosedPipe"}
    /\ UNCHANGED <<pipeVars, serverVars, clientVars, storeOpen>>

CloseStore ==
    /\ kpc = "store"
    /\ kpc' = "closed"
    /\ storeOpen' = FALSE
    /\ \E errs \in SUBSET {"StoreClose"} : closeErr' = closeErr \cup errs
    /\ UNCHANGED <<pipeVars, serverVars, clientVars>>

CloseReturns ==
    /\ kpc = "closed"
    /\ ClientClosed
    /\ UNCHANGED <<pipeVars, serverVars, closeVars>>

CloseStep ==
    \/ CloseCancels \/ CloseClientReader \/ CloseClientWriter \/ CloseServerReader
    \/ CloseServerWriter \/ CloseWaits \/ CloseStore \/ CloseReturns

\* A Dial that failed leaves nothing to do.
Terminated == cpc = "gone" /\ UNCHANGED vars

Next ==
    \/ Transfer \/ ServerStep \/ StoreFails \/ ClientStep \/ CallerStep
    \/ DialContextEnds \/ CloseStarts \/ CloseStep \/ Terminated

(***************************************************************************)
(* The Go scheduler runs every goroutine that can run.  Nothing forces the *)
(* caller to make a call, to go on with its loop or to close, the store to *)
(* fail, or the context to end; a caller already inside Close does start   *)
(* it.                                                                     *)
(***************************************************************************)
Fairness ==
    /\ WF_vars(Transfer)
    /\ WF_vars(ServerStep)
    /\ WF_vars(ClientStep)
    /\ WF_vars(cpc = "close" /\ CloseStarts)
    /\ WF_vars(CloseStep)

Spec == Init /\ [][Next]_vars /\ Fairness

CloseStates ==
    {"open", "cancel", "clientReader", "clientWriter", "serverReader", "serverWriter",
     "wait", "store", "closed"}

\* Every variable keeps the shape of the Go value it stands for.
TypeOK ==
    /\ PipesTypeOK /\ ServerTypeOK /\ ClientTypeOK
    /\ kpc \in CloseStates
    /\ closeErr \subseteq ServeErrs \cup {"StoreClose"}
    /\ storeOpen \in BOOLEAN

(***************************************************************************)
(* Safety.                                                                 *)
(***************************************************************************)

\* What Refs yields is the response to this very call, in order and without
\* a gap; and when the iterator ends without an error it has yielded the
\* whole of it (refsV2 with DecodeLSRefs against writeLSRefsResponse).
RefsComplete ==
    call.op = "ls-refs" /\ version = "v2" =>
        /\ got = Lines(call.id, Len(got))
        /\ result = "ok" => sreq.id = call.id /\ Len(got) = sreq.n

\* Between two calls the stream is drained: the server has nothing left to
\* say that the next call could take for its own response, whether the last
\* loop ended, broke off (drainLSRefsResponse) or failed.
StreamDrained ==
    cpc = "idle" => ~ServerWriting

\* The object store is closed only after the goroutine that reads it is
\* done, and the goroutine is not left behind (Conn.Close).
StoreOutlivesServer ==
    (~storeOpen \/ kpc = "closed") => spc = "done"

\* When the caller sees the error that killed the session, the connection
\* has been torn down completely (markDead).
DeadIsClosed ==
    deadErr # "nil" /\ cpc # "close" => kpc = "closed" /\ ~storeOpen

\* An error Conn.Close returns is a fault of the server or the store, the
\* deadline the caller set, or the request a rejected argument cut short;
\* it is never an artefact of the teardown itself.
CloseReportsFaultsOnly ==
    /\ closeErr \subseteq {"Store", "Refused", "StoreClose", "DeadlineExceeded", "UnexpectedEOF"}
    /\ kpc = "store" /\ "UnexpectedEOF" \in closeErr => result = "TooLarge"

\* What a step may report once Serve has returned an error.
CauseStep ==
    kpc = "open" /\ serr # "nil" /\ result' # result /\ result' \in ServeErrs => result' = serr

\* When the goroutine has failed by itself, the failure the caller is told is
\* the goroutine's own error, not the closed pipe or the end of stream it
\* left behind (runServer's CloseWithError, wrapWriteError).
CauseReported == [][CauseStep]_vars

(***************************************************************************)
(* Liveness.                                                               *)
(***************************************************************************)

\* The goroutine is still inside an earlier request.  For good it is only when
\* that request was cut short: its Command rejected an argument behind the
\* delim (pktline.MaxPayload) and reported it, and the caller went on.
CutShort == spc \in {"args", "write"} /\ sreq.id \notin {0, call.id}

\* A call comes back to the caller's code: no write, read, drain or Close
\* waits for ever, but for a call behind a request that was cut short, and even
\* that one comes back once somebody closes (Command, Session.Refs, Conn.Close).
CallsReturn ==
    cpc \notin CallerStates /\ ~(CutShort /\ kpc = "open") ~> cpc \in CallerStates

\* Once begun, Close ends, wherever the goroutine was blocked.
CloseEnds == kpc # "open" ~> kpc = "closed"

============================================================================
